------------------------------ MODULE CcLoader ------------------------------
(***************************************************************************)
(* The loader of C++ sources (aseccloader.cpp): CPP.ExecuteFile("m.cpp")   *)
(* compiles m.cpp unless m.so is newer, and loads m.so once in a process.  *)
(* Threads call it at the same time, and so do several processes, which    *)
(* share nothing but the two files and the clock of their time stamps.     *)
(***************************************************************************)
EXTENDS Naturals

CONSTANTS
    Callers,
    Processes,
    ProcessOf,      \* the process of each thread
    MaxTime,        \* bound: the clock of the time stamps
    MaxVersion      \* bound: versions of the source

ASSUME ProcessAssumption == ProcessOf \in [Callers -> Processes]
ASSUME LoaderBoundsAssumption == MaxTime \in Nat /\ MaxVersion \in Nat \ {0}

None == 0
Nobody == "nobody"

VARIABLES
    now,
    source,         \* m.cpp: whether it exists, its version and time stamp
    library,        \* m.so: none, partial or whole, the version of the
                    \* source in it, its time stamp, and who writes it;
                    \* history: whether an edit came too late to be in it
    pc,
    so_time,        \* st_mtime of m.so in ase_newer_than, 0 outside
    compiling,      \* the version the compiler of the thread has read, or None
    since,          \* history: the version of the source when it was called
    klass,          \* the class found in load_file or new_library_object
    modmap,         \* modmap and libmap of each process, for this module:
    libmap          \* the version loaded

files == <<source, library>>
maps == <<modmap, libmap>>
locals == <<so_time, compiling, since, klass>>
loaderVars == <<now, files, pc, locals, maps>>

Version == 1 .. MaxVersion
Time == 0 .. MaxTime

LoaderTypeOK ==
    /\ now \in Time
    /\ source \in [exists : BOOLEAN, version : Version, mtime : Time]
    /\ library \in [state : {"none", "partial", "whole"}, version : Version, mtime : Time,
                    by : Callers \cup {Nobody}, late : BOOLEAN]
    /\ pc \in [Callers -> {"idle", "check", "stat_so", "stat_source", "compile", "compiling",
                           "linking", "lookup", "load", "store"}]
    /\ so_time \in [Callers -> Time] /\ compiling \in [Callers -> Version \cup {None}]
    /\ since \in [Callers -> Version] /\ klass \in [Callers -> Version \cup {None}]
    /\ modmap \in [Processes -> Version \cup {None}]
    /\ libmap \in [Processes -> Version \cup {None}]

(* The source alone, or a library that is shipped without it.               *)
LoaderInit ==
    /\ now = 0
    /\ \E e \in BOOLEAN :
          /\ source = [exists |-> e, version |-> 1, mtime |-> 0]
          /\ library = [state |-> IF e THEN "none" ELSE "whole", version |-> 1, mtime |-> 0,
                        by |-> Nobody, late |-> FALSE]
    /\ pc = [t \in Callers |-> "idle"]
    /\ so_time = [t \in Callers |-> 0] /\ compiling = [t \in Callers |-> None]
    /\ since = [t \in Callers |-> 1] /\ klass = [t \in Callers |-> None]
    /\ modmap = [p \in Processes |-> None] /\ libmap = [p \in Processes |-> None]

Goes(t, where) == pc' = [pc EXCEPT ![t] = where]

-----------------------------------------------------------------------------
(* The programmer and the clock.                                            *)

Tick == now < MaxTime /\ now' = now + 1 /\ UNCHANGED <<files, pc, locals, maps>>

(* At any time, also while it is compiled.                                  *)
Edit ==
    /\ source.version < MaxVersion
    /\ source' = [exists |-> TRUE, version |-> source.version + 1, mtime |-> now]
    /\ UNCHANGED <<now, library, pc, locals, maps>>

-----------------------------------------------------------------------------
(* compile_file.                                                            *)

ExecuteFile(t) ==
    /\ pc[t] = "idle"
    /\ since' = [since EXCEPT ![t] = source.version]
    /\ klass' = [klass EXCEPT ![t] = None]
    /\ Goes(t, "check")
    /\ UNCHANGED <<now, files, so_time, compiling, maps>>

Check(t) ==
    /\ pc[t] = "check"
    /\ Goes(t, IF ~source.exists /\ library.state # "none" THEN "lookup" ELSE "stat_so")
    /\ UNCHANGED <<now, files, locals, maps>>

(* ase_newer_than looks at the library first ...                            *)
StatSo(t) ==
    /\ pc[t] = "stat_so"
    /\ IF library.state = "none"
       THEN Goes(t, "compile") /\ UNCHANGED so_time
       ELSE Goes(t, "stat_source") /\ so_time' = [so_time EXCEPT ![t] = library.mtime]
    /\ UNCHANGED <<now, files, compiling, since, klass, maps>>

(* Mutant of Newer: a library of the same second counts as newer.           *)
NewerOrSame(t) == source.exists /\ so_time[t] >= source.mtime

Newer(t) == source.exists /\ so_time[t] > source.mtime

(* ... and then at the source.                                              *)
StatSource(t) ==
    /\ pc[t] = "stat_source"
    /\ Goes(t, IF Newer(t) THEN "lookup" ELSE "compile")
    /\ so_time' = [so_time EXCEPT ![t] = 0]
    /\ UNCHANGED <<now, files, compiling, since, klass, maps>>

(* The compiler starts and reads the source.                                *)
Compile(t) ==
    /\ pc[t] = "compile" /\ source.exists
    /\ compiling' = [compiling EXCEPT ![t] = source.version]
    /\ Goes(t, "compiling")
    /\ UNCHANGED <<now, files, so_time, since, klass, maps>>

(* It finds no source, or errors in it: compile_file throws.                *)
CompileFails(t) ==
    /\ \/ pc[t] = "compile" /\ ~source.exists
       \/ pc[t] = "compiling"
    /\ Goes(t, "idle")
    /\ compiling' = [compiling EXCEPT ![t] = None]
    /\ UNCHANGED <<now, files, so_time, since, klass, maps>>

(* The linker replaces m.so by a new file, which it then fills.             *)
LinkBegins(t) ==
    /\ pc[t] = "compiling"
    /\ library' = [state |-> "partial", version |-> compiling[t], mtime |-> now, by |-> t,
                   late |-> FALSE]
    /\ compiling' = [compiling EXCEPT ![t] = None]
    /\ Goes(t, "linking")
    /\ UNCHANGED <<now, source, so_time, since, klass, maps>>

(* The file it fills may have been replaced by another linker's, and the    *)
(* source edited since the compiler read it.                                *)
LinkEnds(t) ==
    /\ pc[t] = "linking"
    /\ library' = IF library.by = t
                  THEN [library EXCEPT !.state = "whole", !.mtime = now, !.by = Nobody,
                                       !.late = library.version # source.version]
                  ELSE library
    /\ Goes(t, "lookup")
    /\ UNCHANGED <<now, source, locals, maps>>

(* The linker is killed.                                                    *)
LinkKilled(t) ==
    /\ pc[t] = "linking"
    /\ library' = IF library.by = t THEN [library EXCEPT !.by = Nobody] ELSE library
    /\ Goes(t, "idle")
    /\ UNCHANGED <<now, source, locals, maps>>

-----------------------------------------------------------------------------
(* load_file and new_library_object.                                        *)

Lookup(t) ==
    /\ pc[t] = "lookup"
    /\ LET found == libmap[ProcessOf[t]]
       IN  /\ Goes(t, IF found = None THEN "load" ELSE "idle")
           /\ klass' = [klass EXCEPT ![t] = found]
    /\ UNCHANGED <<now, files, so_time, compiling, since, maps>>

(* Mutant of Loaded: modmap is not looked at.                               *)
LoadedAnew(p) == None

Loaded(p) == modmap[p]

(* With the mutex: the class in modmap ...                                  *)
FindModule(t) ==
    /\ pc[t] = "load" /\ Loaded(ProcessOf[t]) # None
    /\ klass' = [klass EXCEPT ![t] = Loaded(ProcessOf[t])]
    /\ Goes(t, "store")
    /\ UNCHANGED <<now, files, so_time, compiling, since, maps>>

(* ... or the one of the library, which is opened ...                       *)
LoadModule(t) ==
    /\ pc[t] = "load" /\ Loaded(ProcessOf[t]) = None
    /\ library.state = "whole"
    /\ modmap' = [modmap EXCEPT ![ProcessOf[t]] = library.version]
    /\ klass' = [klass EXCEPT ![t] = library.version]
    /\ Goes(t, "store")
    /\ UNCHANGED <<now, files, so_time, compiling, since, libmap>>

(* ... unless it is not there or not whole.                                 *)
LoadThrows(t) ==
    /\ pc[t] = "load" /\ Loaded(ProcessOf[t]) = None
    /\ library.state # "whole"
    /\ Goes(t, "idle")
    /\ UNCHANGED <<now, files, locals, maps>>

Store(t) ==
    /\ pc[t] = "store"
    /\ libmap' = [libmap EXCEPT ![ProcessOf[t]] = klass[t]]
    /\ Goes(t, "idle")
    /\ UNCHANGED <<now, files, locals, modmap>>

LoaderNext ==
    \/ Tick \/ Edit
    \/ \E t \in Callers :
          \/ ExecuteFile(t) \/ Check(t) \/ StatSo(t) \/ StatSource(t)
          \/ Compile(t) \/ CompileFails(t) \/ LinkBegins(t) \/ LinkEnds(t) \/ LinkKilled(t)
          \/ Lookup(t) \/ FindModule(t) \/ LoadModule(t) \/ LoadThrows(t) \/ Store(t)

LoaderSpec == LoaderInit /\ [][LoaderNext]_loaderVars

-----------------------------------------------------------------------------
(* A library that is loaded was compiled from a source not older than the   *)
(* one the caller could see, whichever process compiled it, however many    *)
(* compiled at once and were killed, and however the time stamps tick. The  *)
(* one way past ase_newer_than is an edit between the compiler's reading    *)
(* the source and its linker's end: the library of the old text is then the *)
(* newer file, or replaces one of the new text, and is taken for current.   *)
LoadedIsCurrent ==
    [][\A t \in Callers :
          pc[t] = "load" /\ pc'[t] = "store" /\ modmap # modmap' =>
              modmap'[ProcessOf[t]] >= since[t] \/ library.late]_loaderVars

(* All threads of a process get the same class, the one of the only library *)
(* that it loads, although libmap is looked up without the mutex.           *)
OneClass ==
    /\ \A p \in Processes : libmap[p] \in {None, modmap[p]}
    /\ \A t \in Callers : klass[t] \in {None, modmap[ProcessOf[t]]}
=============================================================================
