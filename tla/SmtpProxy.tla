------------------------------ MODULE SmtpProxy ------------------------------
(***************************************************************************)
(* The SMTP proxy of gtcpp: smtp_server_worker::run (smtp_server.cpp)      *)
(* takes a client's commands one by one, smtp_proxy_worker                 *)
(* (smtp_proxy.cpp) repeats each to a backend through an smtp_client       *)
(* (smtp_client.cpp) and hands the answer back.  The mail itself is taken  *)
(* apart and put together again (smtp_common.cpp).  The client uses        *)
(* smtp_client to send it, and reads one answer for each command; what it  *)
(* says otherwise, and the backend, are any that follow the standard, and  *)
(* may fail or vanish at any moment.                                       *)
(*                                                                         *)
(* A code is 250, 354 or one of a refusal; 0 is the end of the stream or   *)
(* an answer that is none, and -1 an error or a timeout.                   *)
(***************************************************************************)
EXTENDS Integers, Sequences, FiniteSets, SequencesExt

CONSTANTS
    Recipients,
    Bodies,         \* the mails: sequences of characters
    MaxSessions,    \* bound: connections of clients
    MaxMails        \* bound: mails sent

ASSUME BoundsAssumption == MaxSessions \in Nat /\ MaxMails \in Nat
ASSUME BodiesAssumption == Bodies \subseteq Seq({".", "x", "CR", "LF"})

VARIABLES
    session,    \* where run is: "idle", "command" or "body"
    sessions,   \* connections so far
    backend,    \* the connection to the backend, and its transaction
    client,     \* what the client writes next: a "command" or the "data"
    view,       \* the transaction as the client knows it
    replies,    \* the answers of the proxy that the client has yet to read
    typed,      \* the commands the proxy has read as lines of a mail
    mails,      \* the mails the client sent, each with its connection
    accepted,   \* what the backend took: the number of the mail, its content
    acked       \* the mails for which the client got a 250

vars == <<session, sessions, backend, client, view, replies, typed, mails, accepted, acked>>

NoMail == [mail |-> FALSE, rcpt |-> {}]
Backend(at) == [at |-> at, txn |-> NoMail]

-----------------------------------------------------------------------------
(* The form of a mail (smtp_common.cpp).                                    *)

CrLf == <<"CR", "LF">>
Dot == <<".">>

IsComplete(l) == Last(l) = "LF"
EndsWithCr(l) == l # <<>> /\ Last(l) = "CR"

(* The lines of b, each with its LF; the last may be incomplete.            *)
Lines(b) ==
    LET EndOf(i) == CHOOSE e \in i .. Len(b) :
                        /\ b[e] = "LF" \/ e = Len(b)
                        /\ \A k \in i .. e - 1 : b[k] # "LF"
        lines[i \in 1 .. Len(b) + 1] ==
            IF i > Len(b) THEN <<>> ELSE <<SubSeq(b, i, EndOf(i))>> \o lines[EndOf(i) + 1]
    IN  lines[1]

(* The line with CR LF at its end.                                          *)
Completed(l) ==
    LET text == IF IsComplete(l) THEN Front(l) ELSE l
    IN  IF EndsWithCr(text) THEN Append(text, "LF") ELSE text \o CrLf

(* The period put before a line: an incomplete line gets none.              *)
Stuffing(l) == IF IsComplete(l) /\ l[1] = "." THEN Dot ELSE <<>>

OrEmptyLine(ls) == IF ls = <<>> THEN <<CrLf>> ELSE ls

(* smtp_escape_body, as lines                                               *)
Escape(b) ==
    LET ls == Lines(b)
    IN  OrEmptyLine([i \in DOMAIN ls |-> Stuffing(ls[i]) \o Completed(ls[i])])
            \o <<Dot \o CrLf>>

Terminates(l) == l \in {Dot \o CrLf, Dot \o <<"LF">>}

(* smtp_read_body, or a backend that follows the standard: the lines up to  *)
(* the first that terminates.                                               *)
BodyEnd(ls) ==
    CHOOSE n \in DOMAIN ls : Terminates(ls[n]) /\ \A k \in 1 .. n - 1 : ~Terminates(ls[k])

ReadBody(ls) == SubSeq(ls, 1, BodyEnd(ls))

(* The lines written after it: run reads them as commands.                  *)
Leftover(ls) == SubSeq(ls, BodyEnd(ls) + 1, Len(ls))

(* smtp_unescape_body                                                       *)
Unescape(ls) ==
    FlattenSeq([i \in DOMAIN ls |->
        IF Terminates(ls[i]) THEN <<>>
        ELSE IF ls[i][1] = "." THEN Tail(ls[i]) ELSE ls[i]])

(* The content of mail b: its lines, with CR LF.                            *)
Content(b) ==
    LET ls == Lines(b) IN FlattenSeq(OrEmptyLine([i \in DOMAIN ls |-> Completed(ls[i])]))

-----------------------------------------------------------------------------
(* The backend: its answers to a command, and what it is then.              *)

When(condition, answers) == IF condition THEN answers ELSE {}

Accepts(c) ==
    When(c.cmd \in {"EHLO", "HELO", "RSET"}, {<<250, NoMail>>})
    \cup When(c.cmd = "MAIL" /\ ~backend.txn.mail, {<<250, [mail |-> TRUE, rcpt |-> {}]>>})
    \cup When(c.cmd = "RCPT" /\ backend.txn.mail,
              {<<250, [backend.txn EXCEPT !.rcpt = @ \cup {c.rcpt}]>>})
    \cup When(c.cmd = "DATA" /\ backend.txn.rcpt # {}, {<<354, backend.txn>>})

Vanished == {<<0, Backend("gone")>>, <<-1, Backend("gone")>>}

(* smtp_client::detail::command                                             *)
Command(c) ==
    Vanished
    \cup When(backend.at \in {"ready", "refused"}, {<<550, backend>>})
    \cup When(backend.at = "ready",
              {<<a[1], [at |-> IF a[1] = 354 THEN "data" ELSE "ready", txn |-> a[2]]>> :
               a \in Accepts(c)})

-----------------------------------------------------------------------------
(* The callbacks of the proxy: a code, and the backend then.                *)

(* The greeting of the backend is 220, a refusal, nothing or an error.      *)
Greetings == {220, 554, 0, -1}
MinWithZero(n) == IF n < 0 THEN n ELSE 0
OnOpen(g) == IF g = 220 THEN g ELSE MinWithZero(g)

OnEhlo(c) ==
    {r \in Command(c) : r[1] # 550}
    \cup When(\E r \in Command(c) : r[1] = 550, Command([c EXCEPT !.cmd = "HELO"]))

OnRset(c) == Command(c)

(* on_quit: 221 whatever the backend says, but for an error.                *)
OnQuit == {<<-1, Backend("gone")>>, <<221, Backend("gone")>>}

(* on_mail, on_rcpt and on_data are the command; smtp_client::data never    *)
(* returns 2xx.                                                             *)
On(c) ==
    When(c.cmd \in {"EHLO", "HELO"}, OnEhlo(c))
    \cup When(c.cmd = "RSET", OnRset(c))
    \cup When(c.cmd = "QUIT", OnQuit)
    \cup When(c.cmd = "NONE", {<<500, backend>>})
    \cup When(c.cmd \in {"MAIL", "RCPT", "DATA"}, Command(c))

(* Mutant of Answered: the filter's code is returned.                       *)
AnsweredByFilter(code) == 250

(* on_body returns the backend's code; the filter's is 250.                 *)
Answered(code) == code

-----------------------------------------------------------------------------
Init ==
    /\ session = "idle" /\ sessions = 0
    /\ backend = Backend("gone")
    /\ client = "command" /\ view = NoMail /\ replies = <<>> /\ typed = 0
    /\ mails = <<>> /\ accepted = <<>> /\ acked = {}

(* The client begins, or ends, with nothing read or written.                *)
NewClient == client' = "command" /\ view' = NoMail /\ replies' = <<>> /\ typed' = 0

(* ~close_hook: on_close_connection resets the connection to the backend.   *)
Closed == session' = "idle" /\ backend' = Backend("gone") /\ NewClient

(* run calls on_open_connection.  It may fail before a greeting; the        *)
(* client's greeting may fail to be sent.                                   *)
Open ==
    /\ session = "idle" /\ sessions < MaxSessions
    /\ sessions' = sessions + 1
    /\ \E g \in Greetings :
         /\ \/ Closed
            \/ /\ OnOpen(g) >= 0
               /\ session' = "command" /\ NewClient
               /\ backend' = Backend(IF g = 220 THEN "ready"
                                      ELSE IF g = 554 THEN "refused" ELSE "gone")
    /\ UNCHANGED <<mails, accepted, acked>>

(* What the client knows of its transaction after code.                     *)
ViewAfter(c, code) ==
    IF code # 250 \/ c.cmd \in {"DATA", "QUIT", "NONE"} THEN view
    ELSE IF c.cmd = "MAIL" THEN [mail |-> TRUE, rcpt |-> {}]
    ELSE IF c.cmd = "RCPT" THEN [view EXCEPT !.rcpt = @ \cup {c.rcpt}]
    ELSE NoMail

(* Mutant of TakesBody: the mail is read whatever on_data says.             *)
TakesBodyAlways(c, code) == c.cmd = "DATA"

(* is_code_3xx(code) after on_data                                          *)
TakesBody(c, code) == c.cmd = "DATA" /\ code = 354

Commands ==
    [cmd : {"EHLO", "HELO", "MAIL", "DATA", "RSET", "QUIT", "NONE"}, rcpt : {{}}]
    \cup [cmd : {"RCPT"}, rcpt : Recipients]

(* smtp_client::mail_transaction: is_3xx(data)                              *)
SendsMail(c, code) == c.cmd = "DATA" /\ code = 354

(* The client reads one answer, the oldest, for its command c.              *)
Hears(c, answers) ==
    /\ view' = ViewAfter(c, Head(answers))
    /\ client' = IF SendsMail(c, Head(answers)) THEN "data" ELSE "command"
    /\ replies' = Tail(answers)

(* A turn of the loop: a code that is no answer, a response that is not     *)
(* sent and QUIT end the session.                                           *)
Request(c) ==
    /\ session = "command" /\ client = "command"
    /\ \E r \in On(c) :
         \/ Closed
         \/ /\ r[1] > 0 /\ c.cmd # "QUIT"
            /\ session' = IF TakesBody(c, r[1]) THEN "body" ELSE "command"
            /\ backend' = r[2]
            /\ Hears(c, Append(replies, r[1]))
            /\ UNCHANGED typed
    /\ UNCHANGED <<sessions, mails, accepted, acked>>

(* A command of a client that reads old answers, while the proxy reads a    *)
(* mail, is a line of that mail and is not answered: the client takes an    *)
(* old answer for its own, and waits until it goes when there is none.      *)
Misread(c) ==
    /\ session = "body" /\ client = "command" /\ replies # <<>>
    /\ typed' = typed + 1
    /\ Hears(c, replies)
    /\ UNCHANGED <<session, sessions, backend, mails, accepted, acked>>

(* What the client has written when it has sent mail b after n commands     *)
(* that became lines of the mail.                                           *)
CommandLine == <<"x">> \o CrLf
Written(n, b) == [i \in 1 .. n |-> CommandLine] \o Escape(b)

(* What the backend is sent for the mail that the client wrote as ls.       *)
Forwarded(ls) == Escape(Unescape(ReadBody(ls)))

(* on_body: the backend takes the mail or not, and its answer arrives or    *)
(* not.  Each line that is left over is a command of less than six          *)
(* characters, and answered by 500.                                         *)
OnBody(b, taken, code) ==
    LET ls == Written(typed, b)
        answers == Append(replies, Answered(code)) \o [i \in DOMAIN Leftover(ls) |-> 500]
    IN  /\ code > 0 => backend.at = "data" /\ taken = (code = 250)
        /\ accepted' = IF taken
                       THEN Append(accepted,
                              <<Len(mails'), Unescape(ReadBody(Forwarded(ls))), backend.txn.rcpt>>)
                       ELSE accepted
        /\ \/ Closed /\ UNCHANGED acked
           \/ /\ Answered(code) > 0
              /\ session' = "command" /\ backend' = Backend("ready")
              /\ client' = "command" /\ view' = NoMail
              /\ replies' = Tail(answers) /\ typed' = 0
              /\ acked' = IF Head(answers) = 250
                          THEN acked \cup {<<Len(mails'), view.rcpt>>} ELSE acked

(* The mail is read and on_body called.                                     *)
Mail(b) ==
    /\ session = "body" /\ client = "data" /\ Len(mails) < MaxMails
    /\ mails' = Append(mails, [body |-> b, session |-> sessions])
    /\ \E taken \in {FALSE, backend.at = "data"}, code \in {250, 550, 0, -1} :
           OnBody(b, taken, code)
    /\ UNCHANGED sessions

(* The client goes: run ends at the next read or write.                     *)
ClientGone ==
    /\ session # "idle"
    /\ Closed
    /\ UNCHANGED <<sessions, mails, accepted, acked>>

(* The backend goes, which the proxy finds out by its next command.         *)
BackendGone ==
    /\ session # "idle" /\ backend.at # "gone"
    /\ backend' = Backend("gone")
    /\ UNCHANGED <<session, sessions, client, view, replies, typed, mails, accepted, acked>>

Next ==
    \/ Open \/ ClientGone \/ BackendGone
    \/ \E c \in Commands : Request(c) \/ Misread(c)
    \/ \E b \in Bodies : Mail(b)

Spec == Init /\ [][Next]_vars

-----------------------------------------------------------------------------
(* A mail that ends in the middle of a line with a period only: that line   *)
(* is not escaped (smtp_common.cpp:32-43) and ends the mail, and the end    *)
(* that smtp_escape_body adds is left over.                                 *)
EndsInLonePeriod(b) == b # <<>> /\ Last(Lines(b)) \in {Dot, <<".", "CR">>}

(* A mail before the n-th of connection s was such a mail.                  *)
CutShortBefore(n, s) ==
    \E k \in DOMAIN mails :
        k < n /\ mails[k].session = s /\ EndsInLonePeriod(mails[k].body)

(* The proxy and its backend are in step while the backend answers: the     *)
(* backend waits for a mail exactly while the proxy does (else a mail is    *)
(* taken for commands, or a command for a line of mail).  The client never  *)
(* writes a mail while the proxy reads commands.  It is in step with both,  *)
(* and the transaction it knows of is the backend's, unless it has sent a   *)
(* mail on this connection that ends in a lone period.  (The line left over *)
(* is answered by 500, which the client takes for the answer to its next    *)
(* command, and so on: it is one answer behind from then on, and one more   *)
(* with each such mail.)                                                    *)
InStep ==
    session # "idle" =>
        /\ backend.at # "gone" => (session = "body") = (backend.at = "data")
        /\ client = "data" => session = "body"
        /\ \/ CutShortBefore(Len(mails) + 1, sessions)
           \/ /\ replies = <<>> /\ (session = "body") = (client = "data")
              /\ backend.at # "gone" => view = backend.txn

(* Mail n was sent by a client that was in step.                            *)
SentInStep(n) == ~CutShortBefore(n, mails[n].session)

(* What the backend takes has the content that was sent, but for a mail     *)
(* that ends in the middle of a line that begins with a period: that line   *)
(* is not escaped (smtp_common.cpp:32-43), and loses its period or ends the *)
(* mail.                                                                    *)
EndsInPeriodLine(b) ==
    b # <<>> /\ LET l == Last(Lines(b)) IN ~IsComplete(l) /\ l[1] = "."

ContentKept ==
    \A i \in DOMAIN accepted :
        LET n == accepted[i][1]
            b == mails[n].body
        IN  SentInStep(n) => EndsInPeriodLine(b) \/ accepted[i][2] = Content(b)

(* A mail acknowledged to a client that is in step was taken by the         *)
(* backend, for the recipients the client gave, and what it took has the    *)
(* content sent; the backend takes each mail at most once, whichever side   *)
(* fails on the way and whoever is out of step.                             *)
AcceptedAsSent ==
    /\ \A a \in acked : SentInStep(a[1]) =>
         \E i \in DOMAIN accepted : accepted[i][1] = a[1] /\ accepted[i][3] = a[2]
    /\ \A i, j \in DOMAIN accepted : accepted[i][1] = accepted[j][1] => i = j
    /\ ContentKept
=============================================================================
