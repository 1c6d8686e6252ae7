----------------------------- MODULE MCSmtpProxy -----------------------------
(* Instances of SmtpProxy for TLC.                                          *)
EXTENDS SmtpProxy
CONSTANTS r1, r2

TwoRecipients == {r1, r2}

(* Mails of every form: empty, of one line or more, with periods at the     *)
(* begin of a line, and cut off in the middle of a line.                    *)
ManyBodies ==
    {<<>>, <<"x">>, <<"x", "CR">>, <<".", "LF">>, <<"LF", "LF">>,
     <<".", "x", "CR", "LF">>, <<"x", "LF", ".", "CR", "LF">>,
     <<"x", "CR", "LF", ".", ".", "LF", "x">>,
     <<".">>, <<".", "x">>, <<"x", "LF", ".", "CR">>}
=============================================================================
