------------------------------- MODULE MCWire -------------------------------
(***************************************************************************)
(* What goes over a connection, at two levels, one at a time: the calls    *)
(* that read and write it, and the loop of a child over it.                *)
(***************************************************************************)
EXTENDS HttpSession, QIo

VARIABLE kind  \* which of the two

wireVars == <<kind, vars, ioVars>>

R(m, l, c, e) == [meth |-> m, len |-> l, chunks |-> c, close |-> FALSE, expect |-> e]

\* Without contents; with contents that are loaded, that are too large, and of
\* each way to PUT; and one that asks to close.
SentRequest ==
  {R("GET", -1, -1, FALSE), R("GET", 1, -1, FALSE),
   R("DAV", 1, -1, FALSE), R("DAV", 2, -1, FALSE), R("POST", 1, -1, FALSE),
   R("PUT", -1, -1, FALSE), R("PUT", 0, -1, FALSE), R("PUT", 2, -1, FALSE),
   R("PUT", 1, -1, TRUE), R("PUT", -1, 2, FALSE),
   [R("GET", -1, -1, FALSE) EXCEPT !.close = TRUE]}

ASSUME WireAssumption == SessionAssumption /\ QIoAssumption

\* The other one stays as it is at first.
WireInit == kind \in {"session", "io"} /\ Init /\ IoInit

WireNext ==
  \/ kind = "session" /\ Next /\ UNCHANGED <<kind, ioVars>>
  \/ kind = "io" /\ IoNext /\ UNCHANGED <<kind, vars>>

\* The fairness of each module.
WireSpec ==
  /\ WireInit /\ [][WireNext]_wireVars
  /\ WF_wireVars(kind = "session" /\ ~MayBlock /\ Child /\ UNCHANGED <<kind, ioVars>>)
  /\ WF_wireVars(kind = "session" /\ Send /\ UNCHANGED <<kind, ioVars>>)
  /\ WF_wireVars(kind = "io" /\ ~WriteBlocks /\ Runs /\ UNCHANGED <<kind, vars>>)

-----------------------------------------------------------------------------
(* The properties of both *)

\* The connection goes on or is closed as the head of the answer says, and when
\* it is closed nothing of the peer is left unread (HttpSession!DoesAsToldStep,
\* QIo!DrainsAllStep).
ClosesAsTold == [][DoesAsToldStep /\ DrainsAllStep]_wireVars

\* A connection ends, and who sends all of a request gets an answer, unless the child
\* is for ever in a write (HttpSession!Ends, HttpSession!Answered).
Served == kind = "session" => Ends /\ Answered
=============================================================================
