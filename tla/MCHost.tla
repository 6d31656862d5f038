------------------------------- MODULE MCHost -------------------------------
(***************************************************************************)
(* What the server shares with others on its host, one at a time: the tree *)
(* of files its children serve, the log they write, and the pid file,      *)
(* semaphores, memory and port that servers fight for.                     *)
(***************************************************************************)
EXTENDS Files, Startup, QLog

VARIABLE kind  \* which of the three

vars == <<kind, filesVars, startVars, logVars>>

\* A file, and a directory with a file of the same size and age.
PlainFile(data) == [NoIno EXCEPT !.kind = "file", !.data = data]
Dir(a, b) == [NoIno EXCEPT !.kind = "dir", !.names = <<a, b>>]

Tree1 == [i \in 1 .. MaxIno |-> CASE i = 1 -> Dir(2, 3) [] i = 2 -> PlainFile(<<1, 2>>)
                           [] i = 3 -> Dir(4, 0) [] i = 4 -> PlainFile(<<3, 4>>) [] OTHER -> NoIno]

Plain(op, path) == [op |-> op, path |-> path, cond |-> "", range |-> <<>>, size |-> 0,
                    body |-> 0, to |-> <<>>, as |-> ""]

Asked ==
  {[Plain("get", <<1>>) EXCEPT !.cond = cond] : cond \in {"", "since", "match"}}
    \cup {[Plain("get", <<1>>) EXCEPT !.range = r] :
            r \in {<<0, 0>>, <<1, -1>>, <<-1, 0>>, <<1, 3>>, <<1, 0>>}}
    \cup {Plain("get", <<2>>), Plain("get", <<2, 2>>)}
    \cup {[Plain("put", <<1>>) EXCEPT !.size = n, !.body = b] : n \in {0, 2}, b \in {5, 6}}
    \cup {[Plain("put", <<2, 2>>) EXCEPT !.size = 1, !.body = 5]}
    \cup {Plain("mkcol", p) : p \in {<<2, 2>>, <<1>>}}
    \cup {[Plain("move", <<2, 1>>) EXCEPT !.to = <<1>>], [Plain("move", <<1>>) EXCEPT !.to = <<2, 2>>]}
    \cup {Plain("delete", p) : p \in {<<1>>, <<2>>, <<2, 1>>}}
    \cup {[Plain("propfind", <<2>>) EXCEPT !.size = n] : n \in {0, 1, 2}}
    \cup {[Plain("stat", <<1>>) EXCEPT !.as = a] : a \in {"head", "proppatch", "lock", "unlock"}}

ASSUME HostAssumption == FilesAssumption /\ StartupAssumption /\ LogAssumption

\* The other ones stay as they are at first.
Init ==
  /\ kind \in {"files", "startup", "log"}
  /\ FilesInit /\ StartInit
  /\ LogInit /\ (kind # "log" => mode = [logflush |-> TRUE, out |-> "off"])

Next ==
  \/ kind = "files" /\ FilesNext /\ UNCHANGED <<kind, startVars, logVars>>
  \/ kind = "startup" /\ StartNext /\ UNCHANGED <<kind, filesVars, logVars>>
  \/ kind = "log" /\ LogNext /\ UNCHANGED <<kind, filesVars, startVars>>

Spec == Init /\ [][Next]_vars
=============================================================================
