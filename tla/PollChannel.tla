---------------------------- MODULE PollChannel ----------------------------
(***************************************************************************)
(* What the server promises to the clients that poll it for a command.     *)
(* Requests come on lines, one after another: a line is a client from its  *)
(* first request until the server forgets it.  Only the last request of a  *)
(* line is held, and it is answered at most once: nobody is answered who   *)
(* has asked again or is gone.  The requests that are answered at once get *)
(* the same command.                                                       *)
(***************************************************************************)
CONSTANTS Request, Line, NoLine, Command

VARIABLES
    answer, \* of each request: what became of it
    line,   \* of each request: the line it came on
    held    \* the requests that an answer may still go to

vars == <<answer, line, held>>

Init ==
    /\ answer = [r \in Request |-> "unused"]
    /\ line = [r \in Request |-> NoLine]
    /\ held = {}

\* A client asks for the first time, on a line that no request has used.
Ask(r, l) ==
    /\ answer[r] = "unused"
    /\ \A x \in Request : answer[x] # "unused" => line[x] # l
    /\ answer' = [answer EXCEPT ![r] = "open"]
    /\ line' = [line EXCEPT ![r] = l]
    /\ held' = held \cup {r}

\* A client asks again: its request of before is given up.
AskAgain(r, old) ==
    /\ answer[r] = "unused"
    /\ old \in held
    /\ answer' = [answer EXCEPT ![r] = "open"]
    /\ line' = [line EXCEPT ![r] = line[old]]
    /\ held' = (held \ {old}) \cup {r}

\* A client is gone; the server does not notice.
Leave(r) ==
    /\ answer[r] = "open"
    /\ answer' = [answer EXCEPT ![r] = "lost"]
    /\ UNCHANGED <<line, held>>

\* Some of the clients that wait get a command.
Tell(rs, cmd) ==
    /\ rs \subseteq {r \in held : answer[r] = "open"}
    /\ answer' = [r \in Request |-> IF r \in rs THEN cmd ELSE answer[r]]
    /\ UNCHANGED <<line, held>>

Next ==
    \/ \E r \in Request : Leave(r)
    \/ \E r \in Request, l \in Line : Ask(r, l)
    \/ \E r, old \in Request : AskAgain(r, old)
    \/ \E rs \in SUBSET Request, cmd \in Command : Tell(rs, cmd)

Spec == Init /\ [][Next]_vars
=============================================================================
