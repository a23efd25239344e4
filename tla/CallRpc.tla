------------------------------ MODULE CallRpc ------------------------------
(***************************************************************************)
(* callRpc: one remote call on a list of nodes.  The nodes are asked in    *)
(* the order of the list, the next one when the last one failed with an    *)
(* error of the list below; any other error ends the call.  Providers are  *)
(* cached by URL, which no caller can see.                                 *)
(***************************************************************************)
EXTENDS Integers

CONSTANTS
    Urls,           \* rpcUrls.length
    NodeErrors,     \* bound: the errors that occur
    MaxNodeChanges  \* bound: times a node's condition changes

(* What the message of an error is recognized by.                          *)
Messages == {"429", "has been pruned", "disconnect", "failed to detect network", "internal"}

ASSUME RpcAssumption ==
    /\ Urls \in Nat /\ MaxNodeChanges \in Nat
    /\ {"none", "All RPC calls failed", "ok"} \cap NodeErrors = {}

VARIABLES
    node,         \* 1..Urls -> "ok", or the error it answers with
    nodeChanges,  \* changes of node so far
    call          \* at, the URL that is asked, and the error it is left with

rpcVars == <<node, nodeChanges, call>>

CallErrors == NodeErrors \cup {"none", "All RPC calls failed"}
Call == [at : {"idle", "asking", "returned", "thrown"}, url : 1..(Urls + 1), error : CallErrors]

RpcInit ==
    /\ node \in [1..Urls -> NodeErrors \cup {"ok"}]
    /\ nodeChanges = 0
    /\ call = [at |-> "idle", url |-> 1, error |-> "none"]

CallBegins ==
    /\ call.at # "asking"
    /\ call' = [at |-> "asking", url |-> 1, error |-> "none"]

Asked(u) == call.at = "asking" /\ call.url = u /\ u <= Urls

Answers ==
    /\ \E u \in 1..Urls : Asked(u) /\ node[u] = "ok"
    /\ call' = [call EXCEPT !.at = "returned"]

(* catch: lastError is kept and the loop goes on.                          *)
Refuses_Throws ==
    \E u \in 1..Urls :
        /\ Asked(u) /\ node[u] \in Messages
        /\ call' = [call EXCEPT !.at = "thrown", !.error = node[u]]
Refuses_SkipsOne ==
    \E u \in 1..Urls :
        /\ Asked(u) /\ node[u] \in Messages
        /\ call' = [call EXCEPT !.url = u + 2, !.error = node[u]]
Refuses ==
    \E u \in 1..Urls :
        /\ Asked(u) /\ node[u] \in Messages
        /\ call' = [call EXCEPT !.url = u + 1, !.error = node[u]]

(* catch: any other error is thrown at once.                               *)
Fails ==
    \E u \in 1..Urls :
        /\ Asked(u) /\ node[u] \notin Messages \cup {"ok"}
        /\ call' = [call EXCEPT !.at = "thrown", !.error = node[u]]

(* No URL is left: lastError is thrown if there is one.                    *)
Exhausted ==
    /\ call.at = "asking" /\ call.url > Urls
    /\ call' = [call EXCEPT !.at = "thrown",
                            !.error = IF @ = "none" THEN "All RPC calls failed" ELSE @]

CallStep == (Answers \/ Refuses \/ Fails \/ Exhausted) /\ UNCHANGED <<node, nodeChanges>>

NodeChanges ==
    /\ nodeChanges < MaxNodeChanges
    /\ nodeChanges' = nodeChanges + 1
    /\ \E u \in 1..Urls, s \in NodeErrors \cup {"ok"} : s # node[u] /\ node' = [node EXCEPT ![u] = s]
    /\ UNCHANGED call

RpcTypeOK ==
    /\ node \in [1..Urls -> NodeErrors \cup {"ok"}]
    /\ nodeChanges \in 0..MaxNodeChanges
    /\ call \in Call

=============================================================================
