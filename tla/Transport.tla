----------------------------- MODULE Transport -----------------------------
(***************************************************************************)
(* What an engine promises its clients, without bytes, passes or buffers.  *)
(*                                                                         *)
(* A client asks to send a content, which arrives in an array of its own   *)
(* if it is one that can be sent and is refused if it is not.  Whoever     *)
(* opens an array for the first time gets what was sent in it; an array    *)
(* opened again promises nothing, but that the call comes back.            *)
(***************************************************************************)
EXTENDS Naturals

CONSTANTS
    Clients,    \* who calls
    Arrays,     \* what messages arrive in
    Contents,   \* what clients ask to send
    Sendable,   \* the contents that can be sent, some of Contents
    NoContent   \* no content, and so none of Sendable

VARIABLES
    request,    \* what a client is waiting for
    message,    \* the content an array was sent with, NoContent for none yet
    opened,     \* the arrays a client has opened
    answer      \* what the last call of a client found in an array

vars == <<request, message, opened, answer>>

NoRequest == [op |-> "none"]
Sending(content) == [op |-> "send", content |-> content]
Receiving(a, first) == [op |-> "receive", array |-> a, first |-> first]

Init ==
    /\ request = [c \in Clients |-> NoRequest]
    /\ message = [a \in Arrays |-> NoContent]
    /\ opened = {}
    /\ answer = [c \in Clients |-> NoContent]

Begins(c, what) ==
    /\ request[c] = NoRequest
    /\ request' = [request EXCEPT ![c] = what]
    /\ answer' = [answer EXCEPT ![c] = NoContent]

Ends(c) == request' = [request EXCEPT ![c] = NoRequest]

Ask(c, content) ==
    /\ Begins(c, Sending(content))
    /\ UNCHANGED <<message, opened>>

Deliver(c, a) ==
    /\ request[c].op = "send" /\ request[c].content \in Sendable
    /\ message[a] = NoContent
    /\ message' = [message EXCEPT ![a] = request[c].content]
    /\ Ends(c)
    /\ UNCHANGED <<opened, answer>>

Refuse(c) ==
    /\ request[c].op = "send" /\ request[c].content \notin Sendable
    /\ Ends(c)
    /\ UNCHANGED <<message, opened, answer>>

Open(c, a) ==
    /\ message[a] # NoContent
    /\ Begins(c, Receiving(a, a \notin opened))
    /\ opened' = opened \cup {a}
    /\ UNCHANGED message

Read(c) ==
    /\ request[c].op = "receive" /\ request[c].first
    /\ answer' = [answer EXCEPT ![c] = message[request[c].array]]
    /\ Ends(c)
    /\ UNCHANGED <<message, opened>>

\* A later read finds something else, or fails.
ReadAgain(c) ==
    /\ request[c].op = "receive" /\ ~request[c].first
    /\ Ends(c)
    /\ UNCHANGED <<message, opened, answer>>

Finish(c) ==
    \/ \E a \in Arrays : Deliver(c, a)
    \/ Refuse(c) \/ Read(c) \/ ReadAgain(c)

Next ==
    \E c \in Clients :
        \/ \E content \in Contents : Ask(c, content)
        \/ \E a \in Arrays : Open(c, a)
        \/ Finish(c)

\* Every call comes back as long as there is room for messages.
Spec == Init /\ [][Next]_vars /\ \A c \in Clients : WF_vars(Finish(c))

============================================================================
