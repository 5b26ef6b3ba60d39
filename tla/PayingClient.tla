---------------------------- MODULE PayingClient ----------------------------
(***************************************************************************)
(* The clients of the x402 exchange (pay_and_fetch of nano_mcp/httpx402.py *)
(* or an agent at the tools of nano_mcp/paidtool.py) over the servers of   *)
(* PaidResource: a call asks, is offered an address of its own, pays,      *)
(* presents its proof, and hears an answer or nothing.  A block is         *)
(* confirmed when the network gets to it, before or after it is presented. *)
(*                                                                         *)
(* pay_and_fetch presents a proof once and returns what it hears.  What    *)
(* its caller does then is open: to present the same proof again, or to    *)
(* start a call that pays again.  A steady client presents it again until  *)
(* it is served, and nothing fails on its way; /settle is not open.        *)
(***************************************************************************)
EXTENDS PaidResource

CONSTANTS
    Clients,
    SteadyClients,
    Owner                \* the client whose account each block belongs to

ASSUME ClientsAssumption == SteadyClients \subseteq Clients
ASSUME OwnerAssumption == Owner \in [Blocks -> Clients]

VARIABLES
    client,              \* the call each client is in, or what became of it
    got                  \* the payments whose result their payer received

clientVars == <<client, got>>

Resting == {"idle", "served", "refused", "spent", "error"}

NoClientCall == [stage |-> "idle", offer |-> None, proof |-> None, handler |-> None]

ClientCalls == [stage : Resting \cup {"offered", "paid", "waiting"},
                offer : Requests \cup {None}, proof : Blocks \cup {None},
                handler : Threads \cup {None}]

ClientInit == /\ Init
              /\ client = [c \in Clients |-> NoClientCall]
              /\ got = {}

\* A steady client's calls are handled by threads that do not fail.
Handles(t, c) == c \in SteadyClients => t \in Steady

\* new_request_id: nobody was offered the address, and nobody has paid there.
Fresh(r) == /\ \A c \in Clients : client[c].offer # r
            /\ \A b \in Blocks : chain[b] # None => chain[b].to # r

\* The first GET, or paid_tool_request, is answered with an offer (begin).
\* Which of the fresh ids is drawn makes no difference.  (Bound: a client asks
\* while a block of its own is left to pay with.)
Ask(c) == /\ client[c].stage \in IF c \in SteadyClients THEN {"idle", "served"}
                                                        ELSE Resting
          /\ \E b \in Blocks : Owner[b] = c /\ chain[b] = None
          /\ \E r \in Requests : Fresh(r)
          /\ client' = [client EXCEPT ![c] =
                [NoClientCall EXCEPT !.stage = "offered",
                                     !.offer = CHOOSE r \in Requests : Fresh(r)]]
          /\ UNCHANGED <<vars, got>>

Send(c, b) == /\ client[c].stage = "offered"
              /\ Owner[b] = c
              /\ Publish(b, [to |-> client[c].offer, exact |-> TRUE])
              /\ UNCHANGED got

\* payer.pay returns the hash of its block.
Pay(c, b) == /\ Send(c, b)
             /\ client' = [client EXCEPT ![c].stage = "paid", ![c].proof = b]

\* The block is published, and payer.pay raises before it can say its hash.
PayRaises(c, b) == /\ c \notin SteadyClients
                   /\ Send(c, b)
                   /\ client' = [client EXCEPT ![c].stage = "error"]

\* The GET with the proof, or paid_tool_execute, arrives at a handler.
Present(c, t) == /\ client[c].stage \in {"paid", "refused", "spent", "error"}
                 /\ client[c].proof # None
                 /\ Handles(t, c)
                 /\ Complete(t, client[c].proof, client[c].offer)
                 /\ client' = [client EXCEPT ![c].stage = "waiting",
                                             ![c].handler = t]
                 /\ UNCHANGED got

\* The client stops listening: a timeout, or its connection breaks.
HangUp(c) == /\ client[c].stage = "waiting"
             /\ c \notin SteadyClients
             /\ client' = [client EXCEPT ![c].stage = "error",
                                         ![c].handler = None]
             /\ UNCHANGED <<vars, got>>

Listening(c, t) == client[c].stage = "waiting" /\ client[c].handler = t

\* do_GET responds to whoever listens still.
Respond(t, answer) ==
    client' = [c \in Clients |->
                 IF Listening(c, t)
                   THEN [client[c] EXCEPT !.stage = answer, !.handler = None]
                   ELSE client[c]]

\* complete goes on.
Work(t) == /\ AskYes(t) \/ AskNo(t) \/ EndVerify(t) \/ EndSettleCheck(t) \/ Claim(t)
           /\ UNCHANGED clientVars

\* 402, unverified or unsettled.  (With the first comes a fresh offer, which
\* pay_and_fetch does not look at.)
RespondRefused(t) == Refuse(t) /\ Respond(t, "refused") /\ UNCHANGED got

\* Mutant: do_GET returns without a response for a payment that is spent.
RespondSpentSilently(t) == Duplicate(t) /\ UNCHANGED clientVars

\* 402, duplicate.
RespondSpent(t) == Duplicate(t) /\ Respond(t, "spent") /\ UNCHANGED got

\* 200, with the result.
RespondServed(t) ==
    /\ Serve(t)
    /\ Respond(t, "served")
    /\ got' = got \cup {job[t].proof : c \in {d \in Clients : Listening(d, t)}}

\* The handler raises or dies: the connection is dropped without an answer.
RespondNothing(t) == /\ ClaimRaises(t) \/ ServeFails(t) \/ Die(t)
                     /\ Respond(t, "error")
                     /\ UNCHANGED got

ConfirmLate(b) == Confirm(b) /\ UNCHANGED clientVars

Handler(t) == Work(t) \/ RespondRefused(t) \/ RespondSpent(t) \/ RespondServed(t)

ClientNext ==
    \/ \E b \in Blocks : ConfirmLate(b)
    \/ \E c \in Clients :
         \/ Ask(c)
         \/ \E b \in Blocks : Pay(c, b) \/ PayRaises(c, b)
         \/ \E t \in Threads : Present(c, t)
         \/ HangUp(c)
    \/ \E t \in Threads : Handler(t) \/ RespondNothing(t)

\* The network confirms what was published, a handler thread runs on, and a
\* steady client that was refused presents its proof again.  (The server has a
\* thread for every connection, of which the model has few: a client that wants
\* one gets it if one becomes free again and again.)
ClientSpec == /\ ClientInit
              /\ [][ClientNext]_<<vars, clientVars>>
              /\ \A b \in Blocks : WF_<<vars, clientVars>>(ConfirmLate(b))
              /\ \A t \in Steady : WF_<<vars, clientVars>>(Handler(t))
              /\ \A c \in SteadyClients :
                   SF_<<vars, clientVars>>(\E t \in Threads : Present(c, t))

-----------------------------------------------------------------------------

ClientTypeOK == /\ client \in [Clients -> ClientCalls]
                /\ got \in SUBSET Blocks

\* Nobody waits for a handler that is not at work on its payment, and no handler
\* answers two clients (do_GET responds on every path).
HandlerWorks ==
    \A c \in Clients : client[c].stage = "waiting" =>
        LET t == client[c].handler
        IN  /\ t \in Threads
            /\ pc[t] # "idle"
            /\ job[t].proof = client[c].proof
            /\ job[t].request = client[c].offer
            /\ \A d \in Clients \ {c} : ~Listening(d, t)

\* A client that was never cut off is never told that its payment is spent: a
\* 402 that carries no fresh offer (do_GET) ends nobody's exchange unserved.
SpentOnlyIfCutOff == \A c \in SteadyClients : client[c].stage # "spent"

Taken(b) == \E r \in Requests : <<b, r>> \in claimed

\* What is claimed was paid where it was claimed, what is received was served,
\* and whoever has an offer or a proof has the request it belongs to.
ExchangeInv ==
    /\ \A b \in Blocks, r \in Requests :
         <<b, r>> \in claimed => chain[b] = [to |-> r, exact |-> TRUE]
    /\ \A b \in got : served[b] > 0
    /\ \A t \in Threads : pc[t] # "idle" => job[t].via = "resource"
    /\ \A c \in Clients :
         /\ client[c].stage \in {"offered", "paid", "waiting"}
              \/ client[c].proof # None => client[c].offer \in Requests
         /\ client[c].stage \in {"paid", "waiting", "refused"}
              \/ client[c].proof # None => /\ client[c].proof \in Blocks
                                          /\ Owner[client[c].proof] = c

\* A steady client is waiting for whoever handles its payment, which nobody has
\* taken before it is served.
SteadyInv ==
    /\ \A t \in Threads :
         pc[t] # "idle" /\ Owner[job[t].proof] \in SteadyClients =>
           /\ t \in Steady
           /\ Listening(Owner[job[t].proof], t)
           /\ pc[t] # "serve" => ~Taken(job[t].proof)
    /\ \A c \in SteadyClients :
         /\ client[c].stage # "error"
         /\ client[c].stage \in {"paid", "refused"} => ~Taken(client[c].proof)

\* Who waits is worked for, and who stays is never told `spent' (do_GET, and
\* complete under it).
ClientInv == /\ ClientTypeOK /\ HandlerWorks /\ SpentOnlyIfCutOff
             /\ ExchangeInv /\ SteadyInv

\* Some thread is about to return the result of b to a client that listens.
UnderWay(b) == \E t \in Threads, c \in Clients :
                 pc[t] = "serve" /\ job[t].proof = b /\ Listening(c, t)

Fate(b) == CASE chain[b] = None -> "none"
             [] chain[b] # None /\ ~Taken(b) -> "paid"
             [] b \in got -> "delivered"
             [] Taken(b) /\ b \notin got /\ UnderWay(b) -> "taken"
             [] OTHER -> "lost"

Exchange == INSTANCE Purchase
              WITH Payments <- Blocks,
                   Safe <- {b \in Blocks : Owner[b] \in SteadyClients},
                   fate <- [b \in Blocks |-> Fate(b)]

\* The exchange implements Purchase: whatever other clients do or fail to do, a
\* payment is taken once and delivered to the one who paid it, and nothing is
\* taken of a steady client and not delivered (complete, do_GET).
PurchaseSpec == Exchange!Spec

\* A steady client that has paid is served, however late its block is confirmed
\* and however often it is refused before (pay_and_fetch, presented again).
SteadyServed == \A c \in SteadyClients :
                  client[c].stage = "paid" ~> client[c].stage = "served"

=============================================================================
