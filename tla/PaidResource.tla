---------------------------- MODULE PaidResource ----------------------------
(***************************************************************************)
(* The x402 handshake: calls arrive at a resource server (ResourceApp of   *)
(* nano_mcp/httpx402.py, over HTTP or over MCP through PaidToolServer of   *)
(* nano_mcp/paidtool.py) or at the facilitator's own /settle, are verified *)
(* on every configured RPC endpoint, verified again to settle, claimed     *)
(* once, and served.                                                       *)
(*                                                                         *)
(* The claim store is the abstract one, SingleUse, which ClaimStore is     *)
(* shown to implement.  derive_one_time_account gives each request an      *)
(* address of its own, so a payee is a request_id, or Elsewhere for an     *)
(* address the server never derived.  Checks of the shape of a call (JSON, *)
(* scheme, network, asset, 64 hex digits, an amount that is no amount)     *)
(* refuse it without a change of state and are left out.                   *)
(***************************************************************************)
EXTENDS Naturals, FiniteSets

CONSTANTS
    Threads,             \* handler threads, in any number of processes
    Requests,            \* request_ids
    Elsewhere,           \* an address that belongs to no request
    Blocks,              \* block hashes
    NumEndpoints,        \* endpoints configured
    Faulty,              \* those that may confirm what is not so
    SettleOpen,          \* is /settle served to others, on the same store?
    Steady,              \* threads whose process, calls and endpoints do not fail
    None                 \* no block under this hash, no call under way

ASSUME EndpointsAssumption == NumEndpoints \in Nat /\ Faulty \subseteq 1..NumEndpoints
ASSUME ElsewhereAssumption == Elsewhere \notin Requests
ASSUME SwitchAssumption == SettleOpen \in BOOLEAN /\ Steady \subseteq Threads

Payees == Requests \cup {Elsewhere}
Bindings == Blocks \X Requests

VARIABLES
    chain,               \* what each hash is: [to, exact], or None
    confirmed,           \* the blocks the network has confirmed
    pc,
    job,                 \* the call of each thread
    next,                \* the endpoint it asks next
    failures,            \* has an endpoint failed in this round?
    claimed,             \* the claim store: bindings spent
    wins,                \* the claim store: how often each was won
    served               \* how often the protected result was returned

vars == <<chain, confirmed, pc, job, next, failures, claimed, wins, served>>

network == <<chain, confirmed>>
round == <<next, failures>>
claims == <<claimed, wins>>

Store == INSTANCE SingleUse WITH spent <- claimed

\* `exact': is it a send of exactly the price of the resource, or of some other
\* amount?
Contents == [to : Payees, exact : BOOLEAN]

\* A call: `via' says whether the resource server or /settle was called.  The
\* resource server derives payTo from the request and asks for its price (`exact');
\* /settle takes payee, request and amount from its caller.
Jobs == [proof : Blocks, payTo : Payees, request : Requests, exact : BOOLEAN,
         via : {"resource", "settle"}]

ASSUME NoneAssumption == None \notin Contents \cup Jobs

Binding(t) == <<job[t].proof, job[t].request>>

Endpoints == 1..NumEndpoints

\* Is the block of call j, on the chain, what the requirements of j ask for?
Pays(j) == /\ j.proof \in confirmed
           /\ chain[j.proof] = [to |-> j.payTo, exact |-> j.exact]

Init == /\ chain = [b \in Blocks |-> None]
        /\ confirmed = {}
        /\ pc = [t \in Threads |-> "idle"]
        /\ job = [t \in Threads |-> None]
        /\ next = [t \in Threads |-> 1]
        /\ failures = [t \in Threads |-> FALSE]
        /\ Store!Init
        /\ served = [b \in Blocks |-> 0]

-----------------------------------------------------------------------------
(* The network.                                                            *)

\* Somebody publishes a block; its hash fixes what it says.
Publish(b, c) == /\ chain[b] = None
                 /\ chain' = [chain EXCEPT ![b] = c]
                 /\ UNCHANGED <<confirmed, pc, job, round, claims, served>>

Confirm(b) == /\ chain[b] # None
              /\ confirmed' = confirmed \cup {b}
              /\ UNCHANGED <<chain, pc, job, round, claims, served>>

-----------------------------------------------------------------------------
(* verify_block_on_independent_endpoints, one endpoint per step.           *)

\* Mutant: a failure outlives its round.
FirstRoundKeepsFailures(t) == /\ next' = [next EXCEPT ![t] = 1]
                              /\ UNCHANGED failures

\* Mutant: a new round goes on where the last one stopped.
FirstRoundKeepsNext(t) == /\ failures' = [failures EXCEPT ![t] = FALSE]
                          /\ UNCHANGED next

FirstRound(t) == /\ next' = [next EXCEPT ![t] = 1]
                 /\ failures' = [failures EXCEPT ![t] = FALSE]

Begin(t, j, l) == /\ pc' = [pc EXCEPT ![t] = l]
                  /\ job' = [job EXCEPT ![t] = j]
                  /\ FirstRound(t)
                  /\ UNCHANGED <<network, claims, served>>

\* Mutant: complete settles and does not go on to the protected handler.
CompleteOnlySettles(t, b, r) ==
    /\ pc[t] = "idle"
    /\ Begin(t, [proof |-> b, payTo |-> r, request |-> r, exact |-> TRUE,
                 via |-> "settle"], "verify")

\* complete: the requirements are derived anew from the request_id presented.
Complete(t, b, r) ==
    /\ pc[t] = "idle"
    /\ Begin(t, [proof |-> b, payTo |-> r, request |-> r, exact |-> TRUE,
                 via |-> "resource"], "verify")

\* POST /settle, with requirements of the caller's, the amount included.
PostSettle(t, b, p, r) ==
    /\ SettleOpen
    /\ pc[t] = "idle"
    /\ \E asked \in BOOLEAN :
         Begin(t, [proof |-> b, payTo |-> p, request |-> r, exact |-> asked,
                   via |-> "settle"], "settle")

\* Endpoint next[t] says yes: confirmed, a send, the amount, the payee.
AskYes(t) == /\ pc[t] \in {"verify", "settle"}
             /\ NumEndpoints >= 2
             /\ next[t] \in Endpoints
             /\ next[t] \in Faulty \/ Pays(job[t])
             /\ next' = [next EXCEPT ![t] = @ + 1]
             /\ UNCHANGED <<network, pc, job, failures, claims, served>>

\* It says anything else, has not seen the confirmation yet, or fails.
AskNo(t) == /\ pc[t] \in {"verify", "settle"}
            /\ NumEndpoints >= 2
            /\ next[t] \in Endpoints
            /\ t \in Steady => ~Pays(job[t])
            /\ next' = [next EXCEPT ![t] = @ + 1]
            /\ failures' = [failures EXCEPT ![t] = TRUE]
            /\ UNCHANGED <<network, pc, job, claims, served>>

\* Mutant: an endpoint that failed is passed over.
VerifiedByRest(t) == NumEndpoints >= 2 /\ next[t] > NumEndpoints

\* res.ok: at least two endpoints, all of them asked, none failed.
Verified(t) == NumEndpoints >= 2 /\ next[t] > NumEndpoints /\ ~failures[t]

NotVerified(t) == \/ NumEndpoints < 2
                  \/ next[t] > NumEndpoints /\ failures[t]

Finish(t) == /\ pc' = [pc EXCEPT ![t] = "idle"]
             /\ job' = [job EXCEPT ![t] = None]
             /\ FirstRound(t)

\* Mutant: verify takes the claim as well.
EndVerifyClaims(t) == /\ pc[t] = "verify"
                      /\ Verified(t)
                      /\ Store!Win(Binding(t))
                      /\ pc' = [pc EXCEPT ![t] = "settle"]
                      /\ FirstRound(t)
                      /\ UNCHANGED <<network, job, served>>

\* Mutant: the protected handler runs on the strength of verify alone.
EndVerifyServes(t) == /\ pc[t] = "verify"
                      /\ Verified(t)
                      /\ pc' = [pc EXCEPT ![t] = "serve"]
                      /\ UNCHANGED <<network, job, round, claims, served>>

\* verify is over, and settle starts from nothing.
EndVerify(t) == /\ pc[t] = "verify"
                /\ Verified(t)
                /\ pc' = [pc EXCEPT ![t] = "settle"]
                /\ FirstRound(t)
                /\ UNCHANGED <<network, job, claims, served>>

\* Mutant: the result is returned before the claim is made.
EndSettleServes(t) == /\ pc[t] = "settle"
                      /\ Verified(t)
                      /\ pc' = [pc EXCEPT ![t] = "serve"]
                      /\ UNCHANGED <<network, job, round, claims, served>>

EndSettleCheck(t) == /\ pc[t] = "settle"
                     /\ Verified(t)
                     /\ pc' = [pc EXCEPT ![t] = "claim"]
                     /\ UNCHANGED <<network, job, round, claims, served>>

Refuse(t) == /\ pc[t] \in {"verify", "settle"}
             /\ NotVerified(t)
             /\ Finish(t)
             /\ UNCHANGED <<network, claims, served>>

-----------------------------------------------------------------------------
(* The claim, and the result.                                              *)

\* The claim is won: /settle answers success, the resource server goes on to
\* the protected handler.
Claim(t) == /\ pc[t] = "claim"
            /\ Store!Win(Binding(t))
            /\ IF job[t].via = "resource"
                 THEN /\ pc' = [pc EXCEPT ![t] = "serve"]
                      /\ UNCHANGED <<job, round>>
                 ELSE Finish(t)
            /\ UNCHANGED <<network, served>>

\* The claim is refused as a duplicate.
Duplicate(t) == /\ pc[t] = "claim"
                /\ Binding(t) \in claimed
                /\ Finish(t)
                /\ UNCHANGED <<network, claims, served>>

\* The store raises (`database is locked'): the call gets no verdict.
ClaimRaises(t) == /\ pc[t] = "claim"
                  /\ t \notin Steady
                  /\ Finish(t)
                  /\ UNCHANGED <<network, claims, served>>

\* The protected handler runs and its result is returned.
Serve(t) == /\ pc[t] = "serve"
            /\ served' = [served EXCEPT ![job[t].proof] = @ + 1]
            /\ Finish(t)
            /\ UNCHANGED <<network, claims>>

\* The protected handler raises, or the connection is gone.
ServeFails(t) == /\ pc[t] = "serve"
                 /\ t \notin Steady
                 /\ Finish(t)
                 /\ UNCHANGED <<network, claims, served>>

\* The thread dies with its process, wherever it is.
Die(t) == /\ pc[t] # "idle"
          /\ t \notin Steady
          /\ Finish(t)
          /\ UNCHANGED <<network, claims, served>>

Step(t) == \/ AskYes(t) \/ AskNo(t) \/ EndVerify(t) \/ EndSettleCheck(t)
           \/ Refuse(t) \/ Claim(t) \/ Duplicate(t) \/ Serve(t)

Next == \/ \E b \in Blocks : Confirm(b) \/ \E c \in Contents : Publish(b, c)
        \/ \E t \in Threads :
             \/ Step(t)
             \/ ClaimRaises(t) \/ ServeFails(t) \/ Die(t)
             \/ \E b \in Blocks, r \in Requests :
                  \/ Complete(t, b, r)
                  \/ \E p \in Payees : PostSettle(t, b, p, r)

Spec == Init /\ [][Next]_vars

-----------------------------------------------------------------------------

TypeOK == /\ chain \in [Blocks -> Contents \cup {None}]
          /\ confirmed \in SUBSET Blocks
          /\ pc \in [Threads -> {"idle", "verify", "settle", "claim", "serve"}]
          /\ job \in [Threads -> Jobs \cup {None}]
          /\ next \in [Threads -> 1..(NumEndpoints + 1)]
          /\ failures \in [Threads -> BOOLEAN]
          /\ claimed \in SUBSET Bindings
          /\ wins \in [Bindings -> Nat]
          /\ served \in [Blocks -> Nat]

\* Nothing is claimed or served but for a block that the network has confirmed
\* as a send of exactly the amount asked to payTo, unless every endpoint configured
\* is faulty: settle asks them all again, whatever verify said.
SettledIsPaid ==
    \A t \in Threads :
        pc[t] \in {"claim", "serve"} => Pays(job[t])

\* "One payment authorizes exactly one call": no block makes the resource
\* server serve twice, in the name of any request, over any handlers, retries
\* and restarts, and with any claims made through /settle.
ServedOnce == \A b \in Blocks : served[b] <= 1

\* The payment of what was served went to the request it was served for, and
\* is spent.
ServedIsSpent ==
    \A b \in Blocks : served[b] > 0
        => /\ b \in confirmed
           /\ chain[b].exact
           /\ <<b, chain[b].to>> \in claimed

-----------------------------------------------------------------------------
(* The inductive invariant.                                                *)

ChainInv == \A b \in confirmed : chain[b] # None

JobInv == \A t \in Threads :
            /\ pc[t] = "idle" <=> job[t] = None
            /\ pc[t] # "idle" /\ job[t].via = "resource"
                 => job[t].payTo = job[t].request /\ job[t].exact
            /\ pc[t] \in {"verify", "serve"} => job[t].via = "resource"

\* As long as nobody has failed, every truthful endpoint asked so far has seen
\* the payment.
RoundInv == \A t \in Threads :
              pc[t] \in {"verify", "settle"} /\ ~failures[t]
                => \A e \in Endpoints \ Faulty :
                     e < next[t] => Pays(job[t])

\* A block that is being served has not been served, is being served by one
\* thread, and is spent.
ServeInv == /\ \A t \in Threads :
                 pc[t] = "serve" => /\ Binding(t) \in claimed
                                    /\ served[job[t].proof] = 0
            /\ \A t, u \in Threads :
                 (/\ pc[t] = "serve" /\ pc[u] = "serve"
                  /\ job[t].proof = job[u].proof) => t = u

\* What the proofs assume of the endpoints: one of them tells the truth.
Truthful == Endpoints \ Faulty # {}

IInv == /\ TypeOK /\ ChainInv /\ JobInv /\ RoundInv /\ ServeInv
        /\ SettledIsPaid /\ ServedOnce /\ ServedIsSpent

=============================================================================
