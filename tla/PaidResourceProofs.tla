------------------------- MODULE PaidResourceProofs -------------------------
(***************************************************************************)
(* Proofs about PaidResource, for any number of threads, requests, blocks  *)
(* and endpoints: nothing is settled unpaid while one endpoint is          *)
(* truthful, and no block is served twice.  And about PayingClient over    *)
(* it, for any number of clients: the exchange implements Purchase.        *)
(***************************************************************************)
EXTENDS PayingClient, TLAPS

(* A hash gets its contents: no block that is confirmed changes.           *)
LEMMA PublishKeeps ==
  ASSUME IInv, Truthful, NEW b \in Blocks, NEW c \in Contents, Publish(b, c)
  PROVE  IInv'
<1>. USE EndpointsAssumption, ElsewhereAssumption, NoneAssumption
     DEF IInv, TypeOK, Publish, round, claims
<1>1. TypeOK'
  BY DEF Jobs, Payees, Endpoints, Binding, Bindings
<1>2. ChainInv'
  BY DEF ChainInv
<1>3. JobInv'
  BY DEF JobInv, Jobs
<1>4. RoundInv'
  BY DEF RoundInv, Pays, JobInv, ChainInv, Endpoints
<1>5. ServeInv'
  BY DEF ServeInv, JobInv, Binding, SettledIsPaid, Pays, ServedIsSpent, ChainInv
<1>6. SettledIsPaid'
  BY DEF SettledIsPaid, RoundInv, Verified, Pays, JobInv, ChainInv, Truthful, Endpoints
<1>7. ServedOnce'
  BY DEF ServedOnce, ServeInv
<1>8. ServedIsSpent'
  BY DEF ServedIsSpent, SettledIsPaid, Pays, ServeInv, JobInv, Binding, ChainInv
<1>. QED  BY <1>1, <1>2, <1>3, <1>4, <1>5, <1>6, <1>7, <1>8

(* Confirmation only adds to what pays.                                    *)
LEMMA ConfirmKeeps ==
  ASSUME IInv, Truthful, NEW b \in Blocks, Confirm(b)
  PROVE  IInv'
<1>. USE EndpointsAssumption, ElsewhereAssumption, NoneAssumption
     DEF IInv, TypeOK, Confirm, round, claims
<1>1. TypeOK'
  BY DEF Jobs, Payees, Endpoints, Binding, Bindings
<1>2. ChainInv'
  BY DEF ChainInv
<1>3. JobInv'
  BY DEF JobInv, Jobs
<1>4. RoundInv'
  BY DEF RoundInv, Pays, JobInv, ChainInv, Endpoints
<1>5. ServeInv'
  BY DEF ServeInv, JobInv, Binding, SettledIsPaid, Pays, ServedIsSpent, ChainInv
<1>6. SettledIsPaid'
  BY DEF SettledIsPaid, RoundInv, Verified, Pays, JobInv, ChainInv, Truthful, Endpoints
<1>7. ServedOnce'
  BY DEF ServedOnce, ServeInv
<1>8. ServedIsSpent'
  BY DEF ServedIsSpent, SettledIsPaid, Pays, ServeInv, JobInv, Binding, ChainInv
<1>. QED  BY <1>1, <1>2, <1>3, <1>4, <1>5, <1>6, <1>7, <1>8

(* The call starts with its payTo derived from its request.                *)
LEMMA CompleteKeeps ==
  ASSUME IInv, Truthful, NEW t \in Threads, NEW b \in Blocks, NEW r \in Requests, Complete(t, b, r)
  PROVE  IInv'
<1>. USE EndpointsAssumption, ElsewhereAssumption, NoneAssumption
     DEF IInv, TypeOK, Complete, Begin, FirstRound, network, claims
<1>1. TypeOK'
  BY DEF Jobs, Payees, Endpoints, Binding, Bindings
<1>2. ChainInv'
  BY DEF ChainInv
<1>3. JobInv'
  <2>. DEFINE j == [proof |-> b, payTo |-> r, request |-> r, exact |-> TRUE,
                      via |-> "resource"]
  <2>1. j \in Jobs
    BY DEF Jobs, Payees
  <2>2. j # None /\ j.via = "resource" /\ j.payTo = j.request /\ j.exact
    BY <2>1
  <2>3. pc'[t] = "verify" /\ job'[t] = j
    OBVIOUS
  <2>4. \A u \in Threads \ {t} : pc'[u] = pc[u] /\ job'[u] = job[u]
    OBVIOUS
  <2>. HIDE DEF j
  <2>5. ASSUME NEW u \in Threads
        PROVE  /\ pc'[u] = "idle" <=> job'[u] = None
               /\ pc'[u] # "idle" /\ job'[u].via = "resource"
                    => job'[u].payTo = job'[u].request /\ job'[u].exact
               /\ pc'[u] \in {"verify", "serve"} => job'[u].via = "resource"
    <3>1. CASE u = t
      BY <2>2, <2>3, <3>1
    <3>2. CASE u # t
      BY <2>4, <3>2 DEF JobInv
    <3>. QED  BY <3>1, <3>2
  <2>. QED  BY ONLY <2>5 DEF JobInv
<1>4. RoundInv'
  <2>1. next'[t] = 1 /\ \A e \in Endpoints : ~(e < 1)
    BY DEF Endpoints
  <2>2. \A u \in Threads \ {t} : /\ pc'[u] = pc[u] /\ job'[u] = job[u]
                                 /\ next'[u] = next[u] /\ failures'[u] = failures[u]
    OBVIOUS
  <2>3. chain' = chain /\ confirmed' = confirmed
    OBVIOUS
  <2>4. ASSUME NEW u \in Threads, pc'[u] \in {"verify", "settle"}, ~failures'[u],
               NEW e \in Endpoints \ Faulty, e < next'[u]
        PROVE  Pays(job[u])' /\ u # t
    <3>1. u # t
      BY <2>1, <2>4
    <3>2. Pays(job[u])
      BY <2>2, <2>4, <3>1 DEF RoundInv
    <3>. QED  BY <2>2, <2>3, <3>1, <3>2 DEF Pays
  <2>. QED  BY <2>4 DEF RoundInv
<1>5. ServeInv'
  BY DEF ServeInv, JobInv, Binding, SettledIsPaid, Pays, ServedIsSpent, ChainInv
<1>6. SettledIsPaid'
  BY DEF SettledIsPaid, RoundInv, Verified, Pays, JobInv, ChainInv, Truthful, Endpoints
<1>7. ServedOnce'
  BY DEF ServedOnce, ServeInv
<1>8. ServedIsSpent'
  BY DEF ServedIsSpent, SettledIsPaid, Pays, ServeInv, JobInv, Binding, ChainInv
<1>. QED  BY <1>1, <1>2, <1>3, <1>4, <1>5, <1>6, <1>7, <1>8

(* A call to /settle names any payTo, request and amount, and never serves. *)
LEMMA PostSettleKeeps ==
  ASSUME IInv, Truthful, NEW t \in Threads, NEW b \in Blocks, NEW p \in Payees,
         NEW r \in Requests, PostSettle(t, b, p, r)
  PROVE  IInv'
<1>. USE EndpointsAssumption, ElsewhereAssumption, NoneAssumption
     DEF IInv, TypeOK, PostSettle, Begin, FirstRound, network, claims
<1>1. TypeOK'
  BY DEF Jobs, Payees, Endpoints, Binding, Bindings
<1>2. ChainInv'
  BY DEF ChainInv
<1>3. JobInv'
  BY DEF JobInv, Jobs
<1>4. RoundInv'
  BY DEF RoundInv, Pays, JobInv, ChainInv, Endpoints
<1>5. ServeInv'
  BY DEF ServeInv, JobInv, Binding, SettledIsPaid, Pays, ServedIsSpent, ChainInv
<1>6. SettledIsPaid'
  BY DEF SettledIsPaid, RoundInv, Verified, Pays, JobInv, ChainInv, Truthful, Endpoints
<1>7. ServedOnce'
  BY DEF ServedOnce, ServeInv
<1>8. ServedIsSpent'
  BY DEF ServedIsSpent, SettledIsPaid, Pays, ServeInv, JobInv, Binding, ChainInv
<1>. QED  BY <1>1, <1>2, <1>3, <1>4, <1>5, <1>6, <1>7, <1>8

(* A truthful endpoint that says yes has seen the payment.                 *)
LEMMA AskYesKeeps ==
  ASSUME IInv, Truthful, NEW t \in Threads, AskYes(t)
  PROVE  IInv'
<1>. USE EndpointsAssumption, ElsewhereAssumption, NoneAssumption
     DEF IInv, TypeOK, AskYes, network, claims
<1>1. TypeOK'
  BY DEF Jobs, Payees, Endpoints, Binding, Bindings
<1>2. ChainInv'
  BY DEF ChainInv
<1>3. JobInv'
  BY DEF JobInv, Jobs
<1>4. RoundInv'
  <2>1. next[t] \notin Faulty => Pays(job[t])
    OBVIOUS
  <2>2. \A e \in Endpoints : e < next'[t] => e < next[t] \/ e = next[t]
    BY DEF Endpoints
  <2>3. \A u \in Threads \ {t} : next'[u] = next[u]
    OBVIOUS
  <2>. QED  BY <2>1, <2>2, <2>3 DEF RoundInv, Pays
<1>5. ServeInv'
  BY DEF ServeInv, JobInv, Binding, SettledIsPaid, Pays, ServedIsSpent, ChainInv
<1>6. SettledIsPaid'
  BY DEF SettledIsPaid, RoundInv, Verified, Pays, JobInv, ChainInv, Truthful, Endpoints
<1>7. ServedOnce'
  BY DEF ServedOnce, ServeInv
<1>8. ServedIsSpent'
  BY DEF ServedIsSpent, SettledIsPaid, Pays, ServeInv, JobInv, Binding, ChainInv
<1>. QED  BY <1>1, <1>2, <1>3, <1>4, <1>5, <1>6, <1>7, <1>8

(* A failure leaves nothing to be claimed in this round.                   *)
LEMMA AskNoKeeps ==
  ASSUME IInv, Truthful, NEW t \in Threads, AskNo(t)
  PROVE  IInv'
<1>. USE EndpointsAssumption, ElsewhereAssumption, NoneAssumption
     DEF IInv, TypeOK, AskNo, network, claims
<1>1. TypeOK'
  BY DEF Jobs, Payees, Endpoints, Binding, Bindings
<1>2. ChainInv'
  BY DEF ChainInv
<1>3. JobInv'
  BY DEF JobInv, Jobs
<1>4. RoundInv'
  BY DEF RoundInv, Pays, JobInv, ChainInv, Endpoints
<1>5. ServeInv'
  BY DEF ServeInv, JobInv, Binding, SettledIsPaid, Pays, ServedIsSpent, ChainInv
<1>6. SettledIsPaid'
  BY DEF SettledIsPaid, RoundInv, Verified, Pays, JobInv, ChainInv, Truthful, Endpoints
<1>7. ServedOnce'
  BY DEF ServedOnce, ServeInv
<1>8. ServedIsSpent'
  BY DEF ServedIsSpent, SettledIsPaid, Pays, ServeInv, JobInv, Binding, ChainInv
<1>. QED  BY <1>1, <1>2, <1>3, <1>4, <1>5, <1>6, <1>7, <1>8

(* settle starts its own round.                                            *)
LEMMA EndVerifyKeeps ==
  ASSUME IInv, Truthful, NEW t \in Threads, EndVerify(t)
  PROVE  IInv'
<1>. USE EndpointsAssumption, ElsewhereAssumption, NoneAssumption
     DEF IInv, TypeOK, EndVerify, FirstRound, network, claims
<1>1. TypeOK'
  BY DEF Jobs, Payees, Endpoints, Binding, Bindings
<1>2. ChainInv'
  BY DEF ChainInv
<1>3. JobInv'
  BY DEF JobInv, Jobs
<1>4. RoundInv'
  BY DEF RoundInv, Pays, JobInv, ChainInv, Endpoints
<1>5. ServeInv'
  BY DEF ServeInv, JobInv, Binding, SettledIsPaid, Pays, ServedIsSpent, ChainInv
<1>6. SettledIsPaid'
  BY DEF SettledIsPaid, RoundInv, Verified, Pays, JobInv, ChainInv, Truthful, Endpoints
<1>7. ServedOnce'
  BY DEF ServedOnce, ServeInv
<1>8. ServedIsSpent'
  BY DEF ServedIsSpent, SettledIsPaid, Pays, ServeInv, JobInv, Binding, ChainInv
<1>. QED  BY <1>1, <1>2, <1>3, <1>4, <1>5, <1>6, <1>7, <1>8

(* All endpoints have been asked again, a truthful one among them.         *)
LEMMA EndSettleCheckKeeps ==
  ASSUME IInv, Truthful, NEW t \in Threads, EndSettleCheck(t)
  PROVE  IInv'
<1>. USE EndpointsAssumption, ElsewhereAssumption, NoneAssumption
     DEF IInv, TypeOK, EndSettleCheck, network, round, claims
<1>1. TypeOK'
  BY DEF Jobs, Payees, Endpoints, Binding, Bindings
<1>2. ChainInv'
  BY DEF ChainInv
<1>3. JobInv'
  BY DEF JobInv, Jobs
<1>4. RoundInv'
  BY DEF RoundInv, Pays, JobInv, ChainInv, Endpoints
<1>5. ServeInv'
  BY DEF ServeInv, JobInv, Binding, SettledIsPaid, Pays, ServedIsSpent, ChainInv
<1>6. SettledIsPaid'
  BY DEF SettledIsPaid, RoundInv, Verified, Pays, JobInv, ChainInv, Truthful, Endpoints
<1>7. ServedOnce'
  BY DEF ServedOnce, ServeInv
<1>8. ServedIsSpent'
  BY DEF ServedIsSpent, SettledIsPaid, Pays, ServeInv, JobInv, Binding, ChainInv
<1>. QED  BY <1>1, <1>2, <1>3, <1>4, <1>5, <1>6, <1>7, <1>8

(* Nothing is kept of a call that was refused.                             *)
LEMMA RefuseKeeps ==
  ASSUME IInv, Truthful, NEW t \in Threads, Refuse(t)
  PROVE  IInv'
<1>. USE EndpointsAssumption, ElsewhereAssumption, NoneAssumption
     DEF IInv, TypeOK, Refuse, Finish, FirstRound, network, claims
<1>1. TypeOK'
  BY DEF Jobs, Payees, Endpoints, Binding, Bindings
<1>2. ChainInv'
  BY DEF ChainInv
<1>3. JobInv'
  BY DEF JobInv, Jobs
<1>4. RoundInv'
  BY DEF RoundInv, Pays, JobInv, ChainInv, Endpoints
<1>5. ServeInv'
  BY DEF ServeInv, JobInv, Binding, SettledIsPaid, Pays, ServedIsSpent, ChainInv
<1>6. SettledIsPaid'
  BY DEF SettledIsPaid, RoundInv, Verified, Pays, JobInv, ChainInv, Truthful, Endpoints
<1>7. ServedOnce'
  BY DEF ServedOnce, ServeInv
<1>8. ServedIsSpent'
  BY DEF ServedIsSpent, SettledIsPaid, Pays, ServeInv, JobInv, Binding, ChainInv
<1>. QED  BY <1>1, <1>2, <1>3, <1>4, <1>5, <1>6, <1>7, <1>8

(* A claim that is won was not spent: its block is not served, nor being   *)
(* served by another thread.                                               *)
LEMMA ClaimKeeps ==
  ASSUME IInv, Truthful, NEW t \in Threads, Claim(t)
  PROVE  IInv'
<1>. USE EndpointsAssumption, ElsewhereAssumption, NoneAssumption
     DEF IInv, TypeOK, Claim, Finish, FirstRound, network, round, Store!Win
<1>1. TypeOK'
  <2>1. Binding(t) \in Bindings
    BY DEF JobInv, Binding, Bindings, Jobs
  <2>2. claimed' \in SUBSET Bindings /\ wins' \in [Bindings -> Nat]
    BY <2>1
  <2>4. CASE job[t].via = "resource"
    <3>1. pc' = [pc EXCEPT ![t] = "serve"] /\ UNCHANGED <<job, next, failures>>
      BY <2>4
    <3>2. pc' \in [Threads -> {"idle", "verify", "settle", "claim", "serve"}]
      BY <3>1
    <3>. QED  BY <2>2, <3>1, <3>2
  <2>5. CASE job[t].via # "resource"
    <3>1. pc' = [pc EXCEPT ![t] = "idle"]
      BY <2>5
    <3>2. pc' \in [Threads -> {"idle", "verify", "settle", "claim", "serve"}]
      BY <3>1
    <3>3. job' \in [Threads -> Jobs \cup {None}]
      BY <2>5
    <3>4. next' \in [Threads -> 1..(NumEndpoints + 1)]
      BY <2>5
    <3>5. failures' \in [Threads -> BOOLEAN]
      BY <2>5
    <3>. QED  BY <2>2, <3>2, <3>3, <3>4, <3>5
  <2>. QED  BY <2>4, <2>5
<1>2. ChainInv'
  BY DEF ChainInv
<1>3. JobInv'
  BY DEF JobInv, Jobs
<1>4. RoundInv'
  BY DEF RoundInv, Pays, JobInv, ChainInv, Endpoints
<1>5. ServeInv'
  <2>. DEFINE block == job[t].proof
  <2>1. job[t] \in Jobs /\ Binding(t) \notin claimed
    BY DEF JobInv
  <2>2. \A u \in Threads \ {t} : pc'[u] = pc[u] /\ job'[u] = job[u]
    OBVIOUS
  <2>3. /\ Binding(t) \in claimed'
        /\ claimed \subseteq claimed'
        /\ UNCHANGED served
    OBVIOUS
  <2>4. CASE job[t].via = "resource"
    <3>1. UNCHANGED job /\ pc'[t] = "serve"
      BY <2>4
    <3>2. Pays(job[t]) /\ job[t].payTo = job[t].request
      BY <2>4 DEF SettledIsPaid, JobInv
    <3>3. Binding(t) = <<block, chain[block].to>>
      BY <3>2 DEF Pays, Binding
    <3>4. served[block] = 0
      BY <2>1, <3>3 DEF ServedIsSpent, Jobs
    <3>5. ASSUME NEW u \in Threads, pc[u] = "serve", job[u].proof = block
          PROVE  FALSE
      <4>1. Pays(job[u]) /\ job[u].payTo = job[u].request
        BY <3>5 DEF SettledIsPaid, JobInv
      <4>2. Binding(u) = Binding(t)
        BY <3>3, <3>5, <4>1 DEF Pays, Binding
      <4>. QED  BY <2>1, <3>5, <4>2 DEF ServeInv
    <3>6. \A u \in Threads : pc'[u] = "serve" =>
             /\ u # t => pc[u] = "serve" /\ job'[u].proof # block
             /\ job' = job
      BY <2>2, <3>1, <3>5
    <3>7. \A u \in Threads :
             pc'[u] = "serve" => Binding(u)' \in claimed' /\ served'[job'[u].proof] = 0
      BY <2>2, <2>3, <3>1, <3>4, <3>6 DEF ServeInv, Binding
    <3>8. \A u, v \in Threads :
             (pc'[u] = "serve" /\ pc'[v] = "serve" /\ job'[u].proof = job'[v].proof) => u = v
      BY <3>1, <3>6 DEF ServeInv
    <3>. QED  BY ONLY <3>7, <3>8 DEF ServeInv
  <2>5. CASE job[t].via # "resource"
    <3>1. pc'[t] = "idle"
      BY <2>5
    <3>2. \A u \in Threads :
             pc'[u] = "serve" => pc[u] = "serve" /\ job'[u] = job[u]
      BY <2>2, <3>1
    <3>3. ServeInv
      OBVIOUS
    <3>. QED  BY ONLY <2>3, <3>2, <3>3 DEF ServeInv, Binding
  <2>. QED  BY <2>4, <2>5
<1>6. SettledIsPaid'
  BY DEF SettledIsPaid, RoundInv, Verified, Pays, JobInv, ChainInv, Truthful, Endpoints
<1>7. ServedOnce'
  BY DEF ServedOnce, ServeInv
<1>8. ServedIsSpent'
  BY DEF ServedIsSpent, SettledIsPaid, Pays, ServeInv, JobInv, Binding, ChainInv
<1>. QED  BY <1>1, <1>2, <1>3, <1>4, <1>5, <1>6, <1>7, <1>8

(* A lost claim leaves no trace.                                           *)
LEMMA DuplicateKeeps ==
  ASSUME IInv, Truthful, NEW t \in Threads, Duplicate(t)
  PROVE  IInv'
<1>. USE EndpointsAssumption, ElsewhereAssumption, NoneAssumption
     DEF IInv, TypeOK, Duplicate, Finish, FirstRound, network, claims
<1>1. TypeOK'
  BY DEF Jobs, Payees, Endpoints, Binding, Bindings
<1>2. ChainInv'
  BY DEF ChainInv
<1>3. JobInv'
  BY DEF JobInv, Jobs
<1>4. RoundInv'
  BY DEF RoundInv, Pays, JobInv, ChainInv, Endpoints
<1>5. ServeInv'
  BY DEF ServeInv, JobInv, Binding, SettledIsPaid, Pays, ServedIsSpent, ChainInv
<1>6. SettledIsPaid'
  BY DEF SettledIsPaid, RoundInv, Verified, Pays, JobInv, ChainInv, Truthful, Endpoints
<1>7. ServedOnce'
  BY DEF ServedOnce, ServeInv
<1>8. ServedIsSpent'
  BY DEF ServedIsSpent, SettledIsPaid, Pays, ServeInv, JobInv, Binding, ChainInv
<1>. QED  BY <1>1, <1>2, <1>3, <1>4, <1>5, <1>6, <1>7, <1>8

(* A failed claim leaves no trace.                                         *)
LEMMA ClaimRaisesKeeps ==
  ASSUME IInv, Truthful, NEW t \in Threads, ClaimRaises(t)
  PROVE  IInv'
<1>. USE EndpointsAssumption, ElsewhereAssumption, NoneAssumption
     DEF IInv, TypeOK, ClaimRaises, Finish, FirstRound, network, claims
<1>1. TypeOK'
  BY DEF Jobs, Payees, Endpoints, Binding, Bindings
<1>2. ChainInv'
  BY DEF ChainInv
<1>3. JobInv'
  BY DEF JobInv, Jobs
<1>4. RoundInv'
  BY DEF RoundInv, Pays, JobInv, ChainInv, Endpoints
<1>5. ServeInv'
  BY DEF ServeInv, JobInv, Binding, SettledIsPaid, Pays, ServedIsSpent, ChainInv
<1>6. SettledIsPaid'
  BY DEF SettledIsPaid, RoundInv, Verified, Pays, JobInv, ChainInv, Truthful, Endpoints
<1>7. ServedOnce'
  BY DEF ServedOnce, ServeInv
<1>8. ServedIsSpent'
  BY DEF ServedIsSpent, SettledIsPaid, Pays, ServeInv, JobInv, Binding, ChainInv
<1>. QED  BY <1>1, <1>2, <1>3, <1>4, <1>5, <1>6, <1>7, <1>8

(* The one result of a claim is returned.                                  *)
LEMMA ServeKeeps ==
  ASSUME IInv, Truthful, NEW t \in Threads, Serve(t)
  PROVE  IInv'
<1>. USE EndpointsAssumption, ElsewhereAssumption, NoneAssumption
     DEF IInv, TypeOK, Serve, Finish, FirstRound, network, claims
<1>1. TypeOK'
  <2>1. served' \in [Blocks -> Nat]
    BY DEF JobInv, Jobs
  <2>2. /\ pc' \in [Threads -> {"idle", "verify", "settle", "claim", "serve"}]
        /\ job' \in [Threads -> Jobs \cup {None}]
        /\ next' \in [Threads -> 1..(NumEndpoints + 1)]
        /\ failures' \in [Threads -> BOOLEAN]
    OBVIOUS
  <2>. QED  BY <2>1, <2>2
<1>2. ChainInv'
  BY DEF ChainInv
<1>3. JobInv'
  BY DEF JobInv, Jobs
<1>4. RoundInv'
  BY DEF RoundInv, Pays, JobInv, ChainInv, Endpoints
<1>5. ServeInv'
  BY DEF ServeInv, JobInv, Binding, SettledIsPaid, Pays, ServedIsSpent, ChainInv
<1>6. SettledIsPaid'
  BY DEF SettledIsPaid, RoundInv, Verified, Pays, JobInv, ChainInv, Truthful, Endpoints
<1>7. ServedOnce'
  BY DEF ServedOnce, ServeInv
<1>8. ServedIsSpent'
  <2>1. Pays(job[t]) /\ job[t].payTo = job[t].request /\ job[t].exact
    BY DEF SettledIsPaid, JobInv
  <2>2. <<job[t].proof, chain[job[t].proof].to>> \in claimed
    BY <2>1 DEF ServeInv, Binding, Pays
  <2>3. \A b \in Blocks \ {job[t].proof} : served'[b] = served[b]
    OBVIOUS
  <2>. QED  BY <2>1, <2>2, <2>3 DEF ServedIsSpent, Pays
<1>. QED  BY <1>1, <1>2, <1>3, <1>4, <1>5, <1>6, <1>7, <1>8

(* The claim is lost, and nothing is served.                               *)
LEMMA ServeFailsKeeps ==
  ASSUME IInv, Truthful, NEW t \in Threads, ServeFails(t)
  PROVE  IInv'
<1>. USE EndpointsAssumption, ElsewhereAssumption, NoneAssumption
     DEF IInv, TypeOK, ServeFails, Finish, FirstRound, network, claims
<1>1. TypeOK'
  BY DEF Jobs, Payees, Endpoints, Binding, Bindings
<1>2. ChainInv'
  BY DEF ChainInv
<1>3. JobInv'
  BY DEF JobInv, Jobs
<1>4. RoundInv'
  BY DEF RoundInv, Pays, JobInv, ChainInv, Endpoints
<1>5. ServeInv'
  BY DEF ServeInv, JobInv, Binding, SettledIsPaid, Pays, ServedIsSpent, ChainInv
<1>6. SettledIsPaid'
  BY DEF SettledIsPaid, RoundInv, Verified, Pays, JobInv, ChainInv, Truthful, Endpoints
<1>7. ServedOnce'
  BY DEF ServedOnce, ServeInv
<1>8. ServedIsSpent'
  BY DEF ServedIsSpent, SettledIsPaid, Pays, ServeInv, JobInv, Binding, ChainInv
<1>. QED  BY <1>1, <1>2, <1>3, <1>4, <1>5, <1>6, <1>7, <1>8

(* A thread that dies while serving loses its claim.                       *)
LEMMA DieKeeps ==
  ASSUME IInv, Truthful, NEW t \in Threads, Die(t)
  PROVE  IInv'
<1>. USE EndpointsAssumption, ElsewhereAssumption, NoneAssumption
     DEF IInv, TypeOK, Die, Finish, FirstRound, network, claims
<1>1. TypeOK'
  BY DEF Jobs, Payees, Endpoints, Binding, Bindings
<1>2. ChainInv'
  BY DEF ChainInv
<1>3. JobInv'
  BY DEF JobInv, Jobs
<1>4. RoundInv'
  BY DEF RoundInv, Pays, JobInv, ChainInv, Endpoints
<1>5. ServeInv'
  BY DEF ServeInv, JobInv, Binding, SettledIsPaid, Pays, ServedIsSpent, ChainInv
<1>6. SettledIsPaid'
  BY DEF SettledIsPaid, RoundInv, Verified, Pays, JobInv, ChainInv, Truthful, Endpoints
<1>7. ServedOnce'
  BY DEF ServedOnce, ServeInv
<1>8. ServedIsSpent'
  BY DEF ServedIsSpent, SettledIsPaid, Pays, ServeInv, JobInv, Binding, ChainInv
<1>. QED  BY <1>1, <1>2, <1>3, <1>4, <1>5, <1>6, <1>7, <1>8

-----------------------------------------------------------------------------

(* No step breaks the inductive invariant.                                 *)
LEMMA IInvStep ==
  ASSUME Truthful, IInv, [Next]_vars
  PROVE  IInv'
<1>1. CASE UNCHANGED vars
  BY <1>1 DEF vars, network, round, claims, IInv, TypeOK, ChainInv, JobInv,
       RoundInv, ServeInv, SettledIsPaid, ServedOnce, ServedIsSpent, Pays, Binding
<1>2. ASSUME NEW b \in Blocks, NEW c \in Contents, Confirm(b) \/ Publish(b, c)
      PROVE  IInv'
  BY <1>2, ConfirmKeeps, PublishKeeps
<1>3. ASSUME NEW b \in Blocks, Confirm(b)
      PROVE  IInv'
  BY <1>3, ConfirmKeeps
<1>4. ASSUME NEW t \in Threads,
             Step(t) \/ ClaimRaises(t) \/ ServeFails(t) \/ Die(t)
      PROVE  IInv'
  BY <1>4, AskYesKeeps, AskNoKeeps, EndVerifyKeeps, EndSettleCheckKeeps,
     RefuseKeeps, ClaimKeeps, DuplicateKeeps, ServeKeeps, ClaimRaisesKeeps,
     ServeFailsKeeps, DieKeeps
     DEF Step
<1>5. ASSUME NEW t \in Threads, NEW b \in Blocks, NEW r \in Requests,
             Complete(t, b, r)
      PROVE  IInv'
  BY <1>5, CompleteKeeps
<1>6. ASSUME NEW t \in Threads, NEW b \in Blocks, NEW r \in Requests,
             NEW p \in Payees, PostSettle(t, b, p, r)
      PROVE  IInv'
  BY <1>6, PostSettleKeeps
<1>. QED  BY <1>1, <1>2, <1>3, <1>4, <1>5, <1>6 DEF Next

(* Before the first call the invariant holds.                              *)
LEMMA InitHolds == Init => IInv
BY EndpointsAssumption, NoneAssumption
DEF Init, Store!Init, IInv, TypeOK, ChainInv, JobInv, RoundInv, ServeInv,
    SettledIsPaid, ServedOnce, ServedIsSpent

(* The invariant holds in every reachable state, for any number of threads *)
(* and endpoints, as long as one endpoint is truthful.                     *)
THEOREM Invariance ==
  ASSUME Truthful
  PROVE  Spec => []IInv
<1>1. Init => IInv
  BY InitHolds
<1>2. IInv /\ [Next]_vars => IInv'
  BY IInvStep
<1>. QED  BY <1>1, <1>2, PTL DEF Spec

(* Nothing is claimed or served unpaid: with one truthful endpoint among   *)
(* those configured, whatever the others answer and whatever verify was    *)
(* told before, a claim is made only for a confirmed send of the amount.   *)
THEOREM SettledPaid ==
  ASSUME Truthful
  PROVE  Spec => []SettledIsPaid
<1>1. IInv => SettledIsPaid
  BY DEF IInv
<1>. QED  BY <1>1, Invariance, PTL

(* No payment makes the resource server serve twice, over any number of    *)
(* handler threads and requests, and with claims made through /settle.     *)
THEOREM OnePaymentOneResult ==
  ASSUME Truthful
  PROVE  Spec => []ServedOnce
<1>1. IInv => ServedOnce
  BY DEF IInv
<1>. QED  BY <1>1, Invariance, PTL

(* What was served was paid to the request it was served for, and spent.   *)
THEOREM ServedSpent ==
  ASSUME Truthful
  PROVE  Spec => []ServedIsSpent
<1>1. IInv => ServedIsSpent
  BY DEF IInv
<1>. QED  BY <1>1, Invariance, PTL

-----------------------------------------------------------------------------
(* PayingClient: whoever waits is worked for, and a steady client's payment *)
(* is taken only to be served.                                              *)

allVars == <<vars, clientVars>>

\* Every step of a client or a handler is a step of PaidResource, or none of it.
LEMMA ServerStep ==
    ASSUME IInv, ClientInv, [ClientNext]_allVars
    PROVE  [Next]_vars
<1>1. ASSUME NEW c \in Clients, NEW b \in Blocks, Send(c, b)
      PROVE  Next
  <2>1. client[c].offer \in Requests
    BY <1>1 DEF Send, ClientInv, ExchangeInv
  <2>2. [to |-> client[c].offer, exact |-> TRUE] \in Contents
    BY <2>1 DEF Contents, Payees
  <2> QED BY <1>1, <2>2 DEF Send, Next
<1>2. ASSUME NEW c \in Clients, NEW t \in Threads, Present(c, t)
      PROVE  Next
  <2>1. client[c].proof \in Blocks /\ client[c].offer \in Requests
    BY <1>2 DEF Present, ClientInv, ExchangeInv
  <2> QED BY <1>2, <2>1 DEF Present, Next
<1>3. ASSUME NEW t \in Threads, Handler(t) \/ RespondNothing(t)
      PROVE  Next
  BY <1>3 DEF Handler, RespondNothing, Work, RespondRefused, RespondSpent,
     RespondServed, Next, Step
<1>4. ASSUME NEW b \in Blocks, ConfirmLate(b) PROVE Next
  BY <1>4 DEF ConfirmLate, Next
<1>5. ASSUME NEW c \in Clients, Ask(c) \/ HangUp(c) PROVE UNCHANGED vars
  BY <1>5 DEF Ask, HangUp
<1> QED BY <1>1, <1>2, <1>3, <1>4, <1>5 DEF ClientNext, Pay, PayRaises, allVars

\* Whoever listens to a thread owns the block it works on.
LEMMA ListenerOwns ==
    ASSUME ClientInv, NEW c \in Clients, NEW t \in Threads, Listening(c, t)
    PROVE  /\ pc[t] # "idle" /\ job[t].proof = client[c].proof
           /\ job[t].proof \in Blocks /\ Owner[job[t].proof] = c
           /\ job[t].request = client[c].offer
BY DEF ClientInv, HandlerWorks, ExchangeInv, Listening

\* The call of a thread that is at work.
LEMMA AtWork ==
    ASSUME IInv, ClientInv, NEW t \in Threads, pc[t] # "idle"
    PROVE  /\ job[t] \in Jobs /\ job[t].proof \in Blocks /\ job[t].request \in Requests
           /\ job[t].payTo = job[t].request /\ job[t].via = "resource"
           /\ job[t].exact = TRUE
           /\ Owner[job[t].proof] \in Clients
<1>1. job[t] \in Jobs
  BY DEF IInv, TypeOK, JobInv
<1>2. job[t].via = "resource"
  BY DEF ClientInv, ExchangeInv
<1> QED BY <1>1, <1>2, OwnerAssumption DEF IInv, JobInv, Jobs

\* A handler that ends: do_GET responds to whoever listens still, or the
\* connection drops, and no claim is made.
LEMMA AnswerKeeps ==
    ASSUME IInv, ClientInv, NEW t \in Threads, pc[t] # "idle",
           NEW a \in Resting, Finish(t), Respond(t, a),
           UNCHANGED <<chain, claimed>>,
           got' \in SUBSET Blocks, \A b \in got' : served'[b] > 0,
           a \in {"spent", "error"} => Owner[job[t].proof] \notin SteadyClients,
           a = "refused" => pc[t] # "serve"
    PROVE  ClientInv'
<1> USE DEF ClientInv
<1>1. client' = [c \in Clients |->
                   IF Listening(c, t)
                     THEN [client[c] EXCEPT !.stage = a, !.handler = None]
                     ELSE client[c]]
  BY DEF Respond
<1>2. \A c \in Clients : Listening(c, t) =>
         client'[c] = [client[c] EXCEPT !.stage = a, !.handler = None]
  BY <1>1
<1>3. \A c \in Clients : ~Listening(c, t) => client'[c] = client[c]
  BY <1>1
<1>4. /\ pc'[t] = "idle"
      /\ \A u \in Threads : u # t => pc'[u] = pc[u] /\ job'[u] = job[u]
  BY DEF Finish, IInv, TypeOK
<1>5. ClientTypeOK'
  <2>1. \A k \in ClientCalls : [k EXCEPT !.stage = a, !.handler = None] \in ClientCalls
    BY DEF ClientCalls
  <2>2. \A c \in Clients : client'[c] \in ClientCalls
    BY <1>2, <1>3, <2>1 DEF ClientTypeOK
  <2> QED BY <1>1, <2>2 DEF ClientTypeOK
<1>6. \A c \in Clients : client[c] \in ClientCalls
  BY DEF ClientTypeOK
<1>7. \A c \in Clients : Listening(c, t) =>
        /\ client'[c].stage = a /\ client'[c].handler = None
        /\ client'[c].offer = client[c].offer /\ client'[c].proof = client[c].proof
  BY <1>2, <1>6 DEF ClientCalls
<1>8. a # "waiting"
  BY DEF Resting
<1>9. HandlerWorks'
  BY <1>3, <1>4, <1>7, <1>8 DEF HandlerWorks, Listening
<1>10. \A c \in Clients : Listening(c, t) => c = Owner[job[t].proof]
  BY ListenerOwns
<1>11. SpentOnlyIfCutOff'
  BY <1>3, <1>7, <1>10, ClientsAssumption DEF SpentOnlyIfCutOff
<1>12. ExchangeInv'
  BY <1>3, <1>4, <1>7, <1>8 DEF ExchangeInv, Resting, Listening
<1>13. SteadyInv'
  <2>1. ASSUME NEW u \in Threads, pc'[u] # "idle", Owner[job'[u].proof] \in SteadyClients
        PROVE  /\ u \in Steady
               /\ Listening(Owner[job[u].proof], u)'
               /\ pc'[u] # "serve" => ~Taken(job[u].proof)'
    <3>1. u # t /\ pc[u] # "idle" /\ job'[u] = job[u]
      BY <2>1, <1>4
    <3>2. /\ u \in Steady /\ Listening(Owner[job[u].proof], u)
          /\ pc[u] # "serve" => ~Taken(job[u].proof)
      BY <2>1, <3>1 DEF SteadyInv
    <3>3. Owner[job[u].proof] \in Clients /\ ~Listening(Owner[job[u].proof], t)
      BY <3>1, <3>2, <2>1, ClientsAssumption DEF Listening
    <3> QED BY <1>3, <1>4, <3>1, <3>2, <3>3 DEF Listening, Taken
  <2>2. ASSUME NEW c \in SteadyClients
        PROVE  /\ client'[c].stage # "error"
               /\ client'[c].stage \in {"paid", "refused"} => ~Taken(client[c].proof)'
    <3>1. CASE Listening(c, t)
      <4>1. pc[t] # "idle" /\ job[t].proof = client[c].proof /\ Owner[job[t].proof] = c
        BY <3>1, ClientsAssumption, ListenerOwns
      <4>2. pc[t] # "serve" => ~Taken(client[c].proof)
        BY <4>1 DEF SteadyInv
      <4> QED BY <3>1, <4>1, <4>2, <1>7, ClientsAssumption DEF Taken, Resting
    <3>2. CASE ~Listening(c, t)
      BY <3>2, <1>3, ClientsAssumption DEF SteadyInv, Taken
    <3> QED BY <3>1, <3>2
  <2> QED BY <2>1, <2>2 DEF SteadyInv
<1> QED BY <1>5, <1>9, <1>11, <1>12, <1>13


\* An offer is for a request, and replaces what the client had.
LEMMA AskKeeps ==
    ASSUME IInv, ClientInv, NEW c \in Clients, Ask(c)
    PROVE  ClientInv'
<1> USE DEF ClientInv
<1> DEFINE q == CHOOSE r \in Requests : Fresh(r)
           new == [NoClientCall EXCEPT !.stage = "offered", !.offer = q]
<1>1. q \in Requests /\ client' = [client EXCEPT ![c] = new]
  BY DEF Ask
<1>2. /\ client'[c].stage = "offered" /\ client'[c].offer \in Requests
      /\ client'[c].proof = None /\ client'[c] \in ClientCalls
      /\ \A d \in Clients : d # c => client'[d] = client[d]
  <2> HIDE DEF q
  <2>1. client'[c] = new
    BY <1>1 DEF ClientTypeOK
  <2> QED BY <1>1, <2>1 DEF ClientTypeOK, NoClientCall, ClientCalls
<1> HIDE DEF q, new
<1>3. UNCHANGED <<chain, confirmed, pc, job, next, failures, claimed, wins, served, got>>
  BY DEF Ask, vars
<1>4. ClientTypeOK'
  BY <1>1, <1>2, <1>3 DEF ClientTypeOK
<1>5. client[c].stage # "waiting" /\ (c \in SteadyClients => client[c].stage # "refused")
  BY DEF Ask, Resting
<1>6. HandlerWorks'
  BY <1>2, <1>3, <1>5 DEF HandlerWorks, Listening
<1>7. SpentOnlyIfCutOff'
  BY <1>2, ClientsAssumption DEF SpentOnlyIfCutOff
<1>8. ExchangeInv'
  BY <1>2, <1>3 DEF ExchangeInv
<1>9. SteadyInv'
  <2>1. \A d \in Clients, u \in Threads : Listening(d, u) => Listening(d, u)'
    BY <1>2, <1>5 DEF Listening
  <2>2. \A b : Taken(b)' <=> Taken(b)
    BY <1>3 DEF Taken
  <2>3. \A d \in SteadyClients :
           /\ client'[d].stage # "error"
           /\ client'[d].stage \in {"paid", "refused"} => ~Taken(client'[d].proof)
    BY <1>2, ClientsAssumption DEF SteadyInv
  <2> QED BY <1>3, <2>1, <2>2, <2>3, ClientsAssumption DEF SteadyInv, Taken
<1> QED BY <1>4, <1>6, <1>7, <1>8, <1>9

\* The block published is new: nobody has claimed it or works on it.
LEMMA SendKeeps ==
    ASSUME IInv, ClientInv, NEW c \in Clients, NEW b \in Blocks,
           Pay(c, b) \/ PayRaises(c, b)
    PROVE  ClientInv'
<1> USE DEF ClientInv
<1>1. /\ client[c].stage = "offered" /\ Owner[b] = c
      /\ chain[b] = None
      /\ chain' = [chain EXCEPT ![b] = [to |-> client[c].offer, exact |-> TRUE]]
      /\ UNCHANGED <<confirmed, pc, job, claimed, wins, served, got>>
  BY DEF Pay, PayRaises, Send, Publish, claims
<1>2. client[c] \in ClientCalls
  BY DEF ClientTypeOK
<1>3. /\ client'[c].offer = client[c].offer
      /\ \/ client'[c].stage = "paid" /\ client'[c].proof = b
         \/ /\ client'[c].stage = "error" /\ client'[c].proof = client[c].proof
            /\ c \notin SteadyClients
      /\ \A d \in Clients : d # c => client'[d] = client[d]
  BY <1>2 DEF Pay, PayRaises, ClientTypeOK, ClientCalls
<1>4. ClientTypeOK'
  BY <1>1, <1>2 DEF ClientTypeOK, ClientCalls, Pay, PayRaises, Resting
<1>5. HandlerWorks'
  BY <1>1, <1>3 DEF HandlerWorks, Listening
<1>6. SpentOnlyIfCutOff'
  BY <1>3, ClientsAssumption DEF SpentOnlyIfCutOff
<1>7. ~Taken(b)
  <2> SUFFICES ASSUME NEW r \in Requests, <<b, r>> \in claimed PROVE FALSE
    BY DEF Taken
  <2>1. chain[b] = [to |-> r, exact |-> TRUE]
    BY DEF ExchangeInv
  <2>2. chain[b] \in Contents
    BY <2>1 DEF Contents, Payees
  <2> QED BY <1>1, <2>2, NoneAssumption
<1>8. ExchangeInv'
  <2>1. \A d \in Blocks : d # b => chain'[d] = chain[d]
    BY <1>1 DEF IInv, TypeOK
  <2>2. \A d \in Blocks, r \in Requests :
          <<d, r>> \in claimed' => chain'[d] = [to |-> r, exact |-> TRUE]
    BY <1>1, <1>7, <2>1 DEF ExchangeInv, Taken
  <2>3. client[c].offer \in Requests
    BY <1>1 DEF ExchangeInv
  <2> QED BY <1>1, <1>3, <2>2, <2>3 DEF ExchangeInv
<1>9. SteadyInv'
  BY <1>1, <1>3, <1>7, ClientsAssumption, OwnerAssumption DEF SteadyInv, Listening, Taken
<1> QED BY <1>4, <1>5, <1>6, <1>8, <1>9

\* The proof goes to an idle handler, which nobody listens to.
LEMMA PresentKeeps ==
    ASSUME IInv, ClientInv, NEW c \in Clients, NEW t \in Threads, Present(c, t)
    PROVE  ClientInv'
<1> USE DEF ClientInv
<1> DEFINE j == [proof |-> client[c].proof, payTo |-> client[c].offer,
                 request |-> client[c].offer, exact |-> TRUE, via |-> "resource"]
<1>1. /\ client[c].stage \in {"paid", "refused", "spent", "error"}
      /\ client[c].proof # None /\ Handles(t, c)
      /\ pc[t] = "idle"
      /\ pc' = [pc EXCEPT ![t] = "verify"] /\ job' = [job EXCEPT ![t] = j]
      /\ UNCHANGED <<chain, confirmed, claimed, wins, served, got>>
  BY DEF Present, Complete, Begin, network, claims
<1>2. client' = [client EXCEPT ![c].stage = "waiting", ![c].handler = t]
  BY DEF Present
<1>3. client[c] \in ClientCalls
  BY DEF ClientTypeOK
<1>4. /\ client'[c].stage = "waiting" /\ client'[c].handler = t
      /\ client'[c].offer = client[c].offer /\ client'[c].proof = client[c].proof
      /\ \A d \in Clients : d # c => client'[d] = client[d]
  BY <1>2, <1>3 DEF ClientTypeOK, ClientCalls
<1>5. /\ pc'[t] = "verify" /\ job'[t] = j
      /\ \A u \in Threads : u # t => pc'[u] = pc[u] /\ job'[u] = job[u]
  BY <1>1 DEF IInv, TypeOK
<1>6. /\ client[c].proof \in Blocks /\ client[c].offer \in Requests
      /\ Owner[client[c].proof] = c
  BY <1>1 DEF ExchangeInv
<1>7. ClientTypeOK'
  BY <1>1, <1>2, <1>3 DEF ClientTypeOK, ClientCalls
<1>8. \A d \in Clients : ~Listening(d, t)
  BY <1>1 DEF HandlerWorks, Listening
<1>9. HandlerWorks'
  <2>1. ASSUME NEW d \in Clients, client'[d].stage = "waiting",
               NEW u, u = client'[d].handler
        PROVE  /\ u \in Threads /\ pc'[u] # "idle"
               /\ job'[u].proof = client'[d].proof
               /\ job'[u].request = client'[d].offer
               /\ \A e \in Clients \ {d} : ~Listening(e, u)'
    <3>1. CASE d = c
      BY <3>1, <2>1, <1>4, <1>5, <1>8 DEF Listening
    <3>2. CASE d # c
      <4>1. client[d].stage = "waiting" /\ u = client[d].handler /\ u # t
        BY <3>2, <2>1, <1>4, <1>8 DEF Listening
      <4>2. u \in Threads /\ pc'[u] = pc[u] /\ job'[u] = job[u]
        BY <4>1, <1>5 DEF HandlerWorks
      <4> QED BY <3>2, <4>1, <4>2, <1>4 DEF HandlerWorks, Listening
    <3> QED BY <3>1, <3>2
  <2> QED BY <2>1 DEF HandlerWorks
<1>10. SpentOnlyIfCutOff'
  BY <1>4, ClientsAssumption DEF SpentOnlyIfCutOff
<1>11. ExchangeInv'
  BY <1>1, <1>4, <1>5, <1>6 DEF ExchangeInv
<1>12. SteadyInv'
  <2>1. \A d \in Clients, u \in Threads : u # t /\ Listening(d, u) => Listening(d, u)'
    BY <1>1, <1>4 DEF Listening
  <2>2. c \in SteadyClients => t \in Steady /\ ~Taken(client[c].proof)
    BY <1>1 DEF Handles, SteadyInv, SpentOnlyIfCutOff
  <2>3. Listening(c, t)'
    BY <1>4 DEF Listening
  <2>4. \A b : Taken(b)' <=> Taken(b)
    BY <1>1 DEF Taken
  <2>5. ASSUME NEW u \in Threads, pc'[u] # "idle", Owner[job'[u].proof] \in SteadyClients
        PROVE  /\ u \in Steady
               /\ Listening(Owner[job[u].proof], u)'
               /\ pc'[u] # "serve" => ~Taken(job'[u].proof)
    <3>1. CASE u = t
      BY <3>1, <2>5, <1>5, <1>6, <2>2, <2>3
    <3>2. CASE u # t
      BY <3>2, <2>5, <1>5, <2>1, ClientsAssumption DEF SteadyInv
    <3> QED BY <3>1, <3>2
  <2>6. \A d \in SteadyClients :
           /\ client'[d].stage # "error"
           /\ client'[d].stage \in {"paid", "refused"} => ~Taken(client'[d].proof)
    BY <1>4, ClientsAssumption DEF SteadyInv
  <2> QED BY <2>4, <2>5, <2>6 DEF SteadyInv, Taken
<1> QED BY <1>7, <1>9, <1>10, <1>11, <1>12

\* Only a client that may be cut off stops listening.
LEMMA HangUpKeeps ==
    ASSUME IInv, ClientInv, NEW c \in Clients, HangUp(c)
    PROVE  ClientInv'
<1> USE DEF ClientInv
<1>1. /\ c \notin SteadyClients /\ client[c].stage = "waiting"
      /\ UNCHANGED <<chain, confirmed, pc, job, next, failures, claimed, wins,
                     served, got>>
  BY DEF HangUp, vars
<1>2. client[c] \in ClientCalls
  BY DEF ClientTypeOK
<1>3. /\ client'[c].stage = "error" /\ client'[c].handler = None
      /\ client'[c].offer = client[c].offer /\ client'[c].proof = client[c].proof
      /\ \A d \in Clients : d # c => client'[d] = client[d]
  BY <1>2 DEF HangUp, ClientTypeOK, ClientCalls
<1>4. ClientTypeOK'
  BY <1>1, <1>2 DEF ClientTypeOK, ClientCalls, HangUp, Resting
<1>5. HandlerWorks'
  BY <1>1, <1>3 DEF HandlerWorks, Listening
<1>6. SpentOnlyIfCutOff'
  BY <1>1, <1>3, ClientsAssumption DEF SpentOnlyIfCutOff
<1>7. ExchangeInv'
  BY <1>1, <1>3 DEF ExchangeInv
<1>8. SteadyInv'
  BY <1>1, <1>3, ClientsAssumption, OwnerAssumption DEF SteadyInv, Listening, Taken
<1> QED BY <1>4, <1>5, <1>6, <1>7, <1>8

\* A handler that goes on with its round, or has settled it.
LEMMA RoundKeeps ==
    ASSUME IInv, ClientInv, NEW t \in Threads,
           \/ AskYes(t) \/ AskNo(t) \/ EndVerify(t) \/ EndSettleCheck(t),
           UNCHANGED clientVars
    PROVE  ClientInv'
<1> USE DEF ClientInv
<1>1. /\ UNCHANGED <<chain, job, claimed, served, client, got>>
      /\ \A u \in Threads : (pc'[u] = "idle" <=> pc[u] = "idle")
                            /\ (pc[u] = "serve" <=> pc'[u] = "serve")
  BY DEF AskYes, AskNo, EndVerify, EndSettleCheck, clientVars, network, claims,
     IInv, TypeOK
<1> QED BY <1>1 DEF ClientTypeOK, HandlerWorks, SpentOnlyIfCutOff, ExchangeInv,
           SteadyInv, Listening, Taken

\* A block that is claimed was paid to the request it is claimed for, and
\* nobody else handles it if its owner is steady.
LEMMA ClaimKeepsClients ==
    ASSUME IInv, ClientInv, NEW t \in Threads, Claim(t), UNCHANGED clientVars
    PROVE  ClientInv'
<1> USE DEF ClientInv
<1>1. /\ pc[t] = "claim" /\ job[t] \in Jobs
      /\ job[t].via = "resource" /\ job[t].payTo = job[t].request
      /\ job[t].exact = TRUE
      /\ job[t].proof \in Blocks
  BY AtWork DEF Claim
<1>2. /\ claimed' = claimed \cup {Binding(t)}
      /\ pc' = [pc EXCEPT ![t] = "serve"]
      /\ UNCHANGED <<chain, confirmed, job, served, client, got>>
  BY <1>1 DEF Claim, Store!Win, network, clientVars
<1>3. chain[job[t].proof] = [to |-> job[t].request, exact |-> TRUE]
  BY <1>1 DEF IInv, SettledIsPaid, Pays
<1>4. ClientTypeOK' /\ SpentOnlyIfCutOff'
  BY <1>2 DEF ClientTypeOK, SpentOnlyIfCutOff
<1>5. HandlerWorks'
  BY <1>1, <1>2 DEF HandlerWorks, Listening, IInv, TypeOK
<1>6. ExchangeInv'
  BY <1>1, <1>2, <1>3 DEF ExchangeInv, Binding, IInv, TypeOK
<1>7. \A b : b # job[t].proof => (Taken(b)' <=> Taken(b))
  BY <1>2 DEF Taken, Binding
<1>8. SteadyInv'
  <2>1. ASSUME NEW u \in Threads, u # t, pc[u] # "idle",
               Owner[job[u].proof] \in SteadyClients
        PROVE  job[u].proof # job[t].proof
    BY <2>1, <1>1 DEF SteadyInv, Listening
  <2>2. ASSUME NEW c \in SteadyClients, client[c].stage \in {"paid", "refused"},
               client[c].proof = job[t].proof
        PROVE  FALSE
    <3>1. Owner[job[t].proof] = c
      BY <2>2, ClientsAssumption DEF ExchangeInv
    <3> QED BY <2>2, <3>1, <1>1 DEF SteadyInv, Listening
  <2> QED BY <1>1, <1>2, <1>7, <2>1, <2>2 DEF SteadyInv, Listening, IInv, TypeOK
<1> QED BY <1>4, <1>5, <1>6, <1>8


\* A handler that answers, in each of the ways of do_GET.
LEMMA RespondKeeps ==
    ASSUME IInv, ClientInv, NEW t \in Threads,
           \/ RespondRefused(t) \/ RespondSpent(t) \/ RespondServed(t)
           \/ RespondNothing(t)
    PROVE  ClientInv'
<1>1. /\ \A b \in got : served[b] > 0
      /\ got \in SUBSET Blocks
  BY DEF ClientInv, ExchangeInv, ClientTypeOK
<1>2. CASE RespondRefused(t)
  <2>1. /\ pc[t] \in {"verify", "settle"} /\ Finish(t) /\ Respond(t, "refused")
        /\ UNCHANGED <<chain, claimed, served, got>>
    BY <1>2 DEF RespondRefused, Refuse, network, claims
  <2> QED BY <1>1, <2>1, AnswerKeeps DEF Resting
<1>3. CASE RespondSpent(t)
  <2>1. /\ pc[t] = "claim" /\ Finish(t) /\ Respond(t, "spent")
        /\ Binding(t) \in claimed /\ UNCHANGED <<chain, claimed, served, got>>
    BY <1>3 DEF RespondSpent, Duplicate, network, claims
  <2>2. Taken(job[t].proof)
    BY <2>1, AtWork DEF Taken, Binding
  <2>3. Owner[job[t].proof] \notin SteadyClients
    BY <2>1, <2>2 DEF ClientInv, SteadyInv
  <2> QED BY <1>1, <2>1, <2>3, AnswerKeeps DEF Resting
<1>4. CASE RespondServed(t)
  <2>1. /\ pc[t] = "serve" /\ Finish(t) /\ Respond(t, "served")
        /\ UNCHANGED <<chain, claimed>>
        /\ served' = [served EXCEPT ![job[t].proof] = @ + 1]
        /\ got' \subseteq got \cup {job[t].proof}
    BY <1>4 DEF RespondServed, Serve, network, claims
  <2>2. job[t].proof \in Blocks
    BY <2>1, AtWork
  <2>3. served \in [Blocks -> Nat]
    BY DEF IInv, TypeOK
  <2>4. \A b \in got' : served'[b] > 0
    BY <1>1, <2>1, <2>2, <2>3
  <2> QED BY <1>1, <2>1, <2>2, <2>4, AnswerKeeps DEF Resting
<1>5. CASE RespondNothing(t)
  <2>1. /\ pc[t] # "idle" /\ t \notin Steady /\ Finish(t) /\ Respond(t, "error")
        /\ UNCHANGED <<chain, claimed, served, got>>
    BY <1>5 DEF RespondNothing, ClaimRaises, ServeFails, Die, network, claims
  <2>2. Owner[job[t].proof] \notin SteadyClients
    BY <2>1 DEF ClientInv, SteadyInv
  <2> QED BY <1>1, <2>1, <2>2, AnswerKeeps DEF Resting
<1> QED BY <1>2, <1>3, <1>4, <1>5

\* What ClientInv speaks of: a step elsewhere keeps it.
LEMMA Unmoved ==
    ASSUME ClientInv, UNCHANGED <<chain, pc, job, claimed, served, client, got>>
    PROVE  ClientInv'
<1>1. (ClientTypeOK /\ HandlerWorks /\ SpentOnlyIfCutOff)'
  BY DEF ClientInv, ClientTypeOK, HandlerWorks, SpentOnlyIfCutOff, Listening
<1>2. ExchangeInv'
  BY DEF ClientInv, ExchangeInv
<1>3. SteadyInv'
  BY DEF ClientInv, SteadyInv, Listening, Taken
<1> QED BY <1>1, <1>2, <1>3 DEF ClientInv

\* No step breaks the invariant of the exchange.
LEMMA ClientStep ==
    ASSUME IInv, ClientInv, [ClientNext]_allVars
    PROVE  ClientInv'
<1>1. ASSUME NEW b \in Blocks, ConfirmLate(b) PROVE ClientInv'
  <2>1. UNCHANGED <<chain, pc, job, claimed, served, client, got>>
    BY <1>1 DEF ConfirmLate, Confirm, clientVars, claims
  <2> QED BY <2>1, Unmoved
<1>2. CASE UNCHANGED allVars
  <2>1. UNCHANGED <<chain, pc, job, claimed, served, client, got>>
    BY <1>2 DEF allVars, vars, clientVars
  <2> QED BY <2>1, Unmoved
<1>3. ASSUME NEW t \in Threads, Work(t) PROVE ClientInv'
  BY <1>3, RoundKeeps, ClaimKeepsClients DEF Work
<1> QED BY <1>1, <1>2, <1>3, AskKeeps, SendKeeps, PresentKeeps, HangUpKeeps,
       RespondKeeps DEF ClientNext, Handler

\* The invariant of the exchange, with the one of the handshake under it: whoever
\* waits is worked for, and nobody steady is told that a payment is spent (do_GET
\* over complete).
THEOREM ExchangeInvariance ==
    ASSUME Truthful
    PROVE  ClientSpec => [](IInv /\ ClientInv)
<1>1. ClientInit => IInv /\ ClientInv
  <2> SUFFICES ASSUME ClientInit PROVE IInv /\ ClientInv
    OBVIOUS
  <2>1. IInv
    BY InitHolds DEF ClientInit
  <2>2. ClientInv
    BY ClientsAssumption
    DEF ClientInit, Init, Store!Init, NoClientCall, ClientCalls, Resting, ClientInv,
       ClientTypeOK, HandlerWorks, SpentOnlyIfCutOff, ExchangeInv, SteadyInv,
       Listening, Taken
  <2> QED BY <2>1, <2>2
<1>2. IInv /\ ClientInv /\ [ClientNext]_allVars => IInv' /\ ClientInv'
  BY ServerStep, IInvStep, ClientStep
<1> QED BY <1>1, <1>2, PTL DEF ClientSpec, allVars

-----------------------------------------------------------------------------
(* PayingClient implements Purchase.                                        *)

FateMap == [b \in Blocks |-> Fate(b)]

\* What each fate means, of a payment in a state of the exchange.
FateTable ==
    \A b \in Blocks :
      /\ chain[b] = None => Fate(b) = "none"
      /\ chain[b] # None /\ ~Taken(b) => Fate(b) = "paid"
      /\ b \in got => Fate(b) = "delivered"
      /\ Taken(b) /\ b \notin got /\ UnderWay(b) => Fate(b) = "taken"
      /\ Taken(b) /\ b \notin got /\ ~UnderWay(b) => Fate(b) = "lost"

\* What is taken was published, and what was received is taken.
LEMMA FatesInOrder ==
    ASSUME IInv, ClientInv, NEW b \in Blocks
    PROVE  /\ Taken(b) => chain[b] # None
           /\ b \in got => Taken(b)
<1>1. Taken(b) => chain[b] # None
  <2> SUFFICES ASSUME NEW r \in Requests, <<b, r>> \in claimed PROVE chain[b] # None
    BY DEF Taken
  <2>1. chain[b] = [to |-> r, exact |-> TRUE]
    BY DEF ClientInv, ExchangeInv
  <2>2. chain[b] \in Contents
    BY <2>1 DEF Contents, Payees
  <2> QED BY <2>2, NoneAssumption
<1>2. b \in got => Taken(b)
  <2> SUFFICES ASSUME b \in got PROVE Taken(b)
    OBVIOUS
  <2>1. served[b] > 0
    BY DEF ClientInv, ExchangeInv
  <2>2. <<b, chain[b].to>> \in claimed
    BY <2>1 DEF IInv, ServedIsSpent
  <2>3. claimed \in SUBSET (Blocks \X Requests)
    BY DEF IInv, TypeOK, Bindings
  <2> QED BY <2>2, <2>3 DEF Taken
<1> QED BY <1>1, <1>2

LEMMA FateMeans == IInv /\ ClientInv => FateTable
BY FatesInOrder DEF FateTable, Fate

\* A block about which nothing changes keeps its fate.
LEMMA SameFate ==
    ASSUME NEW b \in Blocks, chain'[b] = chain[b], Taken(b)' <=> Taken(b),
           b \in got' <=> b \in got, UnderWay(b)' <=> UnderWay(b)
    PROVE  Fate(b)' = Fate(b)
BY DEF Fate

\* A step that changes the fate of one block.
LEMMA OneFate ==
    ASSUME NEW b \in Blocks, \A d \in Blocks : d # b => Fate(d)' = Fate(d)
    PROVE  FateMap' = [FateMap EXCEPT ![b] = Fate(b)']
BY DEF FateMap

LEMMA NoFate ==
    ASSUME \A d \in Blocks : Fate(d)' = Fate(d)
    PROVE  FateMap' = FateMap
BY DEF FateMap


\* Serving a client that listens.
Delivers(c, t) == pc[t] = "serve" /\ Listening(c, t)

\* A step that publishes, claims and delivers nothing.
LEMMA Undisturbed ==
    ASSUME UNCHANGED <<chain, claimed, got>>,
           \A t \in Threads, c \in Clients : Delivers(c, t)' <=> Delivers(c, t),
           \A t \in Threads : pc[t] = "serve" => job'[t] = job[t]
    PROVE  UNCHANGED FateMap
<1> SUFFICES ASSUME NEW b \in Blocks PROVE Fate(b)' = Fate(b)
  BY NoFate
<1>1. UnderWay(b)' <=> UnderWay(b)
  BY DEF UnderWay, Delivers
<1>2. Taken(b)' <=> Taken(b)
  BY DEF Taken
<1> QED BY <1>1, <1>2, SameFate

\* A handler that ends takes its listener, and no other, with it.
LEMMA Unheard ==
    ASSUME IInv, ClientInv, NEW t \in Threads, NEW a \in Resting, Finish(t), Respond(t, a)
    PROVE  /\ \A u \in Threads, c \in Clients :
                Delivers(c, u)' <=> Delivers(c, u) /\ u # t
           /\ \A u \in Threads : u # t => pc'[u] = pc[u] /\ job'[u] = job[u]
<1>1. /\ pc'[t] = "idle"
      /\ \A u \in Threads : u # t => pc'[u] = pc[u] /\ job'[u] = job[u]
  BY DEF Finish, IInv, TypeOK
<1>2. \A c \in Clients : ~Listening(c, t) => client'[c] = client[c]
  BY DEF Respond
<1>3. \A c \in Clients : Listening(c, t) => client'[c].stage = a
  BY DEF Respond, ClientInv, ClientTypeOK, ClientCalls
<1>4. a # "waiting"
  BY DEF Resting
<1> QED BY <1>1, <1>2, <1>3, <1>4 DEF Delivers, Listening

\* Whoever serves a block holds its claim, and is alone with it.
LEMMA Server ==
    ASSUME IInv, ClientInv, NEW t \in Threads, pc[t] = "serve"
    PROVE  /\ job[t].proof \in Blocks /\ Taken(job[t].proof)
           /\ job[t].proof \notin got
           /\ \A u \in Threads : pc[u] = "serve" /\ job[u].proof = job[t].proof => u = t
<1>1. job[t].proof \in Blocks /\ job[t].request \in Requests
  BY AtWork
<1>2. Binding(t) \in claimed /\ served[job[t].proof] = 0
  BY DEF IInv, ServeInv
<1>3. job[t].proof \notin got
  BY <1>2 DEF ClientInv, ExchangeInv
<1>4. \A u \in Threads : pc[u] = "serve" /\ job[u].proof = job[t].proof => u = t
  BY DEF IInv, ServeInv
<1> QED BY <1>1, <1>2, <1>3, <1>4 DEF Taken, Binding

\* A payment is published.
LEMMA PayMaps ==
    ASSUME IInv, ClientInv, IInv', ClientInv', FateTable, FateTable',
           NEW c \in Clients, NEW b \in Blocks, Pay(c, b) \/ PayRaises(c, b)
    PROVE  Exchange!Pay(b)
<1>1. /\ client[c].stage = "offered" /\ client[c].offer \in Requests
      /\ chain[b] = None
      /\ chain' = [chain EXCEPT ![b] = [to |-> client[c].offer, exact |-> TRUE]]
      /\ UNCHANGED <<pc, job, claimed, got>>
  BY DEF Pay, PayRaises, Send, Publish, claims, ClientInv, ExchangeInv
<1>2. /\ client'[c].stage \in {"paid", "error"}
      /\ \A d \in Clients : d # c => client'[d] = client[d]
  BY DEF Pay, PayRaises, ClientInv, ClientTypeOK, ClientCalls
<1>3. chain'[b] # None /\ \A d \in Blocks : d # b => chain'[d] = chain[d]
  <2>1. [to |-> client[c].offer, exact |-> TRUE] \in Contents
    BY <1>1 DEF Contents, Payees
  <2> QED BY <1>1, <2>1, NoneAssumption DEF IInv, TypeOK
<1>4. \A d \in Blocks : (Taken(d)' <=> Taken(d)) /\ (UnderWay(d)' <=> UnderWay(d))
  BY <1>1, <1>2 DEF Taken, UnderWay, Listening
<1>5. \A d \in Blocks : d # b => Fate(d)' = Fate(d)
  BY <1>1, <1>3, <1>4, SameFate
<1>6. ~Taken(b) /\ ~Taken(b)'
  BY <1>1, <1>4, FatesInOrder
<1>7. Fate(b) = "none" /\ Fate(b)' = "paid"
  BY <1>1, <1>3, <1>6 DEF FateTable
<1>8. FateMap' = [FateMap EXCEPT ![b] = Fate(b)']
  BY <1>5, OneFate
<1> QED BY <1>7, <1>8 DEF Exchange!Pay, Exchange!Becomes, FateMap

\* A payment is claimed: taken, or lost at once if nobody listens any more.
LEMMA ClaimMaps ==
    ASSUME IInv, ClientInv, FateTable, FateTable', ClientInv', IInv',
           NEW t \in Threads, Claim(t), UNCHANGED clientVars
    PROVE  \E b \in Blocks : Exchange!Take(b) \/ Exchange!Lose(b)
<1>1. PICK b \in Blocks : b = job[t].proof
  BY AtWork DEF Claim
<1>2. /\ pc[t] = "claim" /\ Binding(t) \notin claimed
      /\ job[t].via = "resource" /\ job[t].payTo = job[t].request
      /\ job[t].exact = TRUE
      /\ job[t].request \in Requests
  BY AtWork DEF Claim, Store!Win
<1>3. /\ claimed' = claimed \cup {Binding(t)}
      /\ pc'[t] = "serve" /\ \A u \in Threads : u # t => pc'[u] = pc[u]
      /\ UNCHANGED <<chain, job, got, client>>
  BY <1>2 DEF Claim, Store!Win, network, clientVars, IInv, TypeOK
<1>4. chain[b] = [to |-> job[t].request, exact |-> TRUE]
  BY <1>1, <1>2 DEF IInv, SettledIsPaid, Pays
<1>5. ~Taken(b) /\ b \notin got /\ Taken(b)'
  <2>1. \A r \in Requests : <<b, r>> \in claimed => r = job[t].request
    <3> SUFFICES ASSUME NEW r \in Requests, <<b, r>> \in claimed
                 PROVE  r = job[t].request
      OBVIOUS
    <3>1. chain[b] = [to |-> r, exact |-> TRUE]
      BY <1>1 DEF ClientInv, ExchangeInv
    <3> QED BY <3>1, <1>4
  <2>2. ~Taken(b)
    BY <1>1, <1>2, <2>1 DEF Taken, Binding
  <2> QED BY <1>1, <1>2, <1>3, <2>2, FatesInOrder DEF Taken, Binding
<1>6. chain[b] # None
  <2>1. chain[b] \in Contents
    BY <1>2, <1>4 DEF Contents, Payees
  <2> QED BY <2>1, NoneAssumption
<1>7. Fate(b) = "paid"
  BY <1>5, <1>6 DEF FateTable
<1>8. \A d \in Blocks : d # b => Fate(d)' = Fate(d)
  <2> SUFFICES ASSUME NEW d \in Blocks, d # b PROVE Fate(d)' = Fate(d)
    OBVIOUS
  <2>1. Taken(d)' <=> Taken(d)
    BY <1>1, <1>3 DEF Taken, Binding
  <2>2. UnderWay(d)' <=> UnderWay(d)
    BY <1>1, <1>2, <1>3 DEF UnderWay, Listening
  <2> QED BY <1>3, <2>1, <2>2, SameFate
<1>9. FateMap' = [FateMap EXCEPT ![b] = Fate(b)']
  BY <1>8, OneFate
<1>10. CASE UnderWay(b)'
  <2>1. Fate(b)' = "taken"
    BY <1>3, <1>5, <1>10 DEF FateTable
  <2> QED BY <1>7, <1>9, <2>1 DEF Exchange!Take, Exchange!Becomes, FateMap
<1>11. CASE ~UnderWay(b)'
  <2>1. Fate(b)' = "lost"
    BY <1>3, <1>5, <1>11 DEF FateTable
  <2>2. Owner[b] \notin SteadyClients
    <3>1. Owner[b] \in SteadyClients => Listening(Owner[b], t)
      BY <1>1, <1>2 DEF ClientInv, SteadyInv
    <3> QED BY <1>1, <1>3, <1>11, <3>1, ClientsAssumption DEF UnderWay, Listening
  <2> QED BY <1>7, <1>9, <2>1, <2>2 DEF Exchange!Lose, Exchange!Becomes, FateMap
<1> QED BY <1>10, <1>11

\* The fate of the block of one serving thread is decided: nobody else's is.
LEMMA ServingEnds ==
    ASSUME IInv, ClientInv, NEW t \in Threads, NEW b \in Blocks,
           pc[t] = "serve", b = job[t].proof, UNCHANGED <<chain, claimed>>,
           got' \subseteq got \cup {b}, got \subseteq got',
           \A u \in Threads, d \in Clients :
               u # t => (Delivers(d, u)' <=> Delivers(d, u)),
           \A u \in Threads : u # t => job'[u] = job[u],
           \A d \in Clients : ~Delivers(d, t)'
    PROVE  /\ FateMap' = [FateMap EXCEPT ![b] = Fate(b)']
           /\ Taken(b) /\ Taken(b)' /\ b \notin got /\ ~UnderWay(b)'
<1>1. /\ Taken(b) /\ b \notin got
      /\ \A u \in Threads : pc[u] = "serve" /\ job[u].proof = b => u = t
  BY Server
<1>2. \A d : Taken(d)' <=> Taken(d)
  BY DEF Taken
<1>3. ~UnderWay(b)'
  BY <1>1 DEF UnderWay, Delivers
<1>4. \A d \in Blocks : d # b => Fate(d)' = Fate(d)
  <2> SUFFICES ASSUME NEW d \in Blocks, d # b PROVE Fate(d)' = Fate(d)
    OBVIOUS
  <2>1. UnderWay(d)' <=> UnderWay(d)
    BY DEF UnderWay, Delivers
  <2> QED BY <1>2, <2>1, SameFate
<1> QED BY <1>1, <1>2, <1>3, <1>4, OneFate


\* The result is returned: delivered, unless its payer is gone.
LEMMA ServedMaps ==
    ASSUME IInv, ClientInv, IInv', ClientInv', FateTable, FateTable',
           NEW t \in Threads, RespondServed(t)
    PROVE  (\E b \in Blocks : Exchange!Deliver(b)) \/ UNCHANGED FateMap
<1>1. /\ pc[t] = "serve" /\ Finish(t) /\ Respond(t, "served")
      /\ UNCHANGED <<chain, claimed>>
      /\ got' = got \cup {job[t].proof : c \in {d \in Clients : Listening(d, t)}}
  BY DEF RespondServed, Serve, network, claims
<1>2. PICK b \in Blocks : b = job[t].proof
  BY <1>1, AtWork
<1>3. /\ \A u \in Threads, d \in Clients : Delivers(d, u)' <=> Delivers(d, u) /\ u # t
      /\ \A u \in Threads : u # t => pc'[u] = pc[u] /\ job'[u] = job[u]
  BY <1>1, Unheard DEF Resting
<1>4. /\ FateMap' = [FateMap EXCEPT ![b] = Fate(b)']
      /\ Taken(b) /\ Taken(b)' /\ b \notin got /\ ~UnderWay(b)'
  BY <1>1, <1>2, <1>3, ServingEnds
<1>5. CASE \E c \in Clients : Listening(c, t)
  <2>1. UnderWay(b) /\ b \in got'
    BY <1>1, <1>2, <1>5 DEF UnderWay
  <2>2. Fate(b) = "taken" /\ Fate(b)' = "delivered"
    BY <1>4, <2>1 DEF FateTable
  <2> QED BY <1>4, <2>2 DEF Exchange!Deliver, Exchange!Becomes, FateMap
<1>6. CASE ~\E c \in Clients : Listening(c, t)
  <2>1. ~UnderWay(b)
    BY <1>1, <1>2, <1>6, Server DEF UnderWay
  <2>2. got' = got
    BY <1>1, <1>6
  <2>3. Fate(b) = "lost" /\ Fate(b)' = "lost"
    BY <1>4, <2>1, <2>2 DEF FateTable
  <2> QED BY <1>4, <2>3 DEF FateMap
<1> QED BY <1>5, <1>6

\* A payment that is taken and not delivered is lost, and was not a steady
\* client's.
LEMMA LossMaps ==
    ASSUME IInv, ClientInv, IInv', ClientInv', FateTable, FateTable',
           NEW t \in Threads, NEW b \in Blocks, pc[t] = "serve", b = job[t].proof,
           Owner[b] \notin SteadyClients,
           FateMap' = [FateMap EXCEPT ![b] = Fate(b)'],
           Taken(b), Taken(b)', b \notin got, b \notin got', ~UnderWay(b)'
    PROVE  Exchange!Lose(b) \/ UNCHANGED FateMap
<1>1. Fate(b)' = "lost"
  BY DEF FateTable
<1>2. CASE UnderWay(b)
  <2>1. Fate(b) = "taken"
    BY <1>2 DEF FateTable
  <2> QED BY <1>1, <2>1 DEF Exchange!Lose, Exchange!Becomes, FateMap
<1>3. CASE ~UnderWay(b)
  <2>1. Fate(b) = "lost"
    BY <1>3 DEF FateTable
  <2> QED BY <1>1, <2>1 DEF FateMap
<1> QED BY <1>2, <1>3

\* A handler that dies, or raises, before its client has the result.
LEMMA NothingMaps ==
    ASSUME IInv, ClientInv, IInv', ClientInv', FateTable, FateTable',
           NEW t \in Threads, RespondNothing(t)
    PROVE  (\E b \in Blocks : Exchange!Lose(b)) \/ UNCHANGED FateMap
<1>1. /\ pc[t] # "idle" /\ t \notin Steady /\ Finish(t) /\ Respond(t, "error")
      /\ UNCHANGED <<chain, claimed, got>>
  BY DEF RespondNothing, ClaimRaises, ServeFails, Die, network, claims
<1>2. /\ \A u \in Threads, d \in Clients : Delivers(d, u)' <=> Delivers(d, u) /\ u # t
      /\ \A u \in Threads : u # t => pc'[u] = pc[u] /\ job'[u] = job[u]
  BY <1>1, Unheard DEF Resting
<1>3. CASE pc[t] = "serve"
  <2>1. PICK b \in Blocks : b = job[t].proof
    BY <1>1, AtWork
  <2>2. Owner[b] \notin SteadyClients
    BY <1>1, <2>1 DEF ClientInv, SteadyInv
  <2>3. /\ FateMap' = [FateMap EXCEPT ![b] = Fate(b)']
        /\ Taken(b) /\ Taken(b)' /\ b \notin got /\ ~UnderWay(b)'
    BY <1>1, <1>2, <1>3, <2>1, ServingEnds
  <2> QED BY <1>1, <1>3, <2>1, <2>2, <2>3, LossMaps
<1>4. CASE pc[t] # "serve"
  <2>1. \A u \in Threads, d \in Clients : Delivers(d, u)' <=> Delivers(d, u)
    BY <1>2, <1>4 DEF Delivers
  <2>2. \A u \in Threads : pc[u] = "serve" => job'[u] = job[u]
    BY <1>2, <1>4
  <2> QED BY <1>1, <2>1, <2>2, Undisturbed
<1> QED BY <1>3, <1>4

\* A client that is cut off from its handler.
LEMMA HangUpMaps ==
    ASSUME IInv, ClientInv, IInv', ClientInv', FateTable, FateTable',
           NEW c \in Clients, HangUp(c)
    PROVE  (\E b \in Blocks : Exchange!Lose(b)) \/ UNCHANGED FateMap
<1>1. /\ client[c].stage = "waiting" /\ c \notin SteadyClients
      /\ UNCHANGED <<chain, claimed, pc, job, got>>
  BY DEF HangUp, vars
<1>2. /\ client'[c].stage = "error"
      /\ \A d \in Clients : d # c => client'[d] = client[d]
  BY DEF HangUp, ClientInv, ClientTypeOK, ClientCalls
<1>3. PICK t \in Threads : t = client[c].handler
  BY <1>1 DEF ClientInv, HandlerWorks
<1>4. /\ Listening(c, t) /\ \A d \in Clients : d # c => ~Listening(d, t)
      /\ \A u \in Threads : u # t => ~Listening(c, u)
  BY <1>1, <1>3 DEF ClientInv, HandlerWorks, Listening
<1>5. \A u \in Threads, d \in Clients : Delivers(d, u)' <=> Delivers(d, u) /\ d # c
  BY <1>1, <1>2 DEF Delivers, Listening
<1>6. CASE pc[t] = "serve"
  <2>1. PICK b \in Blocks : b = job[t].proof /\ Owner[b] = c
    BY <1>4, ListenerOwns
  <2>2. /\ FateMap' = [FateMap EXCEPT ![b] = Fate(b)']
        /\ Taken(b) /\ Taken(b)' /\ b \notin got /\ ~UnderWay(b)'
    <3>1. \A u \in Threads, d \in Clients : u # t => (Delivers(d, u)' <=> Delivers(d, u))
      BY <1>4, <1>5 DEF Delivers
    <3>2. \A d \in Clients : ~Delivers(d, t)'
      BY <1>4, <1>5 DEF Delivers
    <3> QED BY <1>1, <1>6, <2>1, <3>1, <3>2, ServingEnds
  <2> QED BY <1>1, <1>6, <2>1, <2>2, LossMaps
<1>7. CASE pc[t] # "serve"
  <2>1. \A u \in Threads, d \in Clients : Delivers(d, u)' <=> Delivers(d, u)
    BY <1>4, <1>5, <1>7 DEF Delivers
  <2> QED BY <1>1, <2>1, Undisturbed
<1> QED BY <1>6, <1>7

\* The steps that decide nothing about any payment.
LEMMA OthersMap ==
    ASSUME IInv, ClientInv,
           \/ UNCHANGED allVars
           \/ \E b \in Blocks : ConfirmLate(b)
           \/ \E c \in Clients : Ask(c) \/ \E t \in Threads : Present(c, t)
           \/ \E t \in Threads :
                \/ (AskYes(t) \/ AskNo(t) \/ EndVerify(t) \/ EndSettleCheck(t))
                     /\ UNCHANGED clientVars
                \/ RespondRefused(t) \/ RespondSpent(t)
    PROVE  UNCHANGED FateMap
<1>1. ASSUME UNCHANGED allVars \/ \E b \in Blocks : ConfirmLate(b)
      PROVE  UNCHANGED FateMap
  BY <1>1, Undisturbed DEF allVars, vars, clientVars, ConfirmLate, Confirm, round,
     claims, Delivers, Listening
<1>2. ASSUME NEW c \in Clients, Ask(c) PROVE UNCHANGED FateMap
  <2>1. /\ client[c].stage # "waiting" /\ client'[c].stage # "waiting"
        /\ \A d \in Clients : d # c => client'[d] = client[d]
        /\ UNCHANGED <<chain, claimed, pc, job, got>>
    BY <1>2 DEF Ask, Resting, NoClientCall, ClientInv, ClientTypeOK, ClientCalls, vars
  <2> QED BY <2>1, Undisturbed DEF Delivers, Listening
<1>3. ASSUME NEW c \in Clients, NEW t \in Threads, Present(c, t)
      PROVE  UNCHANGED FateMap
  <2>1. /\ client[c].stage # "waiting" /\ client'[c].handler = t
        /\ \A d \in Clients : d # c => client'[d] = client[d]
        /\ pc[t] = "idle" /\ pc'[t] = "verify"
        /\ \A u \in Threads : u # t => pc'[u] = pc[u] /\ job'[u] = job[u]
        /\ UNCHANGED <<chain, claimed, got>>
    BY <1>3 DEF Present, Complete, Begin, network, claims, IInv, TypeOK, ClientInv,
       ClientTypeOK, ClientCalls
  <2> QED BY <2>1, Undisturbed DEF Delivers, Listening
<1>4. ASSUME NEW t \in Threads, UNCHANGED clientVars,
             AskYes(t) \/ AskNo(t) \/ EndVerify(t) \/ EndSettleCheck(t)
      PROVE  UNCHANGED FateMap
  <2>1. /\ UNCHANGED <<chain, job, claimed, client, got>>
        /\ \A u \in Threads : pc[u] = "serve" <=> pc'[u] = "serve"
    BY <1>4 DEF AskYes, AskNo, EndVerify, EndSettleCheck, clientVars, network, claims,
       IInv, TypeOK
  <2> QED BY <2>1, Undisturbed DEF Delivers, Listening
<1>5. ASSUME NEW t \in Threads, RespondRefused(t) \/ RespondSpent(t)
      PROVE  UNCHANGED FateMap
  <2>1. PICK a \in {"refused", "spent"} :
          /\ pc[t] # "serve" /\ Finish(t) /\ Respond(t, a)
          /\ UNCHANGED <<chain, claimed, got>>
    BY <1>5 DEF RespondRefused, RespondSpent, Refuse, Duplicate, network, claims
  <2>2. /\ \A u \in Threads, d \in Clients : Delivers(d, u)' <=> Delivers(d, u)
        /\ \A u \in Threads : u # t => job'[u] = job[u]
    BY <2>1, Unheard DEF Resting, Delivers
  <2> QED BY <2>1, <2>2, Undisturbed
<1> QED BY <1>1, <1>2, <1>3, <1>4, <1>5

\* Every step of the exchange is a step of Purchase, or none.
LEMMA PurchaseStep ==
    ASSUME IInv, ClientInv, IInv', ClientInv', FateTable, FateTable',
           [ClientNext]_allVars
    PROVE  [Exchange!Next]_FateMap
<1>1. ASSUME NEW t \in Threads, Handler(t) PROVE [Exchange!Next]_FateMap
  BY <1>1, OthersMap, ClaimMaps, ServedMaps DEF Handler, Work, Exchange!Next
<1>2. ASSUME NEW t \in Threads, RespondNothing(t) PROVE [Exchange!Next]_FateMap
  BY <1>2, NothingMaps DEF Exchange!Next
<1>3. ASSUME NEW c \in Clients, NEW b \in Blocks, Pay(c, b) \/ PayRaises(c, b)
      PROVE  [Exchange!Next]_FateMap
  BY <1>3, PayMaps DEF Exchange!Next
<1>4. ASSUME NEW c \in Clients,
             Ask(c) \/ HangUp(c) \/ \E t \in Threads : Present(c, t)
      PROVE  [Exchange!Next]_FateMap
  BY <1>4, OthersMap, HangUpMaps DEF Exchange!Next
<1>5. ASSUME (\E b \in Blocks : ConfirmLate(b)) \/ UNCHANGED allVars
      PROVE  [Exchange!Next]_FateMap
  BY <1>5, OthersMap
<1> QED BY <1>1, <1>2, <1>3, <1>4, <1>5 DEF ClientNext

\* The exchange implements Purchase, for any number of clients, handlers, blocks
\* and requests: a payment is taken once and delivered to its payer, and none of a
\* steady client's is lost (complete, do_GET, pay_and_fetch).
THEOREM ImplementsPurchase ==
    ASSUME Truthful
    PROVE  ClientSpec => PurchaseSpec
<1>1. ClientInit => Exchange!Init
  <2> SUFFICES ASSUME ClientInit PROVE FateMap = [b \in Blocks |-> "none"]
    BY DEF Exchange!Init, FateMap
  <2>1. \A b \in Blocks : Fate(b) = "none"
    BY DEF ClientInit, Init, Store!Init, Fate, Taken
  <2> QED BY <2>1 DEF FateMap
<1>2. IInv /\ ClientInv /\ IInv' /\ ClientInv' /\ FateTable /\ FateTable'
        /\ [ClientNext]_allVars => [Exchange!Next]_FateMap
  BY PurchaseStep
<1> QED BY <1>1, <1>2, ExchangeInvariance, FateMeans, PTL
    DEF ClientSpec, PurchaseSpec, Exchange!Spec, FateMap, allVars

=============================================================================
