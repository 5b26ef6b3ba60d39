---------------------------- MODULE WalletProofs ----------------------------
(***************************************************************************)
(* Proofs about Wallet: every send takes what was asked, for any callers   *)
(* and faults; calls that take turns and get their answers keep the daily  *)
(* cap, for any number of callers.                                         *)
(***************************************************************************)
EXTENDS Wallet, TLAPS

(* A caller that is in no call.                                            *)
LEMMA NoCallTyped == NoCall \in Calls
BY DEF NoCall, Calls, Stages, Kinds

(* A call that moves on keeps its locals, and the other calls stay.        *)
LEMMA GotoMoves ==
  ASSUME TypeOK, NEW c \in Callers, NEW l \in Stages, Goto(c, l)
  PROVE  /\ call' \in [Callers -> Calls]
         /\ call'[c].stage = l
         /\ \A d \in Callers :
              /\ d # c => call'[d] = call[d]
              /\ call'[d].kind = call[d].kind
              /\ call'[d].account = call[d].account
              /\ call'[d].amount = call[d].amount
              /\ call'[d].balance = call[d].balance
              /\ call'[d].previous = call[d].previous
<1>1. call[c] \in Calls
  BY DEF TypeOK
<1>2. /\ [call[c] EXCEPT !.stage = l] \in Calls
      /\ [call[c] EXCEPT !.stage = l].stage = l
  BY <1>1 DEF Calls
<1>3. call' = [call EXCEPT ![c] = [call[c] EXCEPT !.stage = l]]
  BY DEF Goto
<1>4. call' \in [Callers -> Calls]
  BY <1>2, <1>3 DEF TypeOK
<1>. QED  BY <1>1, <1>2, <1>3, <1>4 DEF TypeOK, Calls

(* A call that returns leaves no trace, and the other calls stay.          *)
LEMMA ReturnMoves ==
  ASSUME TypeOK, NEW c \in Callers, Return(c)
  PROVE  /\ call' \in [Callers -> Calls]
         /\ call'[c].stage = "idle"
         /\ \A d \in Callers \ {c} : call'[d] = call[d]
BY NoCallTyped DEF TypeOK, Return, NoCall

(* account_info fills in two locals of the call, and moves it on.          *)
LEMMA AccountInfoMoves ==
  ASSUME ReadInv, NEW c \in Callers, AccountInfo(c)
  PROVE  /\ call' \in [Callers -> Calls]
         /\ call'[c].stage = IF call[c].kind = "send" THEN "read" ELSE "checked"
         /\ call'[c].kind = call[c].kind
         /\ call'[c].amount = call[c].amount
         /\ call'[c].account = call[c].account
         /\ call'[c].account \in Accounts
         /\ call'[c].balance = ledger[call'[c].account].balance
         /\ call'[c].previous = ledger[call'[c].account].height
         /\ \A d \in Callers \ {c} : call'[d] = call[d]
<1>. DEFINE l == IF call[c].kind = "send" THEN "read" ELSE "checked"
            a == call[c].account
            r == [[[call[c] EXCEPT !.balance = ledger[a].balance]
                            EXCEPT !.previous = ledger[a].height]
                            EXCEPT !.stage = l]
<1>1. call[c] \in Calls /\ a \in Accounts
  BY DEF ReadInv, TypeOK, AtomicRead, ReadOf, AccountInfo, At
<1>2. ledger[a].balance \in Nat /\ ledger[a].height \in Nat
  BY <1>1 DEF ReadInv, TypeOK, NodeTypeOK
<1>3. l \in Stages
  BY DEF Stages
<1>4. /\ r \in Calls
      /\ r.stage = l /\ r.balance = ledger[a].balance /\ r.previous = ledger[a].height
      /\ r.kind = call[c].kind /\ r.amount = call[c].amount /\ r.account = a
  BY <1>1, <1>2, <1>3 DEF Calls
<1>5. call' = [call EXCEPT ![c] = r]
  BY DEF AccountInfo, ReadInv, TypeOK
<1>. QED  BY <1>1, <1>4, <1>5 DEF ReadInv, TypeOK

(* A block lengthens one chain by one, and sets its balance.               *)
LEMMA ExtendMoves ==
  ASSUME TypeOK, NEW a \in Accounts, NEW b \in Nat, Extend(a, b)
  PROVE  /\ ledger' \in [Accounts -> [height : Nat, balance : Nat]]
         /\ ledger'[a].height = ledger[a].height + 1
         /\ ledger'[a].balance = b
         /\ \A e \in Accounts \ {a} : ledger'[e] = ledger[e]
BY DEF TypeOK, NodeTypeOK, Extend

(* The new balance a call signs is a natural number.                       *)
LEMMA NewBalanceNat ==
  ASSUME ReadInv, NEW c \in Callers, call[c].stage = "checked"
  PROVE  NewBalance(c) \in Nat
<1>1. CASE call[c].kind = "send"
  <2>1. call[c].balance \in Nat /\ call[c].amount \in 1..call[c].balance
    BY <1>1 DEF ReadInv, TypeOK, AtomicRead, ReadOf, Calls
  <2>. QED  BY <1>1, <2>1 DEF NewBalance
<1>2. CASE call[c].kind # "send"
  BY <1>2 DEF ReadInv, TypeOK, Calls, NewBalance
<1>. QED  BY <1>1, <1>2

(* A call whose block is accepted leaves every other call that has read the *)
(* same frontier with one that is out of date.                             *)
LEMMA ExtendKeepsReads ==
  ASSUME ReadInv, NEW c \in Callers, At(c, "checked"), Goto(c, "accepted"),
         NEW b \in Nat, Extend(call[c].account, b)
  PROVE  AtomicRead'
<1>. DEFINE a == call[c].account
<1>1. a \in Accounts /\ "accepted" \in Stages
  BY DEF ReadInv, AtomicRead, ReadOf, At, Stages
<1>. SUFFICES ASSUME NEW d \in Callers PROVE ReadOf(d)'
  BY DEF AtomicRead
<1>. USE DEF ReadInv
<1>. DEFINE e == call[d].account
<1>2. /\ ReadOf(d)
      /\ call[d].previous \in Nat /\ call[d].balance \in Nat
      /\ call'[d].account = e /\ call'[d].previous = call[d].previous
      /\ call'[d].balance = call[d].balance
      /\ call'[d].amount = call[d].amount /\ call'[d].kind = call[d].kind
  BY <1>1, GotoMoves DEF AtomicRead, TypeOK, Calls
<1>3. CASE d = c
  BY <1>1, <1>2, <1>3, GotoMoves DEF ReadOf
<1>4. CASE d # c /\ call[d].stage \notin {"read", "checked"}
  BY <1>1, <1>2, <1>4, GotoMoves DEF ReadOf
<1>5. CASE d # c /\ call[d].stage \in {"read", "checked"}
  <2>1. /\ e \in Accounts /\ call[d].previous <= ledger[e].height
        /\ call[d].previous = ledger[e].height =>
              call[d].balance = ledger[e].balance
        /\ call[d].stage = "checked" /\ call[d].kind = "send" =>
              call[d].amount \in 1..call[d].balance
    BY <1>2, <1>5 DEF ReadOf
  <2>2. ledger[e].height \in Nat /\ ledger[a].height \in Nat
    BY <1>1, <2>1 DEF TypeOK, NodeTypeOK
  <2>3. /\ e # a => ledger'[e] = ledger[e]
        /\ e = a => ledger'[e].height = ledger[e].height + 1
    BY <1>1, <2>1, ExtendMoves
  <2>4. call'[d] = call[d]
    BY <1>1, <1>5, GotoMoves
  <2>5. /\ call[d].previous <= ledger'[e].height
        /\ call[d].previous = ledger'[e].height =>
              call[d].balance = ledger'[e].balance
    BY <1>2, <2>1, <2>2, <2>3
  <2>. QED  BY <2>1, <2>4, <2>5 DEF ReadOf
<1>. QED  BY <1>3, <1>4, <1>5

(* ReadInv holds initially.                                                *)
LEMMA ReadInit == Init => ReadInv
<1>. SUFFICES ASSUME Init  PROVE ReadInv
  OBVIOUS
<1>1. NodeTypeOK
  <2>1. 0 \in Days
    BY LastDayAssumption DEF Days
  <2>2. ledger \in [Accounts -> [height : Nat, balance : Nat]]
    BY OpeningAssumption DEF Init, NodeInit
  <2>. QED  BY <2>1, <2>2, DepositsAssumption DEF Init, NodeInit, NodeTypeOK
<1>2. tracker \in [day : Days, spent : Nat]
  BY LastDayAssumption DEF Init, Days
<1>3. /\ call \in [Callers -> Calls]
      /\ published \in [Days -> Nat]
  BY NoCallTyped DEF Init
<1>4. AtomicRead
  BY DEF Init, AtomicRead, ReadOf, NoCall
<1>. QED  BY <1>1, <1>2, <1>3, <1>4 DEF Init, ReadInv, TypeOK

(* Every action preserves ReadInv: a frontier once passed never returns.   *)
LEMMA ReadStep == ReadInv /\ [Next]_vars => ReadInv'
<1>. SUFFICES ASSUME ReadInv, [Next]_vars  PROVE ReadInv'
  OBVIOUS
<1>. USE DEF ReadInv
<1>1. ASSUME NEW c \in Callers, NEW a \in Accounts, NEW n \in Nat,
             NEW k \in Kinds, Begin(c, k, a, n)
      PROVE  ReadInv'
  <2>1. /\ call' \in [Callers -> Calls]
        /\ call'[c].stage = "asked"
        /\ call'[c].account = a
        /\ \A d \in Callers \ {c} : call'[d] = call[d]
    BY <1>1 DEF Begin, TypeOK, Calls, Stages, Kinds
  <2>2. TypeOK'
    BY <1>1, <2>1 DEF Begin, TypeOK, NodeTypeOK, node
  <2>3. AtomicRead'
    BY <1>1, <2>1 DEF Begin, AtomicRead, ReadOf, node
  <2>. QED  BY <2>2, <2>3
<1>2. ASSUME NEW c \in Callers, NEW a \in Accounts,
             \/ \E n \in Amounts : Send(c, a, n)
             \/ \E n \in receivable[a] : Receive(c, a, n)
      PROVE  ReadInv'
  BY <1>1, <1>2, AmountsAssumption DEF Send, Receive, Kinds, TypeOK, NodeTypeOK
<1>3. ASSUME NEW c \in Callers, AccountInfo(c)  PROVE ReadInv'
  <2>1. TypeOK'
    BY <1>3, AccountInfoMoves DEF AccountInfo, TypeOK, NodeTypeOK, node
  <2>2. ledger' = ledger
    BY <1>3 DEF AccountInfo, node
  <2>3. ledger[call'[c].account].height \in Nat
    BY <1>3, AccountInfoMoves DEF TypeOK, NodeTypeOK
  <2>4. ASSUME NEW d \in Callers PROVE ReadOf(d)'
    <3>1. CASE d = c
      BY <1>3, <2>2, <2>3, <3>1, AccountInfoMoves DEF ReadOf
    <3>2. CASE d # c
      BY <1>3, <2>2, <3>2, AccountInfoMoves DEF AtomicRead, ReadOf
    <3>. QED  BY <3>1, <3>2
  <2>. QED  BY <2>1, <2>4 DEF AtomicRead
<1>4. ASSUME NEW c \in Callers, AccountInfoRaises(c)  PROVE ReadInv'
  <2>1. Return(c)
    BY <1>4 DEF AccountInfoRaises
  <2>2. TypeOK'
    BY <1>4, <2>1, ReturnMoves DEF AccountInfoRaises, TypeOK, NodeTypeOK, node
  <2>3. AtomicRead'
    BY <1>4, <2>1, ReturnMoves DEF AccountInfoRaises, AtomicRead, ReadOf, node
  <2>. QED  BY <2>2, <2>3
<1>5. ASSUME NEW c \in Callers, CheckSend(c)  PROVE ReadInv'
  <2>1. Goto(c, "checked") /\ "checked" \in Stages
    BY <1>5 DEF CheckSend, Stages
  <2>2. TypeOK'
    BY <1>5, <2>1, GotoMoves DEF CheckSend, Rolled, TypeOK, NodeTypeOK, node
  <2>3. AtomicRead'
    BY <1>5, <2>1, GotoMoves DEF CheckSend, CanSend, At, Calls, AtomicRead, ReadOf, TypeOK, node
  <2>. QED  BY <2>2, <2>3
<1>6. ASSUME NEW c \in Callers, CheckSendRaises(c)  PROVE ReadInv'
  <2>1. Return(c)
    BY <1>6 DEF CheckSendRaises
  <2>2. TypeOK'
    BY <1>6, <2>1, ReturnMoves DEF CheckSendRaises, Rolled, TypeOK, NodeTypeOK, node
  <2>3. AtomicRead'
    BY <1>6, <2>1, ReturnMoves DEF CheckSendRaises, AtomicRead, ReadOf, node
  <2>. QED  BY <2>2, <2>3
<1>7. ASSUME NEW c \in Callers, WorkRaises(c)  PROVE ReadInv'
  <2>1. Return(c)
    BY <1>7 DEF WorkRaises
  <2>2. TypeOK'
    BY <1>7, <2>1, ReturnMoves DEF WorkRaises, TypeOK, NodeTypeOK, node
  <2>3. AtomicRead'
    BY <1>7, <2>1, ReturnMoves DEF WorkRaises, AtomicRead, ReadOf, node
  <2>. QED  BY <2>2, <2>3
<1>8. ASSUME NEW c \in Callers, ProcessedSend(c)  PROVE ReadInv'
  <2>. DEFINE a == call[c].account
  <2>1. /\ Goto(c, "accepted") /\ "accepted" \in Stages
        /\ NewBalance(c) \in Nat
        /\ a \in Accounts
    BY <1>8, NewBalanceNat DEF ProcessedSend, At, AtomicRead, ReadOf, Stages
  <2>2. Extend(a, NewBalance(c))
    BY <1>8 DEF ProcessedSend, ProcessSend
  <2>3. TypeOK'
    <3>1. receivable' \in [Accounts -> SUBSET (Nat \ {0})]
      BY <1>8 DEF ProcessedSend, ProcessSend, TypeOK, NodeTypeOK
    <3>2. published' \in [Days -> Nat]
      <4>1. ledger[a].balance - NewBalance(c) \in Nat
        BY <1>8, <2>1 DEF ProcessedSend, ProcessSend, AcceptsSend, TypeOK, NodeTypeOK
      <4>2. clock \in Days
        BY DEF TypeOK, NodeTypeOK
      <4>. QED  BY <1>8, <4>1, <4>2 DEF ProcessedSend, TypeOK
    <3>. QED
      BY <1>8, <2>1, <2>2, <3>1, <3>2, GotoMoves, ExtendMoves
         DEF ProcessedSend, TypeOK, NodeTypeOK
  <2>4. AtomicRead'
    BY <1>8, <2>1, <2>2, ExtendKeepsReads DEF ProcessedSend, At
  <2>. QED  BY <2>3, <2>4
<1>9. ASSUME NEW c \in Callers, ProcessedReceive(c)  PROVE ReadInv'
  <2>. DEFINE a == call[c].account
  <2>1. /\ Goto(c, "accepted") /\ "accepted" \in Stages
        /\ NewBalance(c) \in Nat
        /\ a \in Accounts
    BY <1>9, NewBalanceNat DEF ProcessedReceive, At, AtomicRead, ReadOf, Stages
  <2>2. Extend(a, NewBalance(c))
    BY <1>9 DEF ProcessedReceive, ProcessReceive
  <2>3. TypeOK'
    <3>1. receivable' \in [Accounts -> SUBSET (Nat \ {0})]
      BY <1>9 DEF ProcessedReceive, ProcessReceive, TypeOK, NodeTypeOK
    <3>2. published' \in [Days -> Nat]
      BY <1>9 DEF ProcessedReceive, TypeOK
    <3>. QED
      BY <1>9, <2>1, <2>2, <3>1, <3>2, GotoMoves, ExtendMoves
         DEF ProcessedReceive, TypeOK, NodeTypeOK
  <2>4. AtomicRead'
    BY <1>9, <2>1, <2>2, ExtendKeepsReads DEF ProcessedReceive, At
  <2>. QED  BY <2>3, <2>4
<1>10. ASSUME NEW c \in Callers, ProcessRaises(c)  PROVE ReadInv'
  <2>1. Return(c)
    BY <1>10 DEF ProcessRaises
  <2>2. TypeOK'
    BY <1>10, <2>1, ReturnMoves DEF ProcessRaises, TypeOK, NodeTypeOK, node
  <2>3. AtomicRead'
    BY <1>10, <2>1, ReturnMoves DEF ProcessRaises, AtomicRead, ReadOf, node
  <2>. QED  BY <2>2, <2>3
<1>11. ASSUME NEW c \in Callers, AnswerLost(c)  PROVE ReadInv'
  <2>1. Return(c)
    BY <1>11 DEF AnswerLost
  <2>2. TypeOK'
    BY <1>11, <2>1, ReturnMoves DEF AnswerLost, TypeOK, NodeTypeOK, node
  <2>3. AtomicRead'
    BY <1>11, <2>1, ReturnMoves DEF AnswerLost, AtomicRead, ReadOf, node
  <2>. QED  BY <2>2, <2>3
<1>12. ASSUME NEW c \in Callers, ReceiveReturns(c)  PROVE ReadInv'
  <2>1. Return(c)
    BY <1>12 DEF ReceiveReturns
  <2>2. TypeOK'
    BY <1>12, <2>1, ReturnMoves DEF ReceiveReturns, TypeOK, NodeTypeOK, node
  <2>3. AtomicRead'
    BY <1>12, <2>1, ReturnMoves DEF ReceiveReturns, AtomicRead, ReadOf, node
  <2>. QED  BY <2>2, <2>3
<1>13. ASSUME NEW c \in Callers, RollForSend(c)  PROVE ReadInv'
  <2>1. Goto(c, "rolled") /\ "rolled" \in Stages
    BY <1>13 DEF RollForSend, Stages
  <2>2. TypeOK'
    BY <1>13, <2>1, GotoMoves DEF RollForSend, Rolled, TypeOK, NodeTypeOK, node
  <2>3. AtomicRead'
    BY <1>13, <2>1, GotoMoves DEF RollForSend, AtomicRead, ReadOf, At, node
  <2>. QED  BY <2>2, <2>3
<1>14. ASSUME NEW c \in Callers, RecordSend(c)  PROVE ReadInv'
  <2>1. Return(c)
    BY <1>14 DEF RecordSend
  <2>2. TypeOK'
    <3>1. call[c].amount \in Nat /\ tracker.spent \in Nat /\ tracker.day \in Days
      BY DEF TypeOK, Calls
    <3>2. tracker' \in [day : Days, spent : Nat]
      BY <1>14, <3>1 DEF RecordSend, TypeOK
    <3>. QED  BY <1>14, <2>1, <3>2, ReturnMoves DEF RecordSend, TypeOK, NodeTypeOK, node
  <2>3. AtomicRead'
    BY <1>14, <2>1, ReturnMoves DEF RecordSend, AtomicRead, ReadOf, node
  <2>. QED  BY <2>2, <2>3
<1>15. CASE Restart
  <2>1. call' \in [Callers -> Calls] /\ \A c \in Callers : call'[c].stage = "idle"
    BY <1>15, NoCallTyped DEF Restart, NoCall
  <2>. QED  BY <1>15, <2>1 DEF Restart, TypeOK, NodeTypeOK, AtomicRead, ReadOf, node
<1>16. CASE Tick
  <2>1. clock' \in Days
    BY <1>16, LastDayAssumption
       DEF Tick, Midnight, TypeOK, NodeTypeOK, Days
  <2>. QED  BY <1>16, <2>1 DEF Tick, TypeOK, NodeTypeOK, AtomicRead, ReadOf, node
<1>17. CASE UNCHANGED vars
  BY <1>17 DEF vars, TypeOK, NodeTypeOK, AtomicRead, ReadOf
<1>. QED
  BY <1>1, <1>2, <1>3, <1>4, <1>5, <1>6, <1>7, <1>8, <1>9, <1>10, <1>11,
     <1>12, <1>13, <1>14, <1>15, <1>16, <1>17 DEF Next, Step

-----------------------------------------------------------------------------
(* For all callers and faults: what a block takes is what was asked.        *)

(* An accepted send block takes exactly its call's amount from the balance: *)
(* its frontier is the one read, hence so is the balance.                   *)
LEMMA AcceptedAmount ==
  ASSUME ReadInv, NEW c \in Callers, ProcessedSend(c)
  PROVE  LET a == call[c].account
         IN  /\ a \in Accounts
             /\ call[c].amount \in Nat
             /\ ledger[a].balance - NewBalance(c) = call[c].amount
             /\ ledger'[a].balance = NewBalance(c)
             /\ ledger[a].balance \in Nat
             /\ NewBalance(c) \in Nat
             /\ \A e \in Accounts \ {a} : ledger'[e] = ledger[e]
             /\ call'[c].stage = "accepted"
<1>. DEFINE a == call[c].account
<1>1. /\ call[c].stage = "checked" /\ call[c].kind = "send"
      /\ call[c].previous = ledger[a].height
      /\ Goto(c, "accepted") /\ Extend(a, NewBalance(c))
  BY DEF ProcessedSend, ProcessSend, AcceptsSend, At
<1>2. ReadOf(c) /\ call[c] \in Calls /\ TypeOK
  BY DEF ReadInv, AtomicRead, TypeOK
<1>3. /\ a \in Accounts
      /\ call[c].balance = ledger[a].balance
      /\ call[c].amount \in 1..call[c].balance
  BY <1>1, <1>2 DEF ReadOf
<1>4. ledger[a].balance \in Nat /\ call[c].amount \in Nat /\ NewBalance(c) \in Nat
  BY <1>1, <1>2, <1>3, NewBalanceNat DEF TypeOK, NodeTypeOK, Calls
<1>5. ledger[a].balance - NewBalance(c) = call[c].amount
  BY <1>1, <1>3, <1>4 DEF NewBalance
<1>6. ledger'[a].balance = NewBalance(c) /\ \A e \in Accounts \ {a} : ledger'[e] = ledger[e]
  BY <1>1, <1>2, <1>3, <1>4, ExtendMoves
<1>7. call'[c].stage = "accepted"
  BY <1>1, <1>2, GotoMoves DEF Stages
<1>. QED  BY <1>3, <1>4, <1>5, <1>6, <1>7

(* A receive block takes nothing.                                           *)
LEMMA ReceivedAmount ==
  ASSUME ReadInv, NEW c \in Callers, ProcessedReceive(c)
  PROVE  \A a \in Accounts : ledger'[a].balance >= ledger[a].balance
<1>. DEFINE a == call[c].account
<1>1. /\ call[c].stage = "checked" /\ Extend(a, NewBalance(c))
      /\ NewBalance(c) = ledger[a].balance + call[c].amount
  BY DEF ProcessedReceive, ProcessReceive, AcceptsReceive, At
<1>2. a \in Accounts /\ call[c].amount \in Nat /\ NewBalance(c) \in Nat
  BY <1>1, NewBalanceNat DEF ReadInv, AtomicRead, ReadOf, TypeOK, Calls
<1>. QED  BY <1>1, <1>2, ExtendMoves DEF ReadInv, TypeOK, NodeTypeOK

(* Only an accepted block changes a balance.                                *)
LEMMA OnlyBlocks ==
  ASSUME [Next]_vars, \A c \in Callers : ~ProcessedSend(c) /\ ~ProcessedReceive(c)
  PROVE  ledger' = ledger /\ UNCHANGED published
BY DEF Next, Step, vars, node, Begin, Send, Receive, AccountInfo, AccountInfoRaises,
       CheckSend, CheckSendRaises, WorkRaises, ProcessRaises, AnswerLost,
       ReceiveReturns, RollForSend, RecordSend, Restart, Tick

(* ReadInv is an invariant of the wallet.                                   *)
THEOREM ReadSafe == Spec => []ReadInv
<1>. QED  BY ReadInit, ReadStep, PTL DEF Spec

(* For any callers and any of the faults, a block that lowers a balance     *)
(* lowers it by the amount the caller of send asked for.                    *)
THEOREM TakesWhatWasAsked == Spec => SendsWhatWasAsked
<1>. DEFINE Asked == \A a \in Accounts :
                       ledger'[a].balance < ledger[a].balance =>
                          \E c \in Callers :
                             /\ At(c, "checked")
                             /\ call[c].kind = "send"
                             /\ call[c].account = a
                             /\ call[c].amount = ledger[a].balance - ledger'[a].balance
                             /\ call'[c].stage = "accepted"
<1>1. ASSUME ReadInv, [Next]_vars  PROVE [Asked]_vars
  <2>. SUFFICES ASSUME NEW a \in Accounts, ledger'[a].balance < ledger[a].balance
                PROVE  \E c \in Callers :
                         /\ At(c, "checked")
                         /\ call[c].kind = "send"
                         /\ call[c].account = a
                         /\ call[c].amount = ledger[a].balance - ledger'[a].balance
                         /\ call'[c].stage = "accepted"
    OBVIOUS
  <2>1. ledger[a].balance \in Nat
    BY <1>1 DEF ReadInv, TypeOK, NodeTypeOK
  <2>2. PICK c \in Callers : ProcessedSend(c) \/ ProcessedReceive(c)
    BY <1>1, <2>1, OnlyBlocks
  <2>3. CASE ProcessedSend(c)
    <3>1. call[c].account = a
      BY <1>1, <2>1, <2>3, AcceptedAmount
    <3>. QED  BY <1>1, <2>3, <3>1, AcceptedAmount DEF ProcessedSend
  <2>4. CASE ProcessedReceive(c)
    <3>1. ledger'[a].balance >= ledger[a].balance
      BY <1>1, <2>4, ReceivedAmount
    <3>2. ledger'[a].balance \in Nat
      BY <1>1, ReadStep DEF ReadInv, TypeOK, NodeTypeOK
    <3>. QED  BY <2>1, <3>1, <3>2
  <2>. QED  BY <2>2, <2>3, <2>4
<1>. QED  BY <1>1, ReadSafe, PTL DEF Spec, SendsWhatWasAsked

-----------------------------------------------------------------------------
(* For calls that take turns and get their answers: the daily cap.          *)

\* What CapInv adds to ReadInv.
WithinCap == \A d \in Days : published[d] <= Cap
CapParts == TakeTurns /\ Tracked /\ Fits /\ Rolling /\ NothingYet /\ WithinCap

\* While c is in a call nobody else is, and nobody else moves.
Alone(c) == \A d \in Callers : d # c => /\ At(d, "idle") /\ ~Sending(d)
                                        /\ call'[d] = call[d]

(* CapInv, taken apart.                                                     *)
LEMMA CapSplit ==
  /\ CapInv <=> ReadInv /\ (Sequential => CapParts)
  /\ (ReadInv /\ (Sequential => CapParts))' => CapInv'
BY DEF CapInv, CapParts, WithinCap, DayCapKept

(* A step of a call that has begun is a step of the only one.               *)
LEMMA StepsAlone ==
  ASSUME CapParts, NEW c \in Callers, ~At(c, "idle"),
         \A d \in Callers : d # c => call'[d] = call[d]
  PROVE  Alone(c)
BY DEF CapParts, TakeTurns, Alone, At, Sending

(* So it is when a call begins and all are idle.                            *)
LEMMA AloneTakesTurns ==
  ASSUME NEW c \in Callers, Alone(c)
  PROVE  TakeTurns'
BY DEF Alone, TakeTurns, At

(* What the parts add up and compare are natural numbers.                   *)
LEMMA AmountsNat ==
  ASSUME TypeOK
  PROVE  /\ \A d \in Days : published[d] \in Nat
         /\ clock \in Days /\ Days \subseteq Nat
         /\ tracker.spent \in Nat /\ Recorded \in Nat
         /\ \A c \in Callers : call[c].amount \in Nat
<1>1. \A d \in Days : published[d] \in Nat
  BY DEF TypeOK
<1>2. clock \in Days /\ Days \subseteq Nat
  BY DEF TypeOK, NodeTypeOK, Days
<1>3. tracker.spent \in Nat /\ Recorded \in Nat
  BY DEF TypeOK, Recorded
<1>4. \A c \in Callers : call[c].amount \in Nat
  BY DEF TypeOK, Calls
<1>. QED  BY <1>1, <1>2, <1>3, <1>4

(* Rolling the day changes nothing of what counts for today.                *)
LEMMA RolledRecorded ==
  ASSUME TypeOK
  PROVE  /\ Rolled.spent = Recorded
         /\ tracker' = Rolled /\ clock' = clock =>
               Recorded' = Recorded /\ tracker'.day = clock
BY DEF TypeOK, Rolled, Recorded

(* A step of a call that sends nothing, records nothing and passes no check *)
(* leaves the parts as they are.                                            *)
LEMMA QuietStep ==
  ASSUME CapParts, NEW c \in Callers, Alone(c), ~Sending(c),
         UNCHANGED <<clock, published>>, Recorded' = Recorded,
         call'[c].stage = "checked" => call'[c].kind # "send",
         call'[c].stage # "rolled"
  PROVE  CapParts'
<1>1. TakeTurns'
  BY AloneTakesTurns
<1>2. published[clock] <= Recorded
  BY DEF Alone, CapParts, Tracked
<1>3. \A d \in Days : published[d]' = published[d]
  OBVIOUS
<1>4. published[clock]' = published[clock]
  OBVIOUS
<1>5. Tracked'
  BY <1>2, <1>4 DEF Tracked
<1>6. Fits' /\ Rolling'
  BY DEF Alone, Fits, Rolling, At
<1>7. NothingYet' /\ WithinCap'
  BY <1>3 DEF CapParts, NothingYet, WithinCap
<1>. QED  BY <1>1, <1>5, <1>6, <1>7 DEF CapParts

(* A send passes check_send: it fits under what is left today.              *)
LEMMA CheckSendKeepsCap ==
  ASSUME ReadInv, CapParts, NEW c \in Callers, CheckSend(c)
  PROVE  CapParts'
<1>1. /\ TypeOK /\ Goto(c, "checked") /\ "checked" \in Stages
      /\ At(c, "read") /\ UNCHANGED <<clock, published>>
  BY DEF ReadInv, CheckSend, Stages
<1>2. Alone(c) /\ TakeTurns'
  BY <1>1, GotoMoves, StepsAlone, AloneTakesTurns DEF At
<1>3. published[clock] <= Recorded
  BY <1>1, <1>2 DEF CapParts, Tracked, Sending, Alone, At
<1>4. Recorded + call[c].amount <= Cap /\ Recorded' = Recorded
  BY <1>1, RolledRecorded DEF CheckSend, CanSend
<1>5. \A d \in Days : published[d]' = published[d]
  BY <1>1
<1>6. published[clock]' = published[clock]
  BY <1>1
<1>7. Tracked'
  BY <1>3, <1>4, <1>6 DEF Tracked
<1>8. Fits'
  <2>1. published[clock] + call[c].amount <= Cap
    BY <1>1, <1>3, <1>4, AmountsNat, CapAssumption
  <2>2. call'[c].amount = call[c].amount
    BY <1>1, GotoMoves
  <2>. QED  BY <1>2, <1>6, <2>1, <2>2 DEF Fits, Alone, At
<1>9. Rolling'
  BY <1>1, <1>2, GotoMoves DEF Rolling, Alone, At
<1>10. NothingYet' /\ WithinCap'
  BY <1>1, <1>5 DEF CapParts, NothingYet, WithinCap
<1>. QED  BY <1>2, <1>7, <1>8, <1>9, <1>10 DEF CapParts

(* A block is published: the room Fits left for it is used up.              *)
LEMMA ProcessedSendKeepsCap ==
  ASSUME ReadInv, CapParts, NEW c \in Callers, ProcessedSend(c)
  PROVE  CapParts'
<1>1. /\ TypeOK /\ Goto(c, "accepted") /\ "accepted" \in Stages
      /\ At(c, "checked") /\ call[c].kind = "send"
      /\ UNCHANGED <<clock, tracker>>
  BY DEF ReadInv, ProcessedSend, Stages
<1>2. /\ call'[c].stage = "accepted" /\ call'[c].kind = "send"
      /\ call'[c].amount = call[c].amount
  BY <1>1, GotoMoves
<1>3. Alone(c) /\ TakeTurns'
  BY <1>1, GotoMoves, StepsAlone, AloneTakesTurns DEF At
<1>4. published' = [published EXCEPT ![clock] = @ + call[c].amount]
  BY AcceptedAmount DEF ProcessedSend
<1>5. /\ published[clock]' = published[clock] + call[c].amount
      /\ \A d \in Days : d # clock => published[d]' = published[d]
  <2>1. /\ published \in [Days -> Nat]
        /\ clock \in Days
        /\ call[c].amount \in Nat
    BY <1>1, AmountsNat DEF TypeOK, NodeTypeOK
  <2>2. \A d \in Days : d # clock => published'[d] = published[d]
    BY <1>4, <2>1
  <2>. QED  BY <1>1, <1>4, <2>1, <2>2
<1>6. published[clock] <= Recorded
  BY <1>1, <1>3 DEF CapParts, Tracked, Sending, Alone, At
<1>7. published[clock] + call[c].amount <= Cap
  BY <1>1 DEF CapParts, Fits, At
<1>8. Tracked'
  <2>1. Recorded' = Recorded
    BY <1>1 DEF Recorded
  <2>2. published[clock] + call[c].amount <= Recorded + call[c].amount
    BY <1>1, <1>6, AmountsNat
  <2>. QED  BY <1>2, <1>5, <2>1, <2>2 DEF Tracked, Sending
<1>9. Fits' /\ Rolling'
  BY <1>2, <1>3 DEF Fits, Rolling, Alone, At
<1>10. NothingYet'
  BY <1>1, <1>5, AmountsNat DEF CapParts, NothingYet
<1>11. WithinCap'
  BY <1>1, <1>5, <1>7, AmountsNat DEF CapParts, WithinCap
<1>. QED  BY <1>3, <1>8, <1>9, <1>10, <1>11 DEF CapParts

(* The day is rolled before an accepted send is recorded.                   *)
LEMMA RollForSendKeepsCap ==
  ASSUME ReadInv, CapParts, NEW c \in Callers, RollForSend(c)
  PROVE  CapParts'
<1>1. /\ TypeOK /\ Goto(c, "rolled") /\ "rolled" \in Stages
      /\ At(c, "accepted") /\ call[c].kind = "send"
      /\ tracker' = Rolled /\ UNCHANGED <<clock, published>>
  BY DEF ReadInv, RollForSend, Stages
<1>2. /\ call'[c].stage = "rolled" /\ call'[c].kind = "send"
      /\ call'[c].amount = call[c].amount
  BY <1>1, GotoMoves
<1>3. Alone(c) /\ TakeTurns'
  BY <1>1, GotoMoves, StepsAlone, AloneTakesTurns DEF At
<1>4. Recorded' = Recorded /\ tracker'.day = clock
  BY <1>1, RolledRecorded
<1>5. \A d \in Days : published[d]' = published[d]
  BY <1>1
<1>6. published[clock]' = published[clock]
  BY <1>1
<1>7. Tracked'
  <2>1. published[clock] <= Recorded + call[c].amount
    BY <1>1, <1>3, AmountsNat DEF CapParts, Tracked, Alone
  <2>. QED  BY <1>2, <1>4, <1>6, <2>1 DEF Tracked, Sending
<1>8. Fits' /\ Rolling'
  BY <1>1, <1>2, <1>3, <1>4 DEF Fits, Rolling, Alone, At
<1>9. NothingYet' /\ WithinCap'
  BY <1>1, <1>5 DEF CapParts, NothingYet, WithinCap
<1>. QED  BY <1>3, <1>7, <1>8, <1>9 DEF CapParts

(* The send is recorded.                                                    *)
LEMMA RecordSendKeepsCap ==
  ASSUME ReadInv, CapParts, NEW c \in Callers, RecordSend(c)
  PROVE  CapParts'
<1>1. /\ TypeOK /\ Return(c) /\ At(c, "rolled")
      /\ UNCHANGED <<clock, published>>
      /\ call[c].amount \in Nat
  BY AmountsNat DEF ReadInv, RecordSend
<1>2. call'[c].stage = "idle"
  BY <1>1, ReturnMoves
<1>3. Alone(c) /\ TakeTurns'
  BY <1>1, ReturnMoves, StepsAlone, AloneTakesTurns DEF At
<1>4. /\ tracker'.day = tracker.day
      /\ tracker'.spent = tracker.spent + call[c].amount
  BY <1>1 DEF RecordSend, TypeOK
<1>5. \A d \in Days : published[d]' = published[d]
  BY <1>1
<1>6. published[clock]' = published[clock]
  BY <1>1
<1>7. published[clock] <= Recorded'
  <2>1. published[clock] <= Recorded + call[c].amount
    BY <1>1, <1>3, AmountsNat DEF CapParts, Tracked, Alone
  <2>2. CASE tracker.day = clock
    BY <1>1, <1>4, <2>1, <2>2 DEF Recorded
  <2>3. CASE tracker.day # clock
    BY <1>1, <1>4, <2>3 DEF CapParts, Rolling, Recorded
  <2>. QED  BY <2>2, <2>3
<1>8. Tracked'
  BY <1>6, <1>7 DEF Tracked
<1>9. Fits' /\ Rolling'
  BY <1>2, <1>3 DEF Fits, Rolling, Alone, At
<1>10. NothingYet' /\ WithinCap'
  BY <1>1, <1>5 DEF CapParts, NothingYet, WithinCap
<1>. QED  BY <1>3, <1>8, <1>9, <1>10 DEF CapParts

(* Midnight: a new day begins with nothing published.              *)
LEMMA TickKeepsCap ==
  ASSUME ReadInv, CapParts, Tick
  PROVE  CapParts'
<1>1. /\ TypeOK /\ UNCHANGED <<call, tracker, published>>
      /\ clock \in Days /\ clock' \in Days
      /\ clock' > clock
  BY LastDayAssumption
     DEF ReadInv, Tick, Midnight, TypeOK, NodeTypeOK, Days
<1>2. \A d \in Days : published[d]' = published[d]
  BY <1>1
<1>3. published[clock]' = 0
  BY <1>1 DEF CapParts, NothingYet
<1>4. Tracked'
  <2>1. Recorded' \in Nat
    BY <1>1 DEF Recorded, TypeOK
  <2>. QED  BY <1>3, <2>1 DEF Tracked
<1>5. Fits'
  <2>1. \A d \in Callers : At(d, "checked") /\ call[d].kind = "send" =>
              call[d].amount <= Cap
    BY <1>1, AmountsNat, CapAssumption DEF CapParts, Fits, At
  <2>. QED  BY <1>1, <1>3, <2>1, AmountsNat, CapAssumption DEF Fits, At
<1>6. Rolling' /\ TakeTurns'
  BY <1>1, <1>3 DEF CapParts, Rolling, TakeTurns, At
<1>7. NothingYet' /\ WithinCap'
  BY <1>1, <1>2, AmountsNat DEF CapParts, NothingYet, WithinCap
<1>. QED  BY <1>4, <1>5, <1>6, <1>7 DEF CapParts

(* What may go wrong does not change.                                       *)
LEMMA FaultsStay == [Next]_vars => faults' = faults
BY DEF Next, Step, vars, Begin, Send, Receive, AccountInfo, AccountInfoRaises,
       CheckSend, CheckSendRaises, WorkRaises, ProcessedSend, ProcessedReceive,
       ProcessRaises, AnswerLost, ReceiveReturns, RollForSend, RecordSend, Restart,
       Tick

(* The parts are inductive while calls take turns and get their answers.    *)
LEMMA PartsStep ==
  ASSUME Sequential, ReadInv, CapParts, [Next]_vars
  PROVE  CapParts'
<1>1. TypeOK
  BY DEF ReadInv
<1>2. ASSUME NEW c \in Callers, NEW k \in Kinds, NEW a \in Accounts, NEW n, Begin(c, k, a, n)
      PROVE  CapParts'
  <2>1. /\ call'[c].stage = "asked"
        /\ \A d \in Callers : d # c => call'[d] = call[d]
    BY <1>1, <1>2 DEF Begin, TypeOK
  <2>2. /\ \A d \in Callers : At(d, "idle") /\ ~Sending(d)
        /\ UNCHANGED <<clock, published, tracker>>
    BY <1>2 DEF Begin, Sending, At, Sequential
  <2>3. Recorded' = Recorded
    BY <2>2 DEF Recorded
  <2>4. Alone(c)
    BY <2>1, <2>2 DEF Alone
  <2>. QED  BY <2>1, <2>2, <2>3, <2>4, QuietStep
<1>3. ASSUME NEW c \in Callers, AccountInfo(c)  PROVE CapParts'
  <2>1. /\ ~Sending(c) /\ ~At(c, "idle") /\ UNCHANGED <<clock, published, tracker>>
    BY <1>3 DEF AccountInfo, Sending, At
  <2>2. /\ call'[c].stage = "checked" => call'[c].kind # "send"
        /\ call'[c].stage # "rolled"
        /\ \A d \in Callers : d # c => call'[d] = call[d]
    BY <1>3, AccountInfoMoves
  <2>3. Recorded' = Recorded
    BY <2>1 DEF Recorded
  <2>. QED  BY <2>1, <2>2, <2>3, StepsAlone, QuietStep
<1>4. ASSUME NEW c \in Callers, ~Sending(c), ~At(c, "idle"), Return(c),
             UNCHANGED <<clock, published>>, Recorded' = Recorded
      PROVE  CapParts'
  <2>1. Alone(c)
    BY <1>1, <1>4, ReturnMoves, StepsAlone
  <2>. QED  BY <1>1, <1>4, <2>1, ReturnMoves, QuietStep
<1>5. ASSUME NEW c \in Callers,
             AccountInfoRaises(c) \/ WorkRaises(c) \/ ProcessRaises(c) \/ ReceiveReturns(c)
      PROVE  CapParts'
  <2>1. /\ ~Sending(c) /\ ~At(c, "idle") /\ Return(c)
        /\ UNCHANGED <<clock, published, tracker>>
    BY <1>5 DEF AccountInfoRaises, WorkRaises, ProcessRaises, ReceiveReturns, Sending, At
  <2>. QED  BY <1>4, <2>1 DEF Recorded
<1>6. ASSUME NEW c \in Callers, CheckSendRaises(c)  PROVE CapParts'
  <2>1. /\ ~Sending(c) /\ ~At(c, "idle") /\ Return(c) /\ UNCHANGED <<clock, published>>
        /\ tracker' = Rolled \/ tracker' = tracker
    BY <1>6 DEF CheckSendRaises, Sending, At
  <2>2. Recorded' = Recorded
    BY <1>1, <2>1, RolledRecorded DEF Recorded
  <2>. QED  BY <1>4, <2>1, <2>2
<1>7. ASSUME NEW c \in Callers, ProcessedReceive(c)  PROVE CapParts'
  <2>1. /\ Goto(c, "accepted") /\ "accepted" \in Stages
        /\ ~Sending(c) /\ ~At(c, "idle") /\ UNCHANGED <<clock, published, tracker>>
    BY <1>7 DEF ProcessedReceive, Sending, At, Stages
  <2>2. Alone(c)
    BY <1>1, <2>1, GotoMoves, StepsAlone
  <2>. QED  BY <1>1, <2>1, <2>2, GotoMoves, QuietStep DEF Recorded
<1>8. \A c \in Callers : ~AnswerLost(c)
  BY DEF Sequential, AnswerLost
<1>9. ~Restart
  BY DEF Sequential, Restart
<1>10. CASE UNCHANGED vars
  BY <1>10
     DEF CapParts, vars, TakeTurns, Tracked, Fits, Rolling, NothingYet, WithinCap,
         Sending, At, Recorded
<1>. QED
  BY <1>2, <1>3, <1>5, <1>6, <1>7, <1>8, <1>9, <1>10, CheckSendKeepsCap,
     ProcessedSendKeepsCap, RollForSendKeepsCap, RecordSendKeepsCap, TickKeepsCap
     DEF Next, Step, Send, Receive, Kinds

(* While calls take turns and no answer or memory is lost, the tracker      *)
(* holds what was published today, up to the send in flight, at every       *)
(* moment of send, check_send and _record_send.                             *)
THEOREM CapInvariance == Spec => []CapInv
<1>1. Init => CapInv
  <2>. SUFFICES ASSUME Init  PROVE ReadInv /\ CapParts
    BY CapSplit
  <2>1. ReadInv /\ TypeOK
    BY ReadInit DEF ReadInv
  <2>2. \A d \in Days : published[d] = 0
    BY DEF Init
  <2>3. Tracked
    BY <2>1, <2>2, AmountsNat DEF Tracked
  <2>4. Fits /\ Rolling /\ TakeTurns
    BY DEF Init, NoCall, Fits, Rolling, TakeTurns, At
  <2>. QED
    BY <2>1, <2>2, <2>3, <2>4, CapAssumption DEF CapParts, NothingYet, WithinCap
<1>2. CapInv /\ [Next]_vars => CapInv'
  <2>. SUFFICES ASSUME CapInv, [Next]_vars  PROVE ReadInv' /\ (Sequential => CapParts)'
    BY CapSplit
  <2>1. ReadInv /\ (Sequential => CapParts)
    BY CapSplit
  <2>2. Sequential' = Sequential
    BY FaultsStay DEF Sequential
  <2>3. Sequential => CapParts'
    BY <2>1, PartsStep
  <2>. QED  BY <2>1, <2>2, <2>3, ReadStep
<1>. QED  BY <1>1, <1>2, PTL DEF Spec

(* While calls take turns and no answer or memory is lost, the blocks       *)
(* published in any one UTC day send no more than daily_cap_raw.            *)
THEOREM DayCapSafe == Spec => []DayCapKept
<1>1. CapInv => DayCapKept
  BY DEF CapInv
<1>. QED  BY <1>1, CapInvariance, PTL

=============================================================================
