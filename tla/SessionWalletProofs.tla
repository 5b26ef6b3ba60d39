------------------------ MODULE SessionWalletProofs ------------------------
(***************************************************************************)
(* Proofs about SessionWallet: a reliable session keeps the cap of its     *)
(* mandate and the daily cap, beside any other sessions, and an expired    *)
(* mandate costs at most the one send that was past its check, whatever    *)
(* fails or starts again.                                                  *)
(***************************************************************************)
EXTENDS SessionWallet, TLAPS

Calls == [stage : Stages, amount : Nat, balance : Nat, previous : Nat]
Counters == [day : Days, daily : Nat, session : Nat]

\* What the invariant says of one session.
Kept(s) == /\ Current(s)
           /\ Reliable(s) => /\ Running(s)
                             /\ Tracked(s)
                             /\ Fits(s)
                             /\ \A d \in Days : published[s][d] <= Cap

\* The invariant is its part for each session, and the types.
LEMMA Parts == CapInv <=> TypeOK /\ \A s \in Sessions : Kept(s)
BY DEF CapInv, Kept, SessionDayCapKept

\* What a typed state holds of one session.
LEMMA Types ==
    ASSUME TypeOK, NEW s \in Sessions
    PROVE  /\ call[s] \in Calls /\ wallet[s] \in Counters
           /\ ledger[s] \in [height : Nat, balance : Nat]
           /\ clock \in Days /\ clock \in Nat
           /\ published[s] \in [Days -> Nat]
BY DEF TypeOK, NodeTypeOK, Calls, Counters, Sessions, Days

\* The counters after _roll_day: of today, and with what today has recorded.
LEMMA RolledToday ==
    ASSUME NEW w \in Counters, clock \in Days
    PROVE  /\ Rolled(w) \in Counters
           /\ Rolled(w).day = clock
           /\ Rolled(w).session = w.session
           /\ Rolled(w).daily = IF w.day = clock THEN w.daily ELSE 0
BY DEF Rolled, Counters

\* A step of one session that leaves the node and the clock alone.
LEMMA LocalStep ==
    ASSUME TypeOK, NEW s \in Sessions, NEW c \in Calls, NEW w \in Counters,
           call' = [call EXCEPT ![s] = c], wallet' = [wallet EXCEPT ![s] = w],
           UNCHANGED <<node, clock, published>>
    PROVE  /\ TypeOK'
           /\ call'[s] = c /\ wallet'[s] = w
           /\ \A u \in Sessions \ {s} : call'[u] = call[u] /\ wallet'[u] = wallet[u]
           /\ ledger' = ledger
<1>1. /\ call' \in [Sessions -> Calls]
      /\ wallet' \in [Sessions -> Counters]
  BY DEF TypeOK, Calls, Counters
<1>. QED  BY <1>1 DEF TypeOK, NodeTypeOK, node, Calls, Counters

\* A step of one session takes nothing from the others.
LEMMA OthersKept ==
    ASSUME NEW s \in Sessions, \A u \in Sessions : Kept(u),
           \A u \in Sessions \ {s} :
               /\ call'[u] = call[u] /\ wallet'[u] = wallet[u]
               /\ ledger'[u] = ledger[u] /\ published'[u] = published[u],
           clock' = clock,
           Kept(s)'
    PROVE  \A u \in Sessions : Kept(u)'
<1>. SUFFICES ASSUME NEW u \in Sessions \ {s}  PROVE Kept(u)'
  OBVIOUS
<1>. QED  BY DEF Kept, Current, Reliable, Running, Tracked, Fits, At, InFlight, RecordedToday

\* So a local step keeps the invariant if it keeps the part of its session.
LEMMA LocalKeeps ==
    ASSUME CapInv, NEW s \in Sessions, NEW c \in Calls, NEW w \in Counters,
           call' = [call EXCEPT ![s] = c], wallet' = [wallet EXCEPT ![s] = w],
           UNCHANGED <<node, clock, published>>,
           call'[s] = c /\ wallet'[s] = w /\ ledger' = ledger => Kept(s)'
    PROVE  CapInv'
<1>1. TypeOK /\ \A u \in Sessions : Kept(u)
  BY Parts
<1>2. /\ TypeOK' /\ Kept(s)'
      /\ \A u \in Sessions \ {s} : call'[u] = call[u] /\ wallet'[u] = wallet[u]
      /\ ledger' = ledger
  <2>1. /\ call'[s] = c /\ wallet'[s] = w
        /\ \A u \in Sessions \ {s} : call'[u] = call[u] /\ wallet'[u] = wallet[u]
        /\ ledger' = ledger
    BY <1>1 DEF TypeOK, node
  <2>2. TypeOK'
    BY <1>1, LocalStep, ZenonT(60)
  <2> QED BY <2>1, <2>2
<1>3. \A u \in Sessions : Kept(u)'
  BY <1>1, <1>2, OthersKept
<1>4. CapInv' <=> TypeOK' /\ \A u \in Sessions : Kept(u)'
  BY DEF CapInv, Kept, SessionDayCapKept
<1>. QED  BY <1>2, <1>3, <1>4

\* A call that ends before its block leaves nothing behind but a day begun.
LEMMA EndKeeps ==
    ASSUME CapInv, NEW s \in Sessions, call[s].stage # "accepted" \/ ~Reliable(s),
           Return(s) \/ (~Reliable(s) /\ call' = [call EXCEPT ![s] = Down]),
           wallet' = wallet \/ wallet' = [wallet EXCEPT ![s] = Rolled(@)],
           UNCHANGED <<node, clock, published>>
    PROVE  CapInv'
<1>1. TypeOK /\ Kept(s)
  BY Parts
<1>2. PICK c \in {NoCall, Down} : /\ call' = [call EXCEPT ![s] = c]
                                  /\ c = NoCall \/ ~Reliable(s)
  BY DEF Return
<1>3. /\ c \in Calls /\ c.stage \in {"idle", "down"}
      /\ Reliable(s) => c.stage = "idle"
  BY <1>2 DEF Calls, NoCall, Down, Stages
<1>4. /\ call[s] \in Calls /\ wallet[s] \in Counters /\ clock \in Days
      /\ published[s] \in [Days -> Nat]
  BY <1>1, Types
<1>5. PICK w \in {wallet[s], Rolled(wallet[s])} : wallet' = [wallet EXCEPT ![s] = w]
  BY <1>1 DEF TypeOK
<1>6. /\ w \in Counters
      /\ w.session = wallet[s].session
      /\ (IF w.day = clock THEN w.daily ELSE 0) = RecordedToday(s)
  BY <1>4, <1>5, RolledToday DEF RecordedToday
<1>7. ASSUME call'[s] = c, wallet'[s] = w, ledger' = ledger  PROVE Kept(s)'
  BY <1>1, <1>3, <1>4, <1>6, <1>7
     DEF Kept, Current, Reliable, Running, Tracked, Fits, At, InFlight, RecordedToday, Counters
<1>. QED  BY <1>2, <1>3, <1>5, <1>6, <1>7, LocalKeeps

\* CapInv holds at the start.
LEMMA CapStart == Init => CapInv
<1>. SUFFICES ASSUME Init  PROVE CapInv
  OBVIOUS
<1>1. 0 \in Days /\ clock = 0
  BY LastDayAssumption DEF Init, NodeInit, Days
<1>2. TypeOK
  <2>1. NodeTypeOK
    BY <1>1, OpeningAssumption, DepositsAssumption DEF Init, NodeInit, NodeTypeOK
  <2>. QED  BY <1>1, <2>1 DEF Init, TypeOK, Fresh, NoCall, Stages
<1>3. ASSUME NEW s \in Sessions  PROVE Kept(s)
  BY <1>1, <1>3, OpeningAssumption, SessionCaps, SessionDailyCap
     DEF Init, NodeInit, Kept, Current, Running, Tracked, Fits, At, InFlight, RecordedToday,
         Fresh, NoCall, Sessions
<1>. QED  BY <1>2, <1>3, Parts

-----------------------------------------------------------------------------

\* A send begins.
LEMMA SendKeeps ==
    ASSUME CapInv, NEW s \in Sessions, NEW n \in Amounts, Send(s, n)
    PROVE  CapInv'
<1>. DEFINE c == [[NoCall EXCEPT !.stage = "asked"] EXCEPT !.amount = n]
<1>1. TypeOK /\ Kept(s)
  BY Parts
<1>2. c \in Calls /\ c.stage = "asked" /\ call' = [call EXCEPT ![s] = c]
  <2>1. NoCall \in Calls /\ n \in Nat
    BY SessionAmounts DEF NoCall, Calls, Stages
  <2>2. c \in Calls /\ c.stage = "asked"
    BY <2>1 DEF Calls, Stages
  <2>. QED  BY <2>2 DEF Send
<1>. HIDE DEF c
<1>3. wallet[s] \in Counters /\ wallet' = [wallet EXCEPT ![s] = wallet[s]]
  BY <1>1, Types DEF Send, TypeOK
<1>4. ASSUME call'[s] = c, wallet'[s] = wallet[s], ledger' = ledger  PROVE Kept(s)'
  BY <1>1, <1>2, <1>4 DEF Kept, Current, Reliable, Running, Tracked, Fits, At, InFlight,
     RecordedToday, Send
<1>. QED  BY <1>2, <1>3, <1>4, LocalKeeps DEF Send

\* account_info answers: what is read is so.
LEMMA AccountInfoKeeps ==
    ASSUME CapInv, NEW s \in Sessions, AccountInfo(s)
    PROVE  CapInv'
<1>. DEFINE c1 == [call[s] EXCEPT !.stage = "read"]
            c2 == [c1 EXCEPT !.balance = ledger[s].balance]
            c == [c2 EXCEPT !.previous = ledger[s].height]
<1>1. TypeOK /\ Kept(s)
  BY Parts
<1>2. /\ call[s] \in Calls /\ "read" \in Stages
      /\ ledger[s].balance \in Nat /\ ledger[s].height \in Nat
  BY <1>1, Types DEF Stages
<1>3. /\ c \in Calls /\ c.stage = "read"
      /\ c.balance = ledger[s].balance /\ c.previous = ledger[s].height
  <2>1. c1 \in Calls /\ c1.stage = "read"
    BY <1>2 DEF Calls
  <2>. HIDE DEF c1
  <2>2. c2 \in Calls /\ c2.stage = "read" /\ c2.balance = ledger[s].balance
    BY <1>2, <2>1 DEF Calls
  <2>. HIDE DEF c2
  <2>. QED  BY <1>2, <2>2 DEF Calls
<1>4. call' = [call EXCEPT ![s] = c]
  BY <1>1 DEF AccountInfo, TypeOK
<1>. HIDE DEF c
<1>5. wallet[s] \in Counters /\ wallet' = [wallet EXCEPT ![s] = wallet[s]]
  BY <1>1, Types DEF AccountInfo, TypeOK
<1>6. ASSUME call'[s] = c, wallet'[s] = wallet[s], ledger' = ledger  PROVE Kept(s)'
  BY <1>1, <1>3, <1>6 DEF Kept, Current, Reliable, Running, Tracked, Fits, At, InFlight,
     RecordedToday, AccountInfo
<1>7. UNCHANGED <<node, clock, published>>
  BY DEF AccountInfo
<1>. QED  BY <1>3, <1>4, <1>5, <1>6, <1>7, LocalKeeps

\* A call that moves on keeps its locals.
LEMMA GotoMoves ==
    ASSUME TypeOK, NEW s \in Sessions, NEW l \in Stages, Goto(s, l)
    PROVE  LET c == [call[s] EXCEPT !.stage = l]
           IN  /\ c \in Calls /\ call' = [call EXCEPT ![s] = c]
               /\ c.stage = l /\ c.amount = call[s].amount
               /\ c.balance = call[s].balance /\ c.previous = call[s].previous
<1>1. call[s] \in Calls
  BY Types
<1>. QED  BY <1>1 DEF Goto, Calls

\* check_spend finds room in the mandate.
LEMMA CheckSessionKeeps ==
    ASSUME CapInv, NEW s \in Sessions, CheckSession(s)
    PROVE  CapInv'
<1>. DEFINE c == [call[s] EXCEPT !.stage = "allowed"]
<1>1. TypeOK /\ Kept(s)
  BY Parts
<1>2. /\ c \in Calls /\ call' = [call EXCEPT ![s] = c]
      /\ c.stage = "allowed" /\ c.amount = call[s].amount
      /\ c.balance = call[s].balance /\ c.previous = call[s].previous
  BY <1>1, GotoMoves DEF CheckSession, Stages
<1>3. wallet[s] \in Counters /\ wallet' = [wallet EXCEPT ![s] = wallet[s]]
  BY <1>1, Types DEF CheckSession, TypeOK
<1>4. ASSUME call'[s] = c, wallet'[s] = wallet[s], ledger' = ledger  PROVE Kept(s)'
  <2>. HIDE DEF c
  <2>. QED
    BY <1>1, <1>2, <1>4 DEF Kept, Current, Reliable, Running, Tracked, Fits, At, InFlight,
       RecordedToday, CheckSession, SessionAllows
<1>. HIDE DEF c
<1>. QED  BY <1>2, <1>3, <1>4, LocalKeeps DEF CheckSession

\* check_spend finds room in the day, and in the balance.
LEMMA CheckDayKeeps ==
    ASSUME CapInv, NEW s \in Sessions, CheckDay(s)
    PROVE  CapInv'
<1>. DEFINE c == [call[s] EXCEPT !.stage = "checked"]
            w == Rolled(wallet[s])
<1>1. TypeOK /\ Kept(s)
  BY Parts
<1>2. /\ c \in Calls /\ call' = [call EXCEPT ![s] = c]
      /\ c.stage = "checked" /\ c.amount = call[s].amount
      /\ c.balance = call[s].balance /\ c.previous = call[s].previous
  BY <1>1, GotoMoves DEF CheckDay, Stages
<1>3. /\ wallet[s] \in Counters /\ clock \in Days
      /\ published[s][clock] \in Nat /\ call[s].amount \in Nat
  BY <1>1, Types DEF Calls
<1>4. /\ w \in Counters /\ wallet' = [wallet EXCEPT ![s] = w]
      /\ w.session = wallet[s].session
      /\ w.day = clock /\ w.daily = RecordedToday(s) /\ w.daily \in Nat
  BY <1>3, RolledToday DEF CheckDay, RecordedToday, Counters
<1>5. w.daily + call[s].amount <= Cap /\ call[s].amount <= call[s].balance
  BY DEF CheckDay, DayAllows
<1>. HIDE DEF c, w
<1>6. ASSUME call'[s] = c, wallet'[s] = w, ledger' = ledger  PROVE Kept(s)'
  <2>1. Current(s)'
    BY <1>1, <1>2, <1>5, <1>6 DEF Kept, Current, At, CheckDay
  <2>2. ASSUME Reliable(s)  PROVE Running(s)' /\ Tracked(s)' /\ Fits(s)'
    BY <1>1, <1>2, <1>3, <1>4, <1>5, <1>6, <2>2, SessionDailyCap
       DEF Kept, Running, Tracked, Fits, At, InFlight, RecordedToday, CheckDay
  <2>. QED  BY <1>1, <2>1, <2>2 DEF Kept, Reliable, CheckDay
<1>. QED  BY <1>2, <1>4, <1>6, LocalKeeps DEF CheckDay

\* The block is accepted: it sends the amount that was checked.
LEMMA ProcessedKeeps ==
    ASSUME CapInv, NEW s \in Sessions, Processed(s)
    PROVE  CapInv'
<1>. DEFINE c == [call[s] EXCEPT !.stage = "accepted"]
            left == call[s].balance - call[s].amount
<1>1. TypeOK /\ Kept(s) /\ \A u \in Sessions : Kept(u)
  BY Parts
<1>2. /\ c \in Calls /\ call' = [call EXCEPT ![s] = c]
      /\ c.stage = "accepted" /\ c.amount = call[s].amount
  BY <1>1, GotoMoves DEF Processed, Stages
<1>3. /\ call[s].amount \in Nat /\ call[s].balance \in Nat
      /\ ledger[s].height \in Nat /\ wallet[s] \in Counters
      /\ clock \in Days /\ published[s] \in [Days -> Nat]
  BY <1>1, Types DEF Calls
<1>4. /\ left \in Nat /\ call[s].balance = ledger[s].balance
      /\ ledger[s].balance - left = call[s].amount
  BY <1>1, <1>3 DEF Kept, Current, Processed, At
<1>5. /\ ledger' = [ledger EXCEPT ![s] = [height |-> ledger[s].height + 1,
                                          balance |-> left]]
      /\ receivable' = receivable /\ clock' = clock /\ wallet' = wallet
      /\ published' = [published EXCEPT ![s][clock] = @ + call[s].amount]
  BY <1>4 DEF Processed, ProcessSend, Extend
<1>. HIDE DEF c, left
<1>6. TypeOK'
  <2>1. [height |-> ledger[s].height + 1, balance |-> left]
          \in [height : Nat, balance : Nat]
    BY <1>3, <1>4
  <2>2. ledger' \in [Accounts -> [height : Nat, balance : Nat]]
    BY <1>1, <1>5, <2>1 DEF TypeOK, NodeTypeOK, Sessions
  <2>3. [published[s] EXCEPT ![clock] = @ + call[s].amount] \in [Days -> Nat]
    BY <1>3
  <2>4. published' \in [Sessions -> [Days -> Nat]]
    BY <1>1, <1>5, <2>3 DEF TypeOK
  <2>. QED  BY <1>1, <1>2, <1>5, <2>2, <2>4 DEF TypeOK, NodeTypeOK, Calls
<1>7. /\ call'[s] = c /\ wallet'[s] = wallet[s] /\ ledger'[s].balance = left
      /\ \A d \in Days : published'[s][d] =
            IF d = clock THEN published[s][d] + call[s].amount ELSE published[s][d]
      /\ \A u \in Sessions \ {s} :
            /\ call'[u] = call[u] /\ wallet'[u] = wallet[u]
            /\ ledger'[u] = ledger[u] /\ published'[u] = published[u]
  BY <1>1, <1>2, <1>3, <1>5 DEF TypeOK, NodeTypeOK, Sessions
<1>8. Kept(s)'
  <2>1. Current(s)'
    BY <1>2, <1>7 DEF Current, At
  <2>2. ASSUME Reliable(s)  PROVE Running(s)' /\ Tracked(s)'
    <3>1. /\ Opening[s] = ledger[s].balance + wallet[s].session + 0
          /\ published[s][clock] <= RecordedToday(s) + 0
          /\ \A d \in Days : d > clock => published[s][d] = 0
      BY <1>1, <2>2 DEF Kept, Tracked, InFlight, Processed, At
    <3>7. RecordedToday(s) \in Nat /\ ledger[s].balance \in Nat /\ wallet[s].session \in Nat
      BY <1>1, <1>3, Types DEF RecordedToday, Counters
    <3>2. InFlight(s)' = call[s].amount /\ RecordedToday(s)' = RecordedToday(s)
      BY <1>2, <1>5, <1>7 DEF InFlight, At, RecordedToday
    <3>3. clock \in Nat /\ Days \subseteq Nat /\ published[s][clock] \in Nat
      BY <1>1, <1>3, Types, LastDayAssumption DEF Days
    <3>4. Opening[s] = ledger'[s].balance + wallet'[s].session + InFlight(s)'
      BY <1>3, <1>4, <1>7, <3>1, <3>2, <3>7
    <3>5. published'[s][clock] <= RecordedToday(s)' + InFlight(s)'
      BY <1>3, <1>7, <3>1, <3>2, <3>3, <3>7
    <3>6. \A d \in Days : d > clock => published'[s][d] = 0
      <4>. SUFFICES ASSUME NEW d \in Days, d > clock  PROVE published'[s][d] = 0
        OBVIOUS
      <4>1. d # clock /\ published[s][d] = 0
        BY <3>1, <3>3
      <4>. QED  BY <1>7, <4>1
    <3>. QED  BY <1>2, <1>5, <1>7, <3>4, <3>5, <3>6 DEF Running, Tracked, At
  <2>3. ASSUME Reliable(s)
        PROVE  Fits(s)' /\ \A d \in Days : published'[s][d] <= Cap
    BY <1>1, <1>2, <1>5, <1>7, <2>3
       DEF Kept, Fits, At, InFlight, Processed
  <2>. QED  BY <2>1, <2>2, <2>3 DEF Kept, Reliable
<1>9. \A u \in Sessions : Kept(u)'
  BY <1>1, <1>5, <1>7, <1>8, OthersKept
<1>. QED  BY <1>6, <1>9 DEF CapInv, Kept, SessionDayCapKept

\* The end of send: what was in flight is recorded.
LEMMA RecordKeeps ==
    ASSUME CapInv, NEW s \in Sessions, Record(s)
    PROVE  CapInv'
<1>. DEFINE r == Rolled(wallet[s])
            w == [r EXCEPT !.daily = @ + call[s].amount,
                           !.session = @ + call[s].amount]
<1>1. TypeOK /\ Kept(s)
  BY Parts
<1>2. /\ call[s].amount \in Nat /\ wallet[s] \in Counters /\ clock \in Days
      /\ published[s] \in [Days -> Nat]
  BY <1>1, Types DEF Calls
<1>3. /\ r \in Counters /\ r.day = clock
      /\ r.session = wallet[s].session /\ r.daily = RecordedToday(s)
  BY <1>2, RolledToday DEF RecordedToday
<1>4. wallet' = [wallet EXCEPT ![s] = w]
  BY DEF Record
<1>. HIDE DEF r
<1>5. /\ w \in Counters /\ w.day = clock
      /\ w.session = wallet[s].session + call[s].amount
      /\ w.daily = RecordedToday(s) + call[s].amount
  <2>1. r.daily + call[s].amount \in Nat /\ r.session + call[s].amount \in Nat
    BY <1>2, <1>3 DEF Counters
  <2>2. w = [[r EXCEPT !.daily = r.daily + call[s].amount]
                EXCEPT !.session = r.session + call[s].amount]
    BY <1>3 DEF Counters
  <2>3. /\ w \in Counters /\ w.day = r.day
        /\ w.session = r.session + call[s].amount
        /\ w.daily = r.daily + call[s].amount
    BY <1>3, <2>1, <2>2 DEF Counters
  <2>. QED  BY <1>3, <2>3
<1>. HIDE DEF w
<1>6. NoCall \in Calls /\ call' = [call EXCEPT ![s] = NoCall]
  BY DEF Record, Return, NoCall, Calls, Stages
<1>7. ASSUME call'[s] = NoCall, wallet'[s] = w, ledger' = ledger  PROVE Kept(s)'
  <2>1. Current(s)'
    BY <1>7 DEF Current, At, NoCall
  <2>2. ASSUME Reliable(s)  PROVE Running(s)' /\ Tracked(s)' /\ Fits(s)'
    <3>1. /\ InFlight(s) = call[s].amount /\ InFlight(s)' = 0
          /\ clock' = clock /\ published' = published
          /\ RecordedToday(s)' = w.daily
      <4>1. At(s, "accepted") /\ clock' = clock /\ published' = published
        BY DEF Record
      <4>2. ~At(s, "accepted")'
        BY <1>7 DEF At, NoCall
      <4>3. InFlight(s) = call[s].amount /\ InFlight(s)' = 0
        BY <4>1, <4>2 DEF InFlight
      <4>. QED  BY <1>5, <1>7, <4>1, <4>3 DEF RecordedToday
    <3>2. /\ Opening[s] = ledger[s].balance + wallet[s].session + call[s].amount
          /\ published[s][clock] <= RecordedToday(s) + call[s].amount
          /\ \A d \in Days : d > clock => published[s][d] = 0
          /\ wallet[s].session + call[s].amount <= SessionCap[s]
      <4>1. Tracked(s) /\ Fits(s)
        BY <1>1, <2>2 DEF Kept
      <4>. QED  BY <3>1, <4>1 DEF Tracked, Fits
    <3>3. ledger[s].balance \in Nat /\ wallet[s].session \in Nat /\ RecordedToday(s) \in Nat
      BY <1>1, <1>2, Types DEF RecordedToday, Counters
    <3>4. Tracked(s)'
      BY <1>2, <1>5, <1>7, <3>1, <3>2, <3>3 DEF Tracked
    <3>5. Fits(s)'
      BY <1>2, <1>5, <1>7, <3>1, <3>2, <3>3 DEF Fits, At, NoCall
    <3>. QED  BY <1>7, <3>4, <3>5 DEF Running, At, NoCall
  <2>. QED  BY <1>1, <2>1, <2>2 DEF Kept, Reliable, Record
<1>. QED  BY <1>4, <1>5, <1>6, <1>7, LocalKeeps DEF Record

\* A session that starts again is not a reliable one.
LEMMA StartKeeps ==
    ASSUME CapInv, NEW s \in Sessions, Start(s)
    PROVE  CapInv'
<1>1. TypeOK /\ Kept(s)
  BY Parts
<1>2. NoCall \in Calls /\ call' = [call EXCEPT ![s] = NoCall]
  BY DEF Start, Return, NoCall, Calls, Stages
<1>3. clock \in Days
  BY <1>1, Types
<1>4. Fresh \in Counters /\ wallet' = [wallet EXCEPT ![s] = Fresh]
  BY <1>3 DEF Start, Fresh, Counters
<1>5. ASSUME call'[s] = NoCall, wallet'[s] = Fresh, ledger' = ledger  PROVE Kept(s)'
  <2>1. ~Reliable(s)
    BY <1>1 DEF Kept, Running, Start
  <2>. QED  BY <1>5, <2>1 DEF Kept, Current, At, Reliable, NoCall
<1>. QED  BY <1>2, <1>4, <1>5, LocalKeeps DEF Start

\* Midnight: nothing is published yet on the day that begins.
LEMMA TickKeeps ==
    ASSUME CapInv, Tick
    PROVE  CapInv'
<1>1. TypeOK /\ \A s \in Sessions : Kept(s)
  BY Parts
<1>2. /\ clock \in Nat /\ clock' = clock + 1 /\ clock' \in Days
      /\ UNCHANGED <<ledger, receivable, wallet, call, published>>
  BY <1>1, LastDayAssumption DEF TypeOK, NodeTypeOK, Tick, Midnight, node, Days
<1>3. TypeOK'
  BY <1>1, <1>2 DEF TypeOK, NodeTypeOK
<1>4. ASSUME NEW s \in Sessions  PROVE Kept(s)'
  <2>1. Kept(s) /\ published[s] \in [Days -> Nat] /\ wallet[s] \in Counters
        /\ call[s] \in Calls
    BY <1>1, Types
  <2>2. InFlight(s) \in Nat /\ RecordedToday(s)' \in Nat /\ call[s].amount \in Nat
        /\ wallet[s].day \in Nat
    BY <1>2, <2>1 DEF InFlight, RecordedToday, Counters, Calls, Days
  <2>3. Current(s)'
    BY <1>2, <2>1 DEF Kept, Current, At
  <2>4. ASSUME Reliable(s)  PROVE Tracked(s)' /\ Fits(s)' /\ Running(s)'
    <3>1. Tracked(s) /\ Fits(s) /\ Running(s)
          /\ InFlight(s)' = InFlight(s)
      BY <1>2, <2>1, <2>4 DEF Kept, InFlight, At
    <3>2. published'[s][clock'] = 0 /\ published[s][clock] \in Nat
      BY <1>1, <1>2, <2>1, <3>1, Types DEF Tracked
    <3>3. Tracked(s)'
      <4>1. \A d \in Days : d > clock' => published'[s][d] = 0
        BY <1>2, <3>1 DEF Tracked, Days
      <4>. QED  BY <1>2, <2>2, <3>1, <3>2, <4>1 DEF Tracked
    <3>4. Fits(s)' /\ Running(s)'
      BY <1>2, <2>2, <3>1, <3>2, SessionDailyCap DEF Fits, Running, At
    <3>. QED  BY <3>3, <3>4
  <2>. QED  BY <1>2, <2>1, <2>3, <2>4 DEF Kept, Reliable
<1>. QED  BY <1>3, <1>4 DEF CapInv, Kept, SessionDayCapKept

\* CapInv is inductive.
LEMMA CapStep == CapInv /\ [Next]_vars => CapInv'
<1>. SUFFICES ASSUME CapInv, [Next]_vars  PROVE CapInv'
  OBVIOUS
<1>1. CASE \E s \in Sessions, n \in Amounts : Send(s, n)
  BY <1>1, SendKeeps
<1>2. ASSUME NEW s \in Sessions, Step(s)  PROVE CapInv'
  <2>1. CASE AccountInfo(s)
    BY <2>1, AccountInfoKeeps
  <2>2. CASE AccountInfoRaises(s)
    BY <2>2, EndKeeps DEF AccountInfoRaises, At
  <2>3. CASE CheckSession(s)
    BY <2>3, CheckSessionKeeps
  <2>4. CASE CheckSessionRaises(s)
    BY <2>4, EndKeeps DEF CheckSessionRaises, At
  <2>5. CASE CheckDay(s)
    BY <2>5, CheckDayKeeps
  <2>6. CASE CheckDayRaises(s)
    BY <2>6, EndKeeps DEF CheckDayRaises, At
  <2>7. CASE WorkRaises(s)
    BY <2>7, EndKeeps DEF WorkRaises, At
  <2>8. CASE Processed(s)
    BY <2>8, ProcessedKeeps
  <2>9. CASE AnswerLost(s)
    BY <2>9, EndKeeps DEF AnswerLost, Reliable
  <2>10. CASE Record(s)
    BY <2>10, RecordKeeps
  <2>. QED  BY <1>2, <2>1, <2>2, <2>3, <2>4, <2>5, <2>6, <2>7, <2>8, <2>9, <2>10 DEF Step
<1>3. ASSUME NEW s \in Sessions, Stop(s)  PROVE CapInv'
  BY <1>3, EndKeeps DEF Stop, Reliable
<1>4. ASSUME NEW s \in Sessions, Start(s)  PROVE CapInv'
  BY <1>4, StartKeeps
<1>5. CASE Tick
  BY <1>5, TickKeeps
<1>6. CASE UNCHANGED vars
  BY <1>6 DEF vars, CapInv, TypeOK, NodeTypeOK, SessionDayCapKept, Current, Reliable,
     Running, Tracked, Fits, At, InFlight, RecordedToday
<1>. QED  BY <1>1, <1>2, <1>3, <1>4, <1>5, <1>6 DEF Next

-----------------------------------------------------------------------------

\* CapInv is an invariant: what a reliable session has recorded, has in flight
\* and has published agree after every step, for any number of sessions, any
\* amounts and caps, and any faults of the others (check_spend, send, _roll_day).
THEOREM CapInvariance == Spec => []CapInv
BY CapStart, CapStep, PTL DEF Spec

\* The blocks of a reliable session together send no more than its mandate's
\* cap (check_spend, send).
THEOREM SessionCapSafe == Spec => []SessionCapKept
<1>1. CapInv => SessionCapKept
  <2>. SUFFICES ASSUME CapInv, NEW s \in Sessions, Reliable(s)
                PROVE  Opening[s] <= ledger[s].balance + SessionCap[s]
    BY DEF SessionCapKept
  <2>1. TypeOK /\ Tracked(s) /\ Fits(s)
    BY DEF CapInv
  <2>2. /\ ledger[s].balance \in Nat /\ wallet[s].session \in Nat
        /\ SessionCap[s] \in Nat /\ InFlight(s) \in Nat
    BY <2>1, Types, SessionCaps DEF Counters, Calls, InFlight
  <2>. QED  BY <2>1, <2>2 DEF Tracked, Fits
<1>. QED  BY <1>1, CapInvariance, PTL

\* The blocks of a reliable session send no more than the daily cap on any UTC
\* day, wherever midnight falls in a send (_roll_day, check_spend, send).
THEOREM SessionDayCapSafe == Spec => []SessionDayCapKept
<1>1. CapInv => SessionDayCapKept
  BY DEF CapInv
<1>. QED  BY <1>1, CapInvariance, PTL

-----------------------------------------------------------------------------
(* What an expired mandate may still cost.                                 *)

\* Nothing is published ahead of the clock, and a send that its mandate lets
\* through is the first that could be late, for no more than the mandate's cap.
Punctual(s) == /\ \A d \in Days : d > clock => published[s][d] = 0
               /\ call[s].stage \in {"allowed", "checked"} =>
                     Late(s) = {} /\ call[s].amount <= SessionCap[s]

\* Steps that publish nothing leave it so, if they let nothing through.
LEMMA PunctualStays ==
    ASSUME CapInv, NEW s \in Sessions, Punctual(s),
           published'[s] = published[s], clock' = clock \/ clock' = clock + 1,
           call'[s].stage \in {"allowed", "checked"} =>
              /\ call[s].stage \in {"allowed", "checked"}
              /\ call'[s].amount = call[s].amount
    PROVE  Punctual(s)'
<1>1. clock \in Nat /\ Days \subseteq Nat
  BY LastDayAssumption, Types DEF CapInv, Days
<1>2. \A d \in Days : d > clock' => d > clock
  BY <1>1
<1>3. Late(s)' = Late(s)
  BY DEF Late
<1>. QED  BY <1>2, <1>3 DEF Punctual

\* check_spend lets a send through before its mandate expires.
LEMMA CheckedInTime ==
    ASSUME CapInv, NEW s \in Sessions, Punctual(s), CheckSession(s)
    PROVE  Punctual(s)'
<1>. TypeOK
  BY DEF CapInv
<1>1. /\ call'[s].stage = "allowed" /\ call'[s].amount = call[s].amount
      /\ published' = published /\ clock' = clock
  <2>. DEFINE c == [call[s] EXCEPT !.stage = "allowed"]
  <2>1. /\ call' = [call EXCEPT ![s] = c]
        /\ c.stage = "allowed" /\ c.amount = call[s].amount
    BY GotoMoves DEF CheckSession, Stages
  <2>. HIDE DEF c
  <2>. QED  BY <2>1 DEF TypeOK, CheckSession
<1>2. /\ clock \in Nat /\ Days \subseteq Nat /\ LastValid[s] \in Nat
      /\ call[s].amount \in Nat /\ wallet[s].session \in Nat /\ SessionCap[s] \in Nat
  BY LastDayAssumption, SessionDays, SessionCaps, Types DEF CapInv, Days, Calls, Counters
<1>3. clock <= LastValid[s] /\ wallet[s].session + call[s].amount <= SessionCap[s]
  BY <1>2 DEF CheckSession, SessionAllows, Expired
<1>4. Late(s) = {}
  <2>. SUFFICES ASSUME NEW d \in Days, d > LastValid[s]  PROVE ~(published[s][d] > 0)
    BY DEF Late
  <2>1. d > clock
    BY <1>2, <1>3
  <2>. QED  BY <2>1 DEF Punctual
<1>. QED  BY <1>1, <1>2, <1>3, <1>4 DEF Punctual, Late

\* The block that is accepted is that of the send that was checked, for its amount.
LEMMA LateBlock ==
    ASSUME CapInv, NEW s \in Sessions, Punctual(s), Processed(s)
    PROVE  /\ Punctual(s)'
           /\ Late(s) = {} /\ clock \in Days
           /\ published'[s][clock] = published[s][clock] + call[s].amount
           /\ call[s].amount <= SessionCap[s]
<1>1. /\ call[s].amount \in Nat /\ call[s].balance \in Nat /\ clock \in Days
      /\ published[s] \in [Days -> Nat] /\ clock \in Nat
  BY Types DEF CapInv, Calls
<1>2. call[s].balance = ledger[s].balance
  BY DEF CapInv, Current, Processed, At
<1>3. ledger[s].balance - (call[s].balance - call[s].amount) = call[s].amount
  BY <1>1, <1>2
<1>4. published' = [published EXCEPT ![s][clock] = @ + call[s].amount]
  BY <1>3 DEF Processed
<1>5. \A d \in Days : published'[s][d] =
         IF d = clock THEN published[s][d] + call[s].amount ELSE published[s][d]
  BY <1>1, <1>4 DEF CapInv, TypeOK
<1>6. clock' = clock /\ call'[s].stage = "accepted"
  <2>. DEFINE c == [call[s] EXCEPT !.stage = "accepted"]
  <2>1. call' = [call EXCEPT ![s] = c] /\ c.stage = "accepted"
    BY GotoMoves DEF CapInv, Processed, Stages
  <2>. HIDE DEF c
  <2>. QED  BY <2>1 DEF CapInv, TypeOK, Processed
<1>7. Punctual(s)'
  BY <1>1, <1>5, <1>6 DEF Punctual
<1>. QED  BY <1>1, <1>5, <1>7 DEF Punctual, Processed, At

\* What a step does to the one session, or to none.
LEMMA PunctualStep ==
    ASSUME CapInv, NEW s \in Sessions, Punctual(s), [Next]_vars
    PROVE  /\ Punctual(s)'
           /\ published'[s] # published[s] => Processed(s)
<1>1. /\ call \in [Sessions -> Calls]
      /\ published \in [Sessions -> [Days -> Nat]]
  BY DEF CapInv, TypeOK, Calls
<1>. DEFINE Steady == /\ published'[s] = published[s]
                      /\ clock' = clock \/ clock' = clock + 1
                      /\ call'[s].stage \in {"allowed", "checked"} =>
                            /\ call[s].stage \in {"allowed", "checked"}
                            /\ call'[s].amount = call[s].amount
<1>2. CASE \E u \in Sessions, n \in Amounts : Send(u, n)
  <2>1. PICK u \in Sessions, n \in Amounts : Send(u, n)
    BY <1>2
  <2>2. Steady
    BY <1>1, <2>1 DEF Send, NoCall
  <2>. QED  BY <2>2, PunctualStays
<1>3. ASSUME NEW u \in Sessions, Step(u) \/ Stop(u) \/ Start(u)
      PROVE  Punctual(s)' /\ (published'[s] # published[s] => Processed(s))
  <2>1. CASE Return(u) \/ call' = [call EXCEPT ![u] = Down]
    <3>1. call'[u].stage \in {"idle", "down"} /\ (s # u => call'[s] = call[s])
      BY <1>1, <2>1 DEF Return, NoCall, Down
    <3>2. ~Processed(u)
      <4>1. ASSUME Processed(u) PROVE call'[u].stage = "accepted"
        BY <1>1, <4>1 DEF Processed, Goto, Calls
      <4>. QED  BY <3>1, <4>1
    <3>3. published' = published /\ clock' = clock
      BY <1>3, <3>2 DEF Step, AccountInfo, AccountInfoRaises, CheckSession,
         CheckSessionRaises, CheckDay, CheckDayRaises, WorkRaises, AnswerLost, Record,
         Stop, Start
    <3>4. Steady
      BY <3>1, <3>3
    <3>. QED  BY <3>4, PunctualStays
  <2>2. CASE AccountInfo(u) \/ CheckDay(u)
    <3>1. Steady
      BY <1>1, <2>2 DEF AccountInfo, CheckDay, Goto, At, Calls
    <3>. QED  BY <3>1, PunctualStays
  <2>3. CASE CheckSession(u)
    <3>1. CASE u = s
      BY <2>3, <3>1, CheckedInTime DEF CheckSession
    <3>2. CASE u # s
      <4>1. Steady
        BY <1>1, <2>3, <3>2 DEF CheckSession, Goto
      <4>. QED  BY <4>1, PunctualStays
    <3>. QED  BY <3>1, <3>2
  <2>4. CASE Processed(u)
    <3>1. CASE u = s
      BY <2>4, <3>1, LateBlock
    <3>2. CASE u # s
      <4>1. Steady
        BY <1>1, <2>4, <3>2 DEF Processed, Goto
      <4>. QED  BY <4>1, PunctualStays
    <3>. QED  BY <3>1, <3>2
  <2>. QED  BY <1>3, <2>1, <2>2, <2>3, <2>4 DEF Step, AccountInfoRaises,
            CheckSessionRaises, CheckDayRaises, WorkRaises, AnswerLost, Record, Stop, Start
<1>4. CASE Tick \/ UNCHANGED vars
  <2>1. Steady
    BY <1>4 DEF Tick, Midnight, vars
  <2>. QED  BY <2>1, PunctualStays
<1>. QED  BY <1>2, <1>3, <1>4 DEF Next

\* Once a mandate has expired, at most the one send that was past its check still
\* publishes a block, for no more than the mandate's cap, whatever fails and
\* however often the session is started again (verify_mandate in __init__ and
\* check_spend, send).
THEOREM ExpiredCostsLittle == Spec => ExpiredCostsOneSend
<1>. DEFINE P == \A s \in Sessions : Punctual(s)
            Q == \A s \in Sessions :
                   Expired(s) /\ published'[s] # published[s] =>
                      Late(s) = {} /\ published'[s][clock] <= SessionCap[s]
<1>1. Init => P
  BY DEF Init, NoCall, Punctual
<1>2. CapInv /\ P /\ [Next]_vars => P'
  BY PunctualStep
<1>3. CapInv /\ P /\ [Next]_vars => [Q]_vars
  <2>. SUFFICES ASSUME CapInv, P, Next, NEW s \in Sessions, Expired(s),
                       published'[s] # published[s]
                PROVE  Late(s) = {} /\ published'[s][clock] <= SessionCap[s]
    OBVIOUS
  <2>1. /\ Late(s) = {} /\ clock \in Days
        /\ published'[s][clock] = published[s][clock] + call[s].amount
        /\ call[s].amount <= SessionCap[s]
    BY PunctualStep, LateBlock
  <2>2. published[s][clock] \in Nat /\ call[s].amount \in Nat
    BY <2>1, Types DEF CapInv, Calls
  <2>3. published[s][clock] = 0
    BY <2>1, <2>2 DEF Late, Expired
  <2>. QED  BY <2>1, <2>2, <2>3
<1>. HIDE DEF P, Q
<1>4. Spec => [][Q]_vars
  BY <1>1, <1>2, <1>3, CapInvariance, PTL DEF Spec
<1>. QED  BY <1>4 DEF Q, ExpiredCostsOneSend

=============================================================================
