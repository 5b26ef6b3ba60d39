--------------------------- MODULE HandshakeProofs --------------------------
(***************************************************************************)
(* Proofs about Handshake, for any bounds and any lines and texts: what    *)
(* the readers hold is what was written, a report is complete when every   *)
(* text decodes, no server is left running, and a healthy one only fails   *)
(* by being late.                                                          *)
(***************************************************************************)
EXTENDS Handshake, SequenceTheorems, TLAPS

-----------------------------------------------------------------------------
(* Texts, and where they are.                                              *)

\* One more text changes the places of its own writer only.
LEMMA ByAppend ==
    ASSUME NEW S, NEW ts \in Seq(S), NEW t \in S, NEW who
    PROVE  By(who, Append(ts, t)) = By(who, ts) \cup (IF t = who THEN {Len(ts) + 1} ELSE {})
BY DEF By

\* A beginning of a sequence agrees with it place by place.
LEMMA Beginning ==
    ASSUME NEW S, NEW long \in Seq(S), NEW short \in Seq(S), Len(short) <= Len(long)
    PROVE  short = SubSeq(long, 1, Len(short))
             <=> \A i \in 1..Len(short) : short[i] = long[i]
<1>1. /\ SubSeq(long, 1, Len(short)) \in Seq(S)
      /\ Len(SubSeq(long, 1, Len(short))) = Len(short)
      /\ \A i \in 1..Len(short) : SubSeq(long, 1, Len(short))[i] = long[i]
  OBVIOUS
<1> QED BY <1>1, SeqEqual

\* A queue at a pipe's end stays a queue of the same lines.
LEMMA QueueStays ==
    ASSUME NEW S, NEW q \in Seq(S)
    PROVE  /\ \A e \in S : Append(q, e) \in Seq(S)
           /\ q # <<>> => Head(q) \in S /\ Tail(q) \in Seq(S)
OBVIOUS

\* The step of the readers, the server and handshake, with what each may change.
LEMMA TypeKeeps ==
    ASSUME TypeOK, [Next]_vars
    PROVE  TypeOK'
<1>0. stdin \in Seq(Frames) /\ stdout \in Seq(AllLines)
  BY DEF TypeOK
<1>1. ASSUME Main, UNCHANGED healthy PROVE TypeOK'
  <2>1. ASSUME NEW from, NEW to, NEW f \in Frames, Send(from, f, to) PROVE TypeOK'
    <3>1. stdin' = stdin \/ stdin' = Append(stdin, f)
      BY <2>1 DEF Send
    <3>2. stdin' \in Seq(Frames)
      BY <1>0, <2>1, <3>1, QueueStays
    <3> QED BY <1>1, <2>1, <3>2 DEF Send, reader, TypeOK
  <2>2. ASSUME NEW from, NEW id, Reply(from, id) PROVE TypeOK'
    <3>1. lines # <<>> /\ lines' = Tail(lines)
      BY <2>2 DEF Reply
    <3>2. UNCHANGED <<errors, pump, marked, late, world>>
      BY <2>2 DEF Reply
    <3> QED BY <1>1, <3>1, <3>2 DEF world, TypeOK
  <2>3. CASE TimesOut \/ Close \/ Report \/ Mark \/ Wait
    BY <1>1, <2>3 DEF TimesOut, Close, Report, Mark, Wait, reader, result, world, TypeOK
  <2>4. ASSUME NEW from, NEW p, NEW to, Join(from, p, to) PROVE TypeOK'
    BY <1>1, <2>4 DEF Join, reader, result, world, TypeOK
  <2> QED BY <1>1, <2>1, <2>2, <2>3, <2>4 DEF Main, Frames
<1>2. CASE DrainStdout /\ UNCHANGED healthy
  <2>1. UNCHANGED <<said, errors, unread, stdin, server, leftover, open, late, marked>>
    BY <1>2 DEF DrainStdout, result
  <2>2. pump' \in [out : BOOLEAN, err : BOOLEAN]
    BY <1>2 DEF DrainStdout, TypeOK
  <2>3. stdout' \in Seq(AllLines)
    BY <1>2, EmptySeq, HeadTailProperties DEF DrainStdout, TypeOK
  <2>4. lines' \in Seq(AllLines \cup {"EOF"})
    <3>1. CASE stdout # <<>> /\ lines' = Append(lines, Head(stdout))
      BY <3>1, HeadTailProperties, AppendProperties DEF TypeOK
    <3>2. CASE lines' = Append(lines, "EOF")
      BY <3>2, AppendProperties DEF TypeOK
    <3> QED BY <1>2, <3>1, <3>2 DEF DrainStdout
  <2> QED BY <1>2, <2>1, <2>2, <2>3, <2>4 DEF TypeOK
<1>3. CASE DrainStderr /\ UNCHANGED healthy
  <2>1. /\ UNCHANGED <<said, lines, stdin, stdout, server, leftover, open, late, marked>>
        /\ pump' \in [out : BOOLEAN, err : BOOLEAN]
    BY <1>3 DEF DrainStderr, result, TypeOK
  <2>2. errors' \in Seq(Texts) /\ unread' \in 0..Len(said)
    <3>1. CASE unread > 0 /\ errors' = Append(errors, NextText) /\ unread' = unread - 1
      <4>1. NextText \in Texts
        BY <3>1, ElementOfSeq DEF NextText, TypeOK
      <4> QED BY <3>1, <4>1, AppendProperties DEF TypeOK
    <3>2. CASE UNCHANGED <<errors, unread>>
      BY <3>2 DEF TypeOK
    <3> QED BY <1>3, <3>1, <3>2 DEF DrainStderr
  <2> QED BY <1>3, <2>1, <2>2 DEF TypeOK
<1>4. CASE (ServerReads \/ ServerWrites) /\ UNCHANGED healthy
  <2>1. UNCHANGED <<said, errors, unread, lines, pump, server, leftover, open, late,
                    marked>>
    BY <1>4 DEF ServerReads, ServerWrites, reader, result
  <2>2. stdin' \in Seq(Frames)
    <3>1. stdin' = stdin \/ (stdin # <<>> /\ stdin' = Tail(stdin))
      BY <1>4 DEF ServerReads, ServerWrites
    <3> QED BY <1>0, <3>1, QueueStays
  <2>3. UNCHANGED stdout \/ \E l \in AllLines : stdout' = Append(stdout, l)
    BY <1>4, LinesAssumption DEF ServerReads, ServerWrites, Answer, Write, AllLines
  <2>4. stdout' \in Seq(AllLines)
    <3>1. CASE UNCHANGED stdout
      BY <1>0, <3>1
    <3>2. ASSUME NEW l \in AllLines, stdout' = Append(stdout, l)
          PROVE  stdout' \in Seq(AllLines)
      BY <1>0, <3>2, QueueStays
    <3> QED BY <2>3, <3>1, <3>2
  <2> QED BY <1>4, <2>1, <2>2, <2>4 DEF TypeOK
<1>5. CASE Complains /\ UNCHANGED healthy
  BY <1>5 DEF Complains, reader, result, TypeOK
<1>6. CASE (ServerExits \/ Forks \/ LeftoverExits \/ DeadlinePasses) /\ UNCHANGED healthy
  BY <1>6 DEF ServerExits, Forks, LeftoverExits, DeadlinePasses, reader, result, world,
               TypeOK
<1>7. CASE UNCHANGED vars
  BY <1>7 DEF vars, reader, result, world, TypeOK
<1> QED BY <1>1, <1>2, <1>3, <1>4, <1>5, <1>6, <1>7 DEF Next

-----------------------------------------------------------------------------
(* The pump of stderr.                                                     *)

\* Who does not touch stderr, and brings nobody back who could.
LEMMA Elsewhere ==
    ASSUME TypeOK, [Next]_vars, ~Complains, ~DrainStderr
    PROVE  /\ UNCHANGED <<said, errors, unread>>
           /\ pump'.err = pump.err
           /\ Held' => Held
<1>1. CASE Main
  <2>1. ASSUME NEW from, NEW f, NEW to, Send(from, f, to)
        PROVE  UNCHANGED <<reader, server, leftover, said, unread>>
    BY <2>1 DEF Send
  <2>2. ASSUME NEW from, NEW id, Reply(from, id)
        PROVE  UNCHANGED <<errors, pump, server, leftover, said, unread>>
    BY <2>2 DEF Reply, world
  <2>3. ASSUME NEW from, NEW p, NEW to, Join(from, p, to)
        PROVE  UNCHANGED <<reader, server, leftover, said, unread>>
    BY <2>3 DEF Join, world
  <2>4. /\ UNCHANGED <<errors, pump, leftover, said, unread>>
        /\ server' = "up" => server = "up"
    <3>1. CASE TimesOut \/ Close \/ Report
      BY <3>1 DEF TimesOut, Close, Report, reader, world
    <3>2. CASE Wait
      BY <3>2 DEF Wait, reader
    <3>3. CASE Mark
      BY <3>3 DEF Mark, reader, world
    <3> QED BY <1>1, <2>1, <2>2, <2>3, <3>1, <3>2, <3>3 DEF Main, reader
  <2> QED BY <2>4 DEF Held
<1>2. CASE DrainStdout
  BY <1>2 DEF DrainStdout, Held, TypeOK
<1>3. CASE ServerReads \/ ServerWrites \/ ServerExits \/ Forks \/ LeftoverExits
  BY <1>3 DEF ServerReads, ServerWrites, ServerExits, Forks, LeftoverExits, reader, Held
<1>4. CASE DeadlinePasses \/ UNCHANGED vars
  BY <1>4 DEF DeadlinePasses, vars, reader, world, Held
<1> QED BY <1>1, <1>2, <1>3, <1>4 DEF Next

\* The pump, the pipe and the list together hold what was written (drain_stderr).
LEMMA PumpKeeps ==
    ASSUME PumpInv, [Next]_vars
    PROVE  PumpInv'
<1>1. TypeOK /\ TypeOK'
  BY TypeKeeps DEF PumpInv
<1>2. /\ said \in Seq(Texts) /\ errors \in Seq(Texts) /\ unread \in 0..Len(said)
      /\ said' \in Seq(Texts) /\ errors' \in Seq(Texts) /\ unread' \in 0..Len(said')
  BY <1>1 DEF TypeOK
<1>3. /\ Len(errors) + unread = Len(said)
      /\ \A i \in 1..Len(errors) : errors[i] = said[i]
  <2>1. Len(errors) + unread = Len(said) /\ errors = SubSeq(said, 1, Len(errors))
    BY DEF PumpInv
  <2>2. Len(errors) <= Len(said)
    BY <1>2, <2>1
  <2> QED BY <1>2, <2>1, <2>2, Beginning
<1>4. SUFFICES /\ Len(errors') + unread' = Len(said')
               /\ \A i \in 1..Len(errors') : errors'[i] = said'[i]
               /\ (~pump'.err /\ By("junk", said') = {}) => unread' = 0 /\ ~Held'
  <2>1. Len(errors') + unread' = Len(said') => Len(errors') <= Len(said')
    BY <1>2
  <2>2. errors' = SubSeq(said', 1, Len(errors'))
    BY <1>2, <1>4, <2>1, Beginning
  <2> QED BY <1>1, <1>4, <2>2 DEF PumpInv
<1>5. CASE Complains
  <2>1. PICK t \in Texts : /\ IF t = "leftover" THEN leftover ELSE server = "up"
                           /\ said' = Append(said, t)
    BY <1>5 DEF Complains
  <2>2. unread' = unread + 1 /\ errors' = errors /\ pump' = pump
    BY <1>5 DEF Complains, reader
  <2>3. Len(errors') + unread' = Len(said')
    <3>1. Len(said') = Len(said) + 1
      BY <1>2, <2>1
    <3> QED BY <1>2, <1>3, <2>2, <3>1
  <2>4. \A i \in 1..Len(errors') : errors'[i] = said'[i]
    <3>1. \A i \in 1..Len(said) : said'[i] = said[i]
      BY <1>2, <2>1, AppendProperties
    <3>2. 1..Len(errors) \subseteq 1..Len(said)
      BY <1>2, <1>3
    <3> QED BY <1>3, <2>2, <3>1, <3>2
  <2>5. By("junk", said) \subseteq By("junk", said')
    BY <1>2, <2>1, ByAppend
  <2>6. Held
    BY <2>1 DEF Held
  <2> QED BY <2>2, <2>3, <2>4, <2>5, <2>6 DEF PumpInv
<1>6. CASE DrainStderr
  <2>1. said' = said /\ (Held' <=> Held)
    BY <1>6 DEF DrainStderr, Held
  <2>2. CASE /\ unread > 0 /\ errors' = Append(errors, NextText)
             /\ unread' = unread - 1 /\ UNCHANGED pump
    <3>1. NextText = said[Len(errors) + 1] /\ Len(errors) + 1 <= Len(said)
      <4>1. Len(said) - unread + 1 = Len(errors) + 1
        BY <1>2, <1>3
      <4> QED BY <1>2, <1>3, <2>2, <4>1 DEF NextText
    <3>2. NextText \in Texts
      BY <1>2, <3>1
    <3>3. Len(errors') = Len(errors) + 1
      BY <1>2, <2>2, <3>2
    <3>4. \A i \in 1..Len(errors') : errors'[i] = said[i]
      BY <1>2, <1>3, <2>2, <3>1, <3>2, <3>3
    <3>5. Len(errors') + unread' = Len(said')
      BY <1>2, <1>3, <2>1, <2>2, <3>3
    <3>6. ~pump.err => By("junk", said) # {}
      BY <2>2 DEF PumpInv
    <3> QED BY <2>1, <2>2, <3>4, <3>5, <3>6
  <2>3. CASE /\ IF unread = 0 THEN ~Held ELSE NextText = "junk"
             /\ UNCHANGED <<errors, unread>>
    <3>1. unread # 0 => By("junk", said) # {}
      <4>1. Len(said) - unread + 1 = Len(errors) + 1
        BY <1>2, <1>3
      <4>2. unread # 0 => Len(errors) + 1 \in 1..Len(said)
        BY <1>2, <1>3
      <4> QED BY <2>3, <4>1, <4>2 DEF By, NextText
    <3> QED BY <1>3, <2>1, <2>3, <3>1
  <2> QED BY <1>6, <2>2, <2>3 DEF DrainStderr
<1>7. CASE ~Complains /\ ~DrainStderr
  BY <1>1, <1>3, <1>7, Elsewhere DEF PumpInv
<1> QED BY <1>5, <1>6, <1>7

-----------------------------------------------------------------------------
(* A healthy server.                                                       *)

\* Queues of one and two, as they are filled and emptied.
LEMMA ShortQueues ==
    \A a, b : /\ Append(<<>>, a) = <<a>> /\ Append(<<a>>, b) = <<a, b>>
              /\ <<a>> # <<>> /\ Head(<<a>>) = a /\ Tail(<<a>>) = <<>>
              /\ <<a, b>> # <<>> /\ Head(<<a, b>>) = a /\ Tail(<<a, b>>) = <<b>>
<1> TAKE a, b
<1>1. Append(<<>>, a) = <<a>>
  OBVIOUS
<1>5. Append(<<a>>, b) = <<a, b>>
  <2> DEFINE ab == Append(<<a>>, b)
  <2>1. /\ <<a>> \in Seq({a, b}) /\ Len(<<a>>) = 1 /\ <<a>>[1] = a
        /\ <<a, b>> \in Seq({a, b}) /\ Len(<<a, b>>) = 2
        /\ <<a, b>>[1] = a /\ <<a, b>>[2] = b
    OBVIOUS
  <2>2. ab \in Seq({a, b}) /\ Len(ab) = 2
    BY <2>1
  <2>3. ab[2] = b
    BY <2>1
  <2>4. ab[1] = a
    BY <2>1
  <2>5. \A i \in 1..2 : ab[i] = <<a, b>>[i]
    BY <2>1, <2>3, <2>4
  <2> QED BY <2>1, <2>2, <2>5, SeqEqual
<1>2. <<a>> # <<>> /\ Head(<<a>>) = a /\ Tail(<<a>>) = <<>>
  OBVIOUS
<1>3. <<a, b>> # <<>> /\ Head(<<a, b>>) = a
  OBVIOUS
<1>4. Tail(<<a, b>>) = <<b>>
  OBVIOUS
<1> QED BY <1>1, <1>2, <1>3, <1>4, <1>5

\* A healthy server's tools are found behind its first answer (handshake's last line).
LEMMA ToolsListed ==
    Listed(<<"init", "tools">>) = "tools"
<1> DEFINE rs == <<"init", "tools">>
           First(i) == Id(rs[i]) = 2 /\ \A j \in 1..(i - 1) : Id(rs[j]) # 2
<1>1. Id("init") = 1 /\ Id("tools") = 2
  BY DEF Id
<1>2. DOMAIN rs = {1, 2} /\ rs[1] = "init" /\ rs[2] = "tools"
  OBVIOUS
<1>3. First(2)
  BY <1>1, <1>2
<1>4. \A i \in DOMAIN rs : First(i) => i = 2
  BY <1>1, <1>2
<1>5. (CHOOSE i \in DOMAIN rs : First(i)) = 2
  BY <1>2, <1>3, <1>4
<1> QED BY <1>2, <1>5 DEF Listed

\* Who changes nothing that a healthy server and handshake exchange.
LEMMA FlowElsewhere ==
    ASSUME FlowInv,
           UNCHANGED <<main, problem, replies, stdin, stdout, lines, open, server, healthy>>
    PROVE  FlowInv'
BY DEF FlowInv, InTurn, Quiet, Asking

\* A frame sent: handshake waits for the answer, or goes on to the next frame.
LEMMA SendFlows ==
    ASSUME FlowInv, healthy, healthy' = healthy,
           \/ Send("initialize", "initialize", "await init")
           \/ Send("initialized", "initialized", "list tools")
           \/ Send("list tools", "tools/list", "await tools")
    PROVE  FlowInv'
<1>1. main \in Asking /\ open /\ server = "up"
  BY DEF Send, FlowInv, Asking
<1>2. UNCHANGED <<problem, replies, lines, stdout, open, server>>
  BY <1>1 DEF Send, reader
<1>3. CASE Send("initialize", "initialize", "await init")
  <2>1. main' = "await init" /\ stdin' = <<"initialize">> /\ Quiet /\ replies = <<>>
    BY <1>1, <1>3, ShortQueues DEF Send, Goto, FlowInv
  <2> QED BY <1>1, <1>2, <2>1 DEF FlowInv, InTurn, Quiet, Asking
<1>4. CASE Send("initialized", "initialized", "list tools")
  <2>1. main' = "list tools" /\ stdin' = <<"initialized">> /\ Quiet /\ replies = <<"init">>
    BY <1>1, <1>4, ShortQueues DEF Send, Goto, FlowInv
  <2> QED BY <1>1, <1>2, <2>1 DEF FlowInv, InTurn, Quiet, Asking
<1>5. CASE Send("list tools", "tools/list", "await tools")
  <2>1. /\ main' = "await tools"
        /\ stdin' \in {<<"tools/list">>, <<"initialized", "tools/list">>}
        /\ Quiet /\ replies = <<"init">>
    BY <1>1, <1>5, ShortQueues DEF Send, Goto, FlowInv
  <2> QED BY <1>1, <1>2, <2>1 DEF FlowInv, InTurn, Quiet, Asking
<1> QED BY <1>3, <1>4, <1>5

\* How an exchange ends when the answer is there (handshake).
LEMMA ExchangeEnds ==
    ASSUME NEW rs
    PROVE  /\ Answered(1, rs) => main' = "initialized" /\ problem' = problem
           /\ Answered(2, rs) /\ Listed(rs) = "tools" => main' = "close" /\ problem' = problem
BY DEF Answered, HasResult, Goto, Stop

\* An answer read: the one that was awaited, and never one that stops handshake.
LEMMA ReplyFlows ==
    ASSUME FlowInv, healthy, healthy' = healthy,
           Reply("await init", 1) \/ Reply("await tools", 2)
    PROVE  FlowInv'
<1>1. CASE Reply("await init", 1)
  <2>1. main = "await init" /\ lines # <<>> /\ lines' = Tail(lines) /\ UNCHANGED world
    BY <1>1 DEF Reply
  <2>2. stdin = <<>> /\ stdout = <<>> /\ lines = <<"init">> /\ replies = <<>>
    BY <2>1 DEF FlowInv, InTurn, Quiet
  <2>3. Head(lines) = "init" /\ lines' = <<>> /\ Append(replies, "init") = <<"init">>
    BY <2>1, <2>2, ShortQueues
  <2>4. Id("init") = 1 /\ HasResult("init")
    BY DEF Id, HasResult
  <2>5. replies' = <<"init">> /\ Answered(1, <<"init">>)
    BY <1>1, <2>3, <2>4 DEF Reply
  <2>6. main' = "initialized" /\ problem' = problem
    BY <2>5, ExchangeEnds
  <2> QED BY <2>1, <2>2, <2>3, <2>5, <2>6 DEF FlowInv, Quiet, Asking, world
<1>2. CASE Reply("await tools", 2)
  <2>1. main = "await tools" /\ lines # <<>> /\ lines' = Tail(lines) /\ UNCHANGED world
    BY <1>2 DEF Reply
  <2>2. lines = <<"tools">> /\ replies = <<"init">>
    BY <2>1 DEF FlowInv, InTurn, Quiet
  <2>3. Head(lines) = "tools" /\ Append(replies, "tools") = <<"init", "tools">>
    BY <2>1, <2>2, ShortQueues
  <2>4. Id("tools") = 2 /\ HasResult("tools")
    BY DEF Id, HasResult
  <2>5. Answered(2, <<"init", "tools">>)
    BY <1>2, <2>3, <2>4 DEF Reply
  <2>6. main' = "close" /\ problem' = problem
    BY <2>5, ToolsListed, ExchangeEnds
  <2> QED BY <2>6 DEF FlowInv, Asking
<1> QED BY <1>1, <1>2

\* The server's turn, and its pump's: the frame or the answer moves on.
LEMMA PipeFlows ==
    ASSUME FlowInv, healthy, healthy' = healthy, ServerReads \/ DrainStdout
    PROVE  FlowInv'
<1>1. UNCHANGED <<main, problem, replies, open, server>>
  BY DEF ServerReads, DrainStdout, result
<1>2. CASE main \notin Asking
  BY <1>1, <1>2 DEF FlowInv, Asking
<1>3. CASE main \in Asking
  <2>1. Held
    BY <1>3 DEF FlowInv, Held
  <2>2. CASE ServerReads
    <3>1. /\ stdin # <<>> /\ stdin' = Tail(stdin) /\ lines' = lines
          /\ Answer(Head(stdin))
      BY <2>2 DEF ServerReads, reader
    <3>2. CASE stdin = <<"initialize">>
      <4>1. stdin' = <<>> /\ Head(stdin) = "initialize"
        BY <3>1, <3>2, ShortQueues
      <4>2. Quiet => stdout' = <<"init">>
        BY <3>1, <4>1, ShortQueues DEF Answer, Write, Quiet
      <4>3. main = "await init" /\ Quiet
        BY <1>3, <3>2, ShortQueues DEF FlowInv, InTurn, Asking
      <4> QED BY <1>1, <3>1, <4>1, <4>2, <4>3 DEF FlowInv, InTurn, Quiet, Asking
    <3>3. CASE stdin = <<"tools/list">>
      <4>1. stdin' = <<>> /\ Head(stdin) = "tools/list"
        BY <3>1, <3>3, ShortQueues
      <4>2. Quiet => stdout' = <<"tools">>
        BY <3>1, <4>1, ShortQueues DEF Answer, Write, Quiet
      <4>3. main = "await tools" /\ Quiet
        BY <1>3, <3>3, ShortQueues DEF FlowInv, InTurn, Asking
      <4> QED BY <1>1, <3>1, <4>1, <4>2, <4>3 DEF FlowInv, InTurn, Quiet, Asking
    <3>4. CASE stdin \in {<<"initialized">>, <<"initialized", "tools/list">>}
      <4>1. /\ Head(stdin) = "initialized"
            /\ stdin = <<"initialized">> => stdin' = <<>>
        <5>1. CASE stdin = <<"initialized">>
          BY <3>1, <5>1, ShortQueues
        <5>2. CASE stdin = <<"initialized", "tools/list">>
          <6>1. Head(stdin) = "initialized" /\ stdin' = <<"tools/list">>
            BY <3>1, <5>2, ShortQueues
          <6>2. stdin # <<"initialized">>
            BY <3>1, <5>2, <6>1, ShortQueues
          <6> QED BY <6>1, <6>2
        <5> QED BY <3>4, <5>1, <5>2
      <4>2. stdout' = stdout
        BY <3>1, <4>1 DEF Answer
      <4>3. \/ main = "list tools" /\ stdin = <<"initialized">> /\ Quiet
            \/ main = "await tools" /\ stdin = <<"initialized", "tools/list">> /\ Quiet
        <5>1. stdin # <<>> /\ stdin # <<"initialize">> /\ stdin # <<"tools/list">>
          BY <3>1, <4>1, ShortQueues
        <5> QED BY <1>3, <3>4, <5>1 DEF FlowInv, InTurn, Asking
      <4>4. CASE main = "list tools" /\ stdin = <<"initialized">> /\ Quiet
        <5>1. stdin' = <<>>
          BY <4>1, <4>4
        <5> QED BY <1>1, <3>1, <4>2, <4>4, <5>1 DEF FlowInv, Quiet, Asking
      <4>5. CASE main = "await tools" /\ stdin = <<"initialized", "tools/list">> /\ Quiet
        <5>1. stdin' = <<"tools/list">>
          BY <3>1, <4>5, ShortQueues
        <5> QED BY <1>1, <3>1, <4>2, <4>5, <5>1 DEF FlowInv, InTurn, Quiet, Asking
      <4> QED BY <4>3, <4>4, <4>5
    <3> QED BY <1>3, <3>1, <3>2, <3>3, <3>4 DEF FlowInv, InTurn, Asking
  <2>3. CASE DrainStdout
    <3>1. stdin' = stdin
      BY <2>3 DEF DrainStdout
    <3>2. stdout # <<>>
      BY <2>1, <2>3 DEF DrainStdout
    <3>3. \/ main = "await init" /\ stdin = <<>> /\ stdout = <<"init">> /\ lines = <<>>
          \/ main = "await tools" /\ stdin = <<>> /\ stdout = <<"tools">> /\ lines = <<>>
      BY <1>3, <3>2 DEF FlowInv, InTurn, Quiet, Asking
    <3>4. lines' = stdout /\ stdout' = <<>>
      <4>1. \E l \in {"init", "tools"} : stdout = <<l>> /\ lines = <<>>
        BY <3>3
      <4>2. PICK l \in {"init", "tools"} : stdout = <<l>> /\ lines = <<>>
        BY <4>1
      <4>3. Head(stdout) = l /\ Tail(stdout) = <<>> /\ Append(lines, l) = <<l>>
        BY <4>2, ShortQueues
      <4>4. lines' = Append(lines, Head(stdout)) /\ stdout' = Tail(stdout)
        BY <2>3, <3>2, <4>2, <4>3 DEF DrainStdout
      <4> QED BY <4>2, <4>3, <4>4
    <3> QED BY <1>1, <3>1, <3>3, <3>4 DEF FlowInv, InTurn, Quiet, Asking
  <2> QED BY <2>2, <2>3
<1> QED BY <1>2, <1>3

\* What a healthy server is asked and answers, over a whole step.
LEMMA FlowKeeps ==
    ASSUME FlowInv, [Next]_vars
    PROVE  FlowInv'
<1>1. healthy' = healthy
  BY DEF Next, vars
<1>2. CASE ~healthy
  BY <1>1, <1>2 DEF FlowInv
<1>3. CASE healthy
  <2>1. CASE TimesOut \/ Close \/ Wait \/ Report \/ Mark
    BY <1>1, <2>1 DEF TimesOut, Close, Wait, Report, Mark, Stop, Goto, result, FlowInv, Asking
  <2>2. CASE Join("join out", "out", "join err") \/ Join("join err", "err", "report")
    BY <1>1, <2>2 DEF Join, Goto, result, FlowInv, Asking
  <2>3. CASE Main
    BY <1>1, <1>3, <2>1, <2>2, <2>3, SendFlows, ReplyFlows DEF Main
  <2>4. CASE ServerReads \/ DrainStdout
    BY <1>1, <1>3, <2>4, PipeFlows
  <2>5. CASE ServerExits
    BY <1>1, <2>5 DEF ServerExits, reader, result, FlowInv, Asking
  <2>6. CASE ServerWrites
    BY <1>3, <2>6 DEF ServerWrites
  <2>7. CASE Complains \/ Forks \/ LeftoverExits \/ DeadlinePasses \/ DrainStderr
             \/ UNCHANGED vars
    <3>1. UNCHANGED <<main, problem, replies, stdin, stdout, lines, open, server>>
      BY <2>7 DEF Complains, Forks, LeftoverExits, DeadlinePasses, DrainStderr, vars,
                  reader, result, world
    <3> QED BY <1>1, <3>1, FlowElsewhere
  <2> QED BY <2>3, <2>4, <2>5, <2>6, <2>7 DEF Next
<1> QED BY <1>2, <1>3

-----------------------------------------------------------------------------
(* The report.                                                             *)

Stopped == {"join out", "join err", "report", "mark", "done"}   \* past wait and kill

\* Only wait and the steps after it bring handshake behind the kill (stop).
LEMMA MainSteps ==
    ASSUME Main, main' \in Stopped
    PROVE  \/ Wait
           \/ Join("join out", "out", "join err") \/ Join("join err", "err", "report")
           \/ Report \/ Mark
<1>1. CASE Reply("await init", 1) \/ Reply("await tools", 2)
  BY <1>1 DEF Reply, Answered, Stop, Goto, Stopped
<1>2. CASE TimesOut \/ Close
  BY <1>2 DEF TimesOut, Close, Stop, Goto, Stopped
<1>3. ASSUME NEW from, NEW f, NEW to, Send(from, f, to), to \in Asking
      PROVE  main' \notin Stopped
  BY <1>3 DEF Send, Stop, Goto, Asking, Stopped
<1> QED BY <1>1, <1>2, <1>3 DEF Main, Asking

\* No server comes back, and none goes on once handshake has waited for it.
LEMMA StaysStopped ==
    ASSUME [Next]_vars, main \in Stopped => server # "up"
    PROVE  main' \in Stopped => server' # "up"
<1>1. CASE Main
  <2>1. CASE Wait
    BY <2>1 DEF Wait
  <2>2. CASE \/ Join("join out", "out", "join err") \/ Join("join err", "err", "report")
             \/ Report \/ Mark
    BY <2>2 DEF Join, Report, Mark, Stopped, world
  <2> QED BY <1>1, <2>1, <2>2, MainSteps
<1>2. CASE \/ DrainStdout \/ DrainStderr \/ DeadlinePasses \/ ServerReads \/ ServerWrites
           \/ Complains \/ ServerExits \/ Forks \/ LeftoverExits \/ UNCHANGED vars
  <2>1. main' = main /\ (server' = server \/ server' = "exited")
    BY <1>2 DEF DrainStdout, DrainStderr, DeadlinePasses, ServerReads, ServerWrites,
                Complains, ServerExits, Forks, LeftoverExits, vars, world
  <2> QED BY <2>1
<1> QED BY <1>1, <1>2 DEF Next

\* A beginning holds no text at another place.
LEMMA ByBeginning ==
    ASSUME NEW S, NEW long \in Seq(S), NEW short \in Seq(S), Len(short) <= Len(long),
           short = SubSeq(long, 1, Len(short)), NEW who
    PROVE  By(who, short) \subseteq By(who, long)
<1>1. \A i \in 1..Len(short) : short[i] = long[i]
  BY Beginning
<1> QED BY <1>1 DEF By

\* What is reported, from the last join to the return (stop).
LEMMA ReportKeeps ==
    ASSUME IInv, PumpInv', [Next]_vars
    PROVE  ReportInv'
<1> DEFINE Whole(ts, all) == By("server", ts) = By("server", all)
<1>1. main \in Stopped => server # "up"
  BY DEF IInv, ReportInv, Stopped
<1>2. main' \in Stopped => server' # "up"
  BY <1>1, StaysStopped
<1>3. /\ said \in Seq(Texts) /\ errors \in Seq(Texts) /\ Len(errors) + unread = Len(said)
      /\ said' \in Seq(Texts) /\ errors' \in Seq(Texts)
      /\ Len(errors') + unread' = Len(said') /\ unread \in Nat /\ unread' \in Nat
      /\ errors' = SubSeq(said', 1, Len(errors'))
  BY DEF IInv, PumpInv, TypeOK
<1>4. By("server", errors') \subseteq By("server", said')
  <2>1. Len(errors') <= Len(said')
    BY <1>3
  <2> QED BY <1>3, <2>1, ByBeginning
<1>5. SUFFICES ASSUME By("junk", said') = {}
               PROVE  /\ main' = "report" => Whole(errors', said')
                      /\ main' \in {"mark", "done"} => Whole(stderr', said')
  BY <1>2, <1>5 DEF ReportInv, Stopped
<1>6. CASE Complains
  <2>1. PICK t \in Texts : /\ IF t = "leftover" THEN leftover ELSE server = "up"
                           /\ said' = Append(said, t)
    BY <1>6 DEF Complains
  <2>2. UNCHANGED <<main, errors, stderr>>
    BY <1>6 DEF Complains, reader, result
  <2>3. By("junk", said) = {}
    BY <1>3, <1>5, <2>1, ByAppend
  <2>4. main \in Stopped => By("server", said') = By("server", said)
    <3>1. main \in Stopped => t # "server"
      BY <1>1, <2>1
    <3>2. By("server", Append(said, t))
            = By("server", said) \cup (IF t = "server" THEN {Len(said) + 1} ELSE {})
      BY <1>3, ByAppend
    <3> QED BY <2>1, <3>1, <3>2
  <2> QED BY <2>2, <2>3, <2>4 DEF IInv, ReportInv, Stopped
<1>7. CASE DrainStderr
  <2>1. UNCHANGED <<main, said, stderr>>
    BY <1>7 DEF DrainStderr, result
  <2>2. By("server", errors) \subseteq By("server", errors')
    <3>1. CASE errors' = Append(errors, NextText)
      <4>1. unread > 0 => NextText \in Texts
        BY <1>3 DEF NextText
      <4>2. unread > 0 \/ errors' = errors
        BY <1>7 DEF DrainStderr
      <4> QED BY <1>3, <3>1, <4>1, <4>2, ByAppend
    <3> QED BY <1>7, <3>1 DEF DrainStderr
  <2> QED BY <1>4, <1>5, <2>1, <2>2 DEF IInv, ReportInv
<1>8. CASE Main /\ ~Complains /\ ~DrainStderr
  <2>1. UNCHANGED <<said, errors, unread>>
    BY <1>8, Elsewhere DEF IInv, PumpInv
  <2>2. CASE Wait \/ Join("join out", "out", "join err")
    BY <2>2 DEF Wait, Join, Goto
  <2>3. CASE Join("join err", "err", "report")
    <3>1. unread = 0 /\ main' = "report"
      BY <1>5, <2>1, <2>3 DEF Join, Goto, GivesUp, IInv, PumpInv
    <3>2. errors' = said'
      BY <1>3, <2>1, <3>1
    <3> QED BY <3>1, <3>2
  <2>4. CASE Report
    <3>1. main = "report" /\ main' = "mark" /\ stderr' = errors
      BY <2>4 DEF Report, Goto
    <3> QED BY <1>5, <2>1, <3>1 DEF IInv, ReportInv
  <2>5. CASE Mark
    <3>1. main = "mark" /\ main' = "done" /\ stderr' = stderr
      BY <2>5 DEF Mark, Goto
    <3> QED BY <1>5, <2>1, <3>1 DEF IInv, ReportInv
  <2> QED BY <1>8, <2>2, <2>3, <2>4, <2>5, MainSteps DEF Stopped
<1>9. CASE ~Complains /\ ~DrainStderr /\ ~Main
  <2>1. UNCHANGED <<said, errors>>
    BY <1>9, Elsewhere DEF IInv, PumpInv
  <2>2. UNCHANGED <<main, stderr>>
    BY <1>9 DEF Next, DrainStdout, DeadlinePasses, ServerReads, ServerWrites, ServerExits,
                Forks, LeftoverExits, vars, result
  <2> QED BY <1>5, <2>1, <2>2 DEF IInv, ReportInv
<1> QED BY <1>6, <1>7, <1>8, <1>9

-----------------------------------------------------------------------------
(* The theorems.                                                           *)

\* Whatever is written and whoever is left behind, the three parts of the
\* invariant hold in every state of a handshake.
THEOREM Invariance == Spec => []IInv
<1>1. Init => IInv
  <2>1. ASSUME Init PROVE TypeOK
    <3>1. /\ <<>> \in Seq(Texts) /\ <<>> \in Seq(AllLines) /\ <<>> \in Seq(Frames)
          /\ <<>> \in Seq(AllLines \cup {"EOF"}) /\ Len(<<>>) = 0
      BY EmptySeq
    <3>2. [out |-> TRUE, err |-> TRUE] \in [out : BOOLEAN, err : BOOLEAN]
      OBVIOUS
    <3>3. pump \in [out : BOOLEAN, err : BOOLEAN]
      BY <2>1, <3>2 DEF Init
    <3>4. unread \in 0..Len(said)
      BY <2>1, <3>1 DEF Init
    <3> QED BY <2>1, <3>1, <3>3, <3>4 DEF Init, TypeOK
  <2>2. ASSUME Init PROVE PumpInv
    <3>1. Len(errors) = 0 /\ Len(said) = 0 /\ errors = SubSeq(said, 1, Len(errors))
      BY <2>2 DEF Init
    <3>2. pump.err /\ unread = 0
      BY <2>2 DEF Init
    <3> QED BY <2>1, <2>2, <3>1, <3>2 DEF PumpInv
  <2>3. ASSUME Init PROVE FlowInv /\ ReportInv
    BY <2>3 DEF Init, FlowInv, ReportInv, Quiet, Asking
  <2> QED BY <2>2, <2>3 DEF IInv
<1>2. IInv /\ [Next]_vars => IInv'
  BY PumpKeeps, FlowKeeps, ReportKeeps DEF IInv
<1> QED BY <1>1, <1>2, PTL DEF Spec

\* No text is lost or doubled between the pipe and the list of errors, and the
\* pump ends at the end of the pipe only (drain_stderr).
THEOREM PumpComplete == Spec => []PumpInv
<1>1. IInv => PumpInv
  BY DEF IInv
<1> QED BY <1>1, Invariance, PTL

\* A report without its warning holds every text the server wrote, when all it
\* writes decodes (stop).  HandBytes shows why that is needed.
THEOREM ReportComplete ==
    ASSUME "junk" \notin Texts
    PROVE  Spec => []ServerTextReported
<1>1. IInv => ServerTextReported
  <2> SUFFICES ASSUME IInv, main = "done"
               PROVE  By("server", stderr) = By("server", said)
    BY DEF ServerTextReported
  <2>1. By("junk", said) = {}
    <3>1. said \in Seq(Texts)
      BY DEF IInv, PumpInv, TypeOK
    <3> QED BY <3>1 DEF By
  <2> QED BY <2>1 DEF IInv, ReportInv
<1> QED BY <1>1, Invariance, PTL

\* A handshake that has returned leaves no server running (stop).
THEOREM NoServerLeft == Spec => []ServerStopped
<1>1. IInv => ServerStopped
  BY DEF IInv, ReportInv, ServerStopped
<1> QED BY <1>1, Invariance, PTL

\* A healthy server passes, or its answer was late (handshake, reply_to, send).
THEOREM HealthyNeverBlamed == Spec => []HealthyPasses
<1>1. IInv => HealthyPasses
  BY DEF IInv, FlowInv, HealthyPasses
<1> QED BY <1>1, Invariance, PTL

=============================================================================
