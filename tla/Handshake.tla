------------------------------ MODULE Handshake -----------------------------
(***************************************************************************)
(* tools.directory_handshake.handshake: one run of an MCP server over      *)
(* stdio.  The caller's thread sends three frames and reads two answers;   *)
(* two pump threads drain the server's pipes; the server does as it likes, *)
(* may leave a process behind that holds its pipes open, and is killed if  *)
(* it does not go.                                                         *)
(*                                                                         *)
(* A line is named for what handshake makes of it, and a text on stderr    *)
(* for who wrote it.  The pumps are never starved: a join gives up only on *)
(* a pump with nothing to read.  The server keeps its pipes open while it  *)
(* runs.  Popen succeeds.                                                  *)
(***************************************************************************)
EXTENDS Naturals, Sequences

CONSTANTS
    Lines,               \* what the server may write on stdout
    Texts,               \* what it, and what it leaves behind, may write on stderr
    Leftovers,           \* it may leave a process behind
    MaxLines, MaxTexts   \* bounds on the lines and the texts written

AllLines == {"init", "tools", "empty", "note", "noinit", "notools",
             "error", "banner", "scalar", "junk"}

ASSUME LinesAssumption == Lines \subseteq AllLines
ASSUME TextsAssumption == Texts \subseteq {"server", "leftover", "junk"}

VARIABLES
    main,                \* the next step of handshake
    problem,             \* result.problem
    replies,             \* result.replies
    stderr, marked,      \* result.stderr: the texts, and the warning after them
    late,                \* deadline has passed
    lines, errors,       \* the queue out, and the list errors
    pump,                \* the two reader threads
    stdin, open,         \* frames the server has not read, and more may come
    healthy,             \* it answers what it reads, and stays while stdin is open
    server, leftover,
    stdout, said,        \* the stdout pipe, and all that was written to stderr
    unread,              \* how many of those texts are still in the pipe
    written              \* lines written so far, for the bound

reader == <<lines, errors, pump>>
result == <<problem, replies, stderr, marked>>
world == <<stdin, open, server, leftover, stdout, said, unread, written>>
vars == <<main, late, reader, result, healthy, world>>

Init == /\ main = "initialize"
        /\ problem = "none" /\ replies = <<>> /\ stderr = <<>> /\ marked = FALSE
        /\ late = FALSE
        /\ lines = <<>> /\ errors = <<>>
        /\ pump = [out |-> TRUE, err |-> TRUE]
        /\ stdin = <<>> /\ open = TRUE
        /\ healthy \in BOOLEAN
        /\ server = "up" /\ leftover = FALSE
        /\ stdout = <<>> /\ said = <<>> /\ unread = 0 /\ written = 0

Held == server = "up" \/ leftover      \* someone can still write to the pipes

Goto(l) == main' = l

Stop(p) == /\ Goto("close")
           /\ problem' = p

-----------------------------------------------------------------------------
(* The server, and what it leaves behind.                                  *)

Write(line) == /\ written < MaxLines
               /\ stdout' = Append(stdout, line)
               /\ written' = written + 1

Answer(frame) == CASE frame = "initialize" -> Write("init")
                   [] frame = "tools/list" -> Write("tools")
                   [] OTHER -> UNCHANGED <<stdout, written>>

ServerReads == /\ server = "up"
               /\ stdin # <<>>
               /\ stdin' = Tail(stdin)
               /\ IF healthy THEN Answer(Head(stdin)) ELSE UNCHANGED <<stdout, written>>
               /\ UNCHANGED <<main, late, reader, result, open, server, leftover, said, unread>>

ServerWrites == /\ server = "up"
                /\ ~healthy
                /\ \E l \in Lines : Write(l)
                /\ UNCHANGED <<main, late, reader, result, stdin, open, server,
                               leftover, said, unread>>

Complains == /\ \E t \in Texts :
                  /\ IF t = "leftover" THEN leftover ELSE server = "up"
                  /\ said' = Append(said, t)
             /\ Len(said) < MaxTexts
             /\ unread' = unread + 1
             /\ UNCHANGED <<main, late, reader, result, stdin, open, server,
                            leftover, stdout, written>>

\* A server may go as soon as stdin is closed, whatever is left to read there.
ServerExits == /\ server = "up"
               /\ healthy => ~open
               /\ server' = "exited"
               /\ UNCHANGED <<main, late, reader, result, stdin, open, leftover,
                              stdout, said, unread, written>>

Forks == /\ server = "up" /\ Leftovers /\ ~leftover
         /\ leftover' = TRUE
         /\ UNCHANGED <<main, late, reader, result, stdin, open, server, stdout,
                        said, unread, written>>

LeftoverExits == /\ leftover
                 /\ leftover' = FALSE
                 /\ UNCHANGED <<main, late, reader, result, stdin, open, server,
                                stdout, said, unread, written>>

DeadlinePasses == /\ ~late
                  /\ late' = TRUE
                  /\ UNCHANGED <<main, reader, result, world>>

-----------------------------------------------------------------------------
(* The pumps.                                                              *)

\* drain_stdout: a line that does not decode ends it, like the end of the pipe.
DrainStdout ==
    /\ pump.out
    /\ \/ /\ stdout # <<>> /\ Head(stdout) # "junk"
          /\ lines' = Append(lines, Head(stdout))
          /\ UNCHANGED pump
       \/ /\ IF stdout = <<>> THEN ~Held ELSE Head(stdout) = "junk"
          /\ lines' = Append(lines, "EOF")
          /\ pump' = [pump EXCEPT !.out = FALSE]
    /\ stdout' = IF stdout = <<>> THEN <<>> ELSE Tail(stdout)
    /\ UNCHANGED <<main, late, errors, result, stdin, open, server, leftover,
                   said, unread, written>>

NextText == said[Len(said) - unread + 1]

\* Mutant: the pump looks whether the server is gone, not for the end of the pipe.
DrainStderrPolls ==
    /\ pump.err
    /\ \/ /\ unread > 0
          /\ errors' = Append(errors, NextText)
          /\ unread' = unread - 1
          /\ UNCHANGED pump
       \/ /\ server # "up"
          /\ pump' = [pump EXCEPT !.err = FALSE]
          /\ UNCHANGED <<errors, unread>>
    /\ UNCHANGED <<main, late, lines, result, stdin, open, server, leftover,
                   stdout, said, written>>

\* drain_stderr: a decoding error is a ValueError, and passed over.
DrainStderr ==
    /\ pump.err
    /\ \/ /\ unread > 0 /\ NextText # "junk"
          /\ errors' = Append(errors, NextText)
          /\ unread' = unread - 1
          /\ UNCHANGED pump
       \/ /\ IF unread = 0 THEN ~Held ELSE NextText = "junk"
          /\ pump' = [pump EXCEPT !.err = FALSE]
          /\ UNCHANGED <<errors, unread>>
    /\ UNCHANGED <<main, late, lines, result, stdin, open, server, leftover,
                   stdout, said, written>>

-----------------------------------------------------------------------------
(* handshake.                                                              *)

\* send.  What the server left behind may keep its stdin open.
Send(from, frame, to) ==
    /\ main = from
    /\ UNCHANGED <<late, reader, replies, stderr, marked, open, server, leftover,
                   stdout, said, unread, written>>
    /\ \/ /\ Held
          /\ stdin' = Append(stdin, frame)
          /\ Goto(to)
          /\ UNCHANGED problem
       \/ /\ server # "up"
          /\ Stop("closed")
          /\ UNCHANGED stdin

Id(line) == CASE line \in {"init", "noinit"} -> 1
              [] line \in {"tools", "empty", "notools"} -> 2
              [] OTHER -> 0

HasResult(line) == line \notin {"noinit", "notools"}

\* The tools come from the first answer to id 2, wherever it was read.
Listed(rs) == rs[CHOOSE i \in DOMAIN rs : /\ Id(rs[i]) = 2
                                          /\ \A j \in 1..(i - 1) : Id(rs[j]) # 2]

\* The end of an exchange: after the last one the tools are listed.
Answered(id, rs) ==
    \/ id = 1 /\ Goto("initialized") /\ UNCHANGED problem
    \/ id = 2 /\ Listed(rs) = "tools" /\ Goto("close") /\ UNCHANGED problem
    \/ id = 2 /\ Listed(rs) = "empty" /\ Stop("empty")
    \/ id = 2 /\ ~HasResult(Listed(rs)) /\ Goto("raised") /\ UNCHANGED problem

\* reply_to: one turn of its loop.  A line that is JSON and no object has no
\* get: AttributeError leaves handshake, past stop.
Reply(from, id) ==
    /\ main = from
    /\ ~late
    /\ lines # <<>>
    /\ lines' = Tail(lines)
    /\ UNCHANGED <<late, errors, pump, stderr, marked, world>>
    /\ LET line == Head(lines)
           rs == Append(replies, line)
       IN  \/ /\ line = "EOF" /\ Stop("exited") /\ UNCHANGED replies
           \/ /\ line = "banner" /\ Stop("notjson") /\ UNCHANGED replies
           \/ /\ line = "scalar" /\ Goto("raised") /\ UNCHANGED <<problem, replies>>
           \/ /\ line \notin {"EOF", "banner", "scalar"}
              /\ replies' = rs
              /\ \/ line = "error" /\ Stop("error")
                 \/ line # "error" /\ Id(line) # id /\ UNCHANGED <<main, problem>>
                 \/ Id(line) = id /\ ~HasResult(line) /\ Stop("noresult")
                 \/ Id(line) = id /\ HasResult(line) /\ Answered(id, rs)

TimesOut == /\ main \in {"await init", "await tools"}
            /\ late
            /\ Stop("timeout")
            /\ UNCHANGED <<late, reader, replies, stderr, marked, world>>

\* stop: stdin.close().
Close == /\ main = "close"
         /\ open' = FALSE
         /\ Goto("wait")
         /\ UNCHANGED <<late, reader, result, stdin, server, leftover, stdout,
                        said, unread, written>>

\* Mutant: the pumps are not joined.
WaitNoJoin == /\ main = "wait"
              /\ server' = IF server = "up" THEN "killed" ELSE server
              /\ Goto("report")
              /\ UNCHANGED <<late, reader, result, stdin, open, leftover, stdout,
                             said, unread, written>>

\* Mutant: a server that does not go in time is left running.
WaitNoKill == /\ main = "wait"
              /\ Goto("join out")
              /\ UNCHANGED <<late, reader, result, world>>

\* wait(timeout=15), and kill if that runs out.
Wait == /\ main = "wait"
        /\ server' = IF server = "up" THEN "killed" ELSE server
        /\ Goto("join out")
        /\ UNCHANGED <<late, reader, result, stdin, open, leftover, stdout,
                       said, unread, written>>

\* Mutant: join() without a timeout.
GivesUpNever(p) == FALSE

\* join(timeout=10) runs out on a pump that has nothing to read and no end.
GivesUp(p) == /\ Held
              /\ IF p = "out" THEN stdout = <<>> ELSE unread = 0

Join(from, p, to) == /\ main = from
                     /\ ~pump[p] \/ GivesUp(p)
                     /\ Goto(to)
                     /\ UNCHANGED <<late, reader, result, world>>

Report == /\ main = "report"
          /\ stderr' = errors
          /\ Goto("mark")
          /\ UNCHANGED <<late, reader, problem, replies, marked, world>>

\* Is a pump still alive?
Mark == /\ main = "mark"
        /\ marked' = (pump.out \/ pump.err)
        /\ Goto("done")
        /\ UNCHANGED <<late, reader, problem, replies, stderr, world>>

\* Mutant: all the frames at once, and the end of stdin with them.
MainAllAtOnce ==
    \/ /\ main = "initialize"
       /\ stdin' = <<"initialize", "initialized", "tools/list">>
       /\ open' = FALSE
       /\ Goto("await init")
       /\ UNCHANGED <<late, reader, result, server, leftover, stdout, said, unread, written>>
    \/ Reply("await init", 1)
    \/ main = "initialized" /\ Goto("await tools")
       /\ UNCHANGED <<late, reader, result, world>>
    \/ Reply("await tools", 2)
    \/ TimesOut \/ Close \/ Wait
    \/ Join("join out", "out", "join err") \/ Join("join err", "err", "report")
    \/ Report \/ Mark

Main == \/ Send("initialize", "initialize", "await init")
        \/ Reply("await init", 1)
        \/ Send("initialized", "initialized", "list tools")
        \/ Send("list tools", "tools/list", "await tools")
        \/ Reply("await tools", 2)
        \/ TimesOut \/ Close \/ Wait
        \/ Join("join out", "out", "join err") \/ Join("join err", "err", "report")
        \/ Report \/ Mark

Next == /\ \/ Main \/ DrainStdout \/ DrainStderr \/ DeadlinePasses
           \/ ServerReads \/ ServerWrites \/ Complains \/ ServerExits
           \/ Forks \/ LeftoverExits
        /\ UNCHANGED healthy

Spec == Init /\ [][Next]_vars

\* The threads run and the clock goes on; the server owes nothing.
FairSpec == /\ Spec
            /\ WF_vars(Main /\ UNCHANGED healthy)
            /\ WF_vars(DrainStdout /\ UNCHANGED healthy)
            /\ WF_vars(DrainStderr /\ UNCHANGED healthy)
            /\ WF_vars(DeadlinePasses /\ UNCHANGED healthy)

-----------------------------------------------------------------------------

Frames == {"initialize", "initialized", "tools/list"}

\* Where a writer's texts are in ts.
By(who, ts) == {i \in 1..Len(ts) : ts[i] = who}

TypeOK == /\ said \in Seq(Texts) /\ errors \in Seq(Texts)
          /\ unread \in 0..Len(said)
          /\ stdout \in Seq(AllLines)
          /\ lines \in Seq(AllLines \cup {"EOF"})
          /\ stdin \in Seq(Frames)
          /\ server \in {"up", "exited", "killed"}
          /\ pump \in [out : BOOLEAN, err : BOOLEAN]
          /\ {leftover, open, late, marked, healthy} \subseteq BOOLEAN

\* What is in errors is what was written, in order and without a gap; its pump
\* ends at the end of the pipe and not before, or at a text that does not
\* decode (drain_stderr).
PumpInv == /\ TypeOK
           /\ Len(errors) + unread = Len(said)
           /\ errors = SubSeq(said, 1, Len(errors))
           /\ (~pump.err /\ By("junk", said) = {}) => unread = 0 /\ ~Held

\* What the server wrote on stderr, up to its end, is in the report, or the
\* report says that it may be incomplete (stop).
ServerTextReported ==
    main = "done" => marked \/ By("server", stderr) = By("server", said)

\* When handshake returns, its server is not running (stop).
ServerStopped == main = "done" => server # "up"

\* A server that answers what it reads fails only by being late: nothing
\* handshake does makes it go before it was asked for its tools.
HealthyPasses == healthy /\ main = "done" => problem \in {"none", "timeout"}

-----------------------------------------------------------------------------
(* The inductive invariant.                                                *)

Asking == {"initialize", "await init", "initialized", "list tools", "await tools"}

Quiet == stdout = <<>> /\ lines = <<>>

\* A frame or the answer to it is at one place of its way to the server and back.
InTurn(frame, line) == \/ stdin = <<frame>> /\ Quiet
                       \/ stdin = <<>> /\ stdout = <<line>> /\ lines = <<>>
                       \/ stdin = <<>> /\ stdout = <<>> /\ lines = <<line>>

\* While handshake asks, a healthy server is there, and nothing else is on its
\* way than the frames sent and the answer that is awaited.
FlowInv == healthy =>
    /\ problem \in {"none", "timeout"} /\ main # "raised"
    /\ main \in Asking => open /\ server = "up"
    /\ main \in {"initialize", "await init"} => replies = <<>>
    /\ main \in {"initialized", "list tools", "await tools"} => replies = <<"init">>
    /\ main \in {"initialize", "initialized"} => stdin = <<>> /\ Quiet
    /\ main = "await init" => InTurn("initialize", "init")
    /\ main = "list tools" => stdin \in {<<>>, <<"initialized">>} /\ Quiet
    /\ main = "await tools" => \/ stdin = <<"initialized", "tools/list">> /\ Quiet
                               \/ InTurn("tools/list", "tools")

\* Once the readers are joined, the server is gone and all it wrote is in errors.
ReportInv ==
    /\ main \in {"join out", "join err", "report", "mark", "done"} => server # "up"
    /\ By("junk", said) = {} =>
         /\ main = "report" => By("server", errors) = By("server", said)
         /\ main \in {"mark", "done"} => By("server", stderr) = By("server", said)

IInv == PumpInv /\ FlowInv /\ ReportInv

-----------------------------------------------------------------------------

\* handshake comes to an end whatever the server does.
Returns == <>(main \in {"done", "raised"})

=============================================================================
