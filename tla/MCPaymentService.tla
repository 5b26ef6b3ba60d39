-------------------------- MODULE MCPaymentService --------------------------
(* Two threads, in one server process or one in each of two.                 *)
EXTENDS PaymentService, TLC

CONSTANTS p1, p2, t1, t2, r1, r2, s1, s2, s3

OneProcess == t1 :> p1 @@ t2 :> p1
TwoProcesses == t1 :> p1 @@ t2 :> p2

RequestSymmetry == Permutations(Requests)

\* Bounds of the run of two processes, on what is asked of them and paid, never
\* on a step of a call: r2 is paid 1 and verified, r1 is quoted in dollars, paid
\* 1 or 2, or 2 after 1, and verified; and a verification names an amount of 1.
Verifying(t) == pc[t] \in {"get", "getexpiry", "getfloor", "history", "claim",
                           "getagain"}

Few == /\ \A t \in Threads : pc[t] # "idle" =>
            IF Verifying(t) THEN job[t].amount = 1
                            ELSE job[t].usd # 0 /\ job[t].rid = r1
       /\ received[r1] \in {<<>>, <<1>>, <<2>>, <<1, 2>>}
       /\ received[r2] \in {<<>>, <<1>>}

=============================================================================
