------------------------------- MODULE Startup -------------------------------
(***************************************************************************)
(* main() of src/main.c up to the launch of the threads, and after they    *)
(* have ended: options, rules, lcores, the mbuf pool, the port, the rings. *)
(* Every failure ends the program (rte_exit()).  What runs between launch  *)
(* and end is in Pipeline; here it is one worker that scans.               *)
(***************************************************************************)
EXTENDS DpiEngine, FiniteSets

CONSTANTS Setting,   \* command lines and machines, see Init
          MaxWorkers,\* MAX_WORKERS
          U32        \* 2^32

ASSUME StartupAssumption ==
    /\ MaxWorkers \in Nat /\ U32 \in Nat /\ MaxWorkers < U32
    /\ \A s \in Setting : /\ s.file \in Seq(FileLine) /\ s.w \in Int
                          /\ s.lcores \subseteq Nat /\ IsFiniteSet(s.lcores)
                          /\ s.main \in s.lcores

VARIABLES set,  \* the Setting of this start
          main  \* pc, num_workers, lcores[], rings created

vars == <<file, ld, g_db, heap, scratch, scan, set, main>>

(* A setting: the rule file, the number given to -w, that given to -M      *)
(* (<< >> without -M), -h, the enabled lcores with the main lcore, the     *)
(* number of ports.                                                        *)
Init == /\ EngineInit
        /\ set \in Setting
        /\ file = set.file
        /\ main = [pc |-> "options", num_workers |-> 0, lcores |-> << >>, rings |-> {}]

Step(pc) == /\ main' = [main EXCEPT !.pc = pc]
            /\ UNCHANGED <<engineVars, set>>

(* rte_exit() when the condition does not hold. *)
Require(cond, pc) == Step(IF cond THEN pc ELSE "exit")

(* (unsigned)atoi(optarg) *)
Unsigned(n) == n % U32

(* getopt() and the check of num_workers; stats_init(). *)
Options ==
    LET n == Unsigned(set.w)
        ok == ~set.h /\ (set.M = << >> \/ set.M[1] > 0) /\ n >= 2 /\ n <= MaxWorkers
    IN  /\ main.pc = "options"
        /\ main' = [main EXCEPT !.pc = IF ok THEN "load" ELSE "exit", !.num_workers = n]
        /\ UNCHANGED <<engineVars, set>>

(* dpi_engine_load_rules(), and what main() makes of its result. *)
Load == main.pc = "load" /\ LoadRules /\ UNCHANGED <<set, main>>
Loaded == /\ main.pc = "load" /\ ld.pc \in {"loaded", "failed"}
          /\ Require(ld.pc = "loaded", "ports")

Ports == main.pc = "ports" /\ Require(set.ports > 0, "lcores")

Needed == 1 + main.num_workers + 1 + 1

(* Deviation: the main lcore is not counted. *)
Lcores_MainForgotten ==
    main.pc = "lcores" /\ Require(Cardinality(set.lcores) >= Needed, "assign")

Lcores == main.pc = "lcores" /\ Require(Cardinality(set.lcores) >= Needed + 1, "assign")

(* RTE_LCORE_FOREACH_WORKER: the next enabled lcore that is not the main   *)
(* one, until lcores[] is full or there is none left.                      *)
Unassigned == set.lcores \ ({set.main} \cup ToSet(main.lcores))
Assign ==
    /\ main.pc = "assign"
    /\ main' = IF Len(main.lcores) >= Needed \/ Unassigned = {}
               THEN [main EXCEPT !.pc = "pool"]
               ELSE [main EXCEPT !.lcores = Append(@, Min(Unassigned))]
    /\ UNCHANGED <<engineVars, set>>

(* lcores[i - 1]; what has not been assigned is none of the lcores. *)
Lcore(i) == IF i <= Len(main.lcores) THEN main.lcores[i] ELSE -1

(* lcores[0] is RX's, then come the workers', TX's and that of Stats. *)
RxLcore == Lcore(1)
WorkerLcore(i) == Lcore(2 + i)
TxLcore == Lcore(2 + main.num_workers)
StatsLcore == Lcore(3 + main.num_workers)

(* The mbuf pool; the port with its two queues. *)
Pool == main.pc = "pool" /\ \E ok \in Outcomes : Require(ok, "port")
Port == main.pc = "port" /\ \E ok \in Outcomes : Require(ok, "rings")

(* worker_ring_0, worker_ring_1, ..., then tx_ring; then the bucket table  *)
(* is filled and the threads are launched.                                 *)
Ring == LET i == Cardinality(main.rings)
            name == IF i < main.num_workers THEN <<"worker", i>> ELSE <<"tx", 0>>
        IN  /\ main.pc = "rings" /\ i <= main.num_workers
            /\ \E ok \in Outcomes :
                  main' = IF ok THEN [main EXCEPT !.rings = @ \cup {name}]
                                ELSE [main EXCEPT !.pc = "exit"]
            /\ UNCHANGED <<engineVars, set>>
Launch == /\ main.pc = "rings" /\ Cardinality(main.rings) = main.num_workers + 1
          /\ Step("run")

(* A worker, from its launch to force_quit. *)
RunWorker == /\ main.pc = "run"
             /\ AllocScratch \/ Scan \/ FreeScratch
             /\ UNCHANGED <<set, main>>

(* All threads have ended: the port, the rings and the rules are freed. *)
Cleanup == /\ main.pc = "run" /\ scratch \in {"failed", "freed"}
           /\ FreeRules
           /\ main' = [main EXCEPT !.pc = "done", !.rings = {}]
           /\ UNCHANGED set

Ended == main.pc \in {"exit", "done"} /\ UNCHANGED vars

Next == \/ Options \/ Load \/ Loaded \/ Ports \/ Lcores \/ Assign
        \/ Pool \/ Port \/ Ring \/ Launch \/ RunWorker \/ Cleanup \/ Ended

Spec == Init /\ [][Next]_vars

-----------------------------------------------------------------------------
Roles == {RxLcore, TxLcore, StatsLcore} \cup
         {WorkerLcore(i) : i \in 0 .. main.num_workers - 1}

(* Threads are launched only on a complete program: the rules are loaded,  *)
(* the number of workers is in range whatever -w said, every worker and TX *)
(* has its ring, and each thread has an lcore of its own that is enabled   *)
(* and is not the main one.                                                *)
LaunchSound ==
    main.pc = "run" =>
        /\ ld.pc = "loaded"
        /\ main.num_workers \in 2 .. MaxWorkers
        /\ main.rings = {<<"worker", i>> : i \in 0 .. main.num_workers - 1} \cup {<<"tx", 0>>}
        /\ Cardinality(Roles) = main.num_workers + 3
        /\ Roles \subseteq set.lcores \ {set.main}

(* When main() returns, nothing that the DPI engine allocated is left. *)
NothingLeft == main.pc = "done" => heap = {}
=============================================================================
