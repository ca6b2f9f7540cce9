------------------------------ MODULE DpiEngine ------------------------------
(***************************************************************************)
(* src/dpi_engine.c: loading the rule file, compiling one database per     *)
(* traffic type, the scratch of a worker, scanning a string, freeing.      *)
(*                                                                         *)
(* A line of the file is a comment or has fields: a traffic type, an       *)
(* action ("?" if missing or unknown) and the texts its pattern matches.   *)
(* A blank line has no fields: trim() leaves its newline.  Lines and       *)
(* patterns fit their buffers (linebuf, pattern).  Every allocation and    *)
(* every Hyperscan call may fail if MayFail says so.                       *)
(*                                                                         *)
(* External: the allocator, and Hyperscan, which reports the matches of a  *)
(* scan in any order, any number of times each, and frees the scratch it   *)
(* was given when it cannot make a new one.                                *)
(***************************************************************************)
EXTENDS Integers, Sequences, SequencesExt

CONSTANTS Text,    \* strings to scan
          InitCap, \* the first capacity of lines[] (16)
          MayFail  \* whether allocations and library calls may fail

ASSUME EngineAssumption == InitCap \in Nat \ {0} /\ MayFail \in BOOLEAN

Type == {"HTTP", "HTTPS"}

FileLine == [kind : {"comment"}]
            \cup [kind : {"fields"}, type : Type \cup {"?"},
                  action : {"DROP", "FORWARD", "?"}, hits : SUBSET Text]

VARIABLES file,    \* the rule file: a sequence of lines
          ld,      \* dpi_engine_load_rules(): pc, next line, lines[], cap, type
          g_db,    \* g_http_db and g_https_db
          heap,    \* what has been allocated and not freed: <<owner, object>>
          scratch, \* of the worker: "none", "http" (the first call of
                   \* hs_alloc_scratch() is done), "ready", "failed" or "freed"
          scan     \* the worker's scan

engineVars == <<file, ld, g_db, heap, scratch, scan>>

(* A NULL pointer is an empty sequence: db holds the compiled expressions, *)
(* rules their actions.                                                    *)
NullDb == [db |-> << >>, rules |-> << >>, nrules |-> 0]

EngineInit ==
    /\ ld = [pc |-> "off", i |-> 1, lines |-> << >>, cap |-> 0, type |-> "HTTP"]
    /\ g_db = [t \in Type |-> NullDb]
    /\ heap = {}
    /\ scratch = "none"
    /\ scan = [pc |-> "idle", type |-> "HTTP", text |-> 0, reported |-> {},
               result |-> "FORWARD", err |-> FALSE]

(* Whether a call succeeds. *)
Outcomes == IF MayFail THEN BOOLEAN ELSE {TRUE}

-----------------------------------------------------------------------------
(* dpi_engine_load_rules() *)
Open == /\ ld.pc = "off"
        /\ \E ok \in Outcomes :
              /\ ld' = [ld EXCEPT !.pc = IF ok THEN "read" ELSE "failed"]
              /\ heap' = IF ok THEN heap \cup {<<"load", "file">>} ELSE heap
        /\ UNCHANGED <<file, g_db, scratch, scan>>

(* trim(), and the lines that are passed over. *)
Skipped(l) == l.kind = "comment"

(* parse_line(): all three fields are there, and known. *)
Parses(l) == l.type # "?" /\ l.action # "?"

(* One line.  lines[] is grown before the line is parsed. *)
ReadLine ==
    LET l == file[ld.i]
        grow == ~Skipped(l) /\ Len(ld.lines) = ld.cap
    IN  /\ ld.pc = "read" /\ ld.i <= Len(file)
        /\ \E ok \in IF grow THEN Outcomes ELSE {TRUE} :
              /\ heap' = IF grow /\ ok THEN heap \cup {<<"load", "lines">>} ELSE heap
              /\ ld' = IF ~ok THEN [ld EXCEPT !.pc = "out_failed"]
                       ELSE [ld EXCEPT
                                !.i = @ + 1,
                                !.cap = IF ~grow THEN @
                                        ELSE IF @ = 0 THEN InitCap ELSE 2 * @,
                                !.lines = IF ~Skipped(l) /\ Parses(l)
                                         THEN Append(@, l) ELSE @]
        /\ UNCHANGED <<file, g_db, scratch, scan>>

EndOfFile ==
    /\ ld.pc = "read" /\ ld.i > Len(file)
    /\ ld' = [ld EXCEPT !.pc = "alloc"]
    /\ UNCHANGED <<file, g_db, heap, scratch, scan>>

-----------------------------------------------------------------------------
(* compile_db(): the rules of the type ... *)
Rules(lines, t) ==
    LET sel[k \in 0 .. Len(lines)] ==
            IF k = 0 THEN << >>
            ELSE IF lines[k].type # t THEN sel[k - 1]
            ELSE Append(sel[k - 1], lines[k])
    IN  sel[Len(lines)]

Arrays(t) == {<<t, "exprs">>, <<t, "ids">>, <<t, "flags">>, <<t, "rules">>}

(* ... nothing to do, or four arrays, any of which may fail ... *)
CompileAlloc ==
    LET t == ld.type
        n == Len(Rules(ld.lines, t))
    IN  /\ ld.pc = "alloc"
        /\ \/ /\ n = 0
              /\ g_db' = [g_db EXCEPT ![t] = NullDb]
              /\ ld' = [ld EXCEPT !.pc = "compiled"]
              /\ UNCHANGED heap
           \/ /\ n > 0
              /\ \E got \in IF MayFail THEN SUBSET Arrays(t) ELSE {Arrays(t)} :
                    /\ heap' = heap \cup got
                    /\ g_db' = [g_db EXCEPT ![t].rules =
                                   IF <<t, "rules">> \in got
                                   THEN [i \in 1 .. n |-> "FORWARD"] ELSE << >>]
                    /\ ld' = [ld EXCEPT !.pc = IF got = Arrays(t) THEN "compile"
                                                                  ELSE "free_failed"]
        /\ UNCHANGED <<file, scratch, scan>>

(* ... filled, and hs_compile_multi() ... *)
HsCompile ==
    LET t == ld.type
        rules == Rules(ld.lines, t)
        n == Len(rules)
    IN  /\ ld.pc = "compile"
        /\ \E ok \in Outcomes :
              /\ g_db' = [g_db EXCEPT ![t] =
                    [db |-> IF ~ok THEN << >>
                            ELSE [i \in 1 .. n |-> [id |-> i - 1, hits |-> rules[i].hits]],
                     rules |-> [i \in 1 .. n |-> rules[i].action],
                     nrules |-> n]]
              /\ heap' = IF ok THEN heap \cup {<<t, "db">>} ELSE heap
              /\ ld' = [ld EXCEPT !.pc = IF ok THEN "free" ELSE "free_failed"]
        /\ UNCHANGED <<file, scratch, scan>>

(* ... out_free. *)
CompileFree ==
    LET t == ld.type
        failed == ld.pc = "free_failed"
    IN  /\ ld.pc \in {"free", "free_failed"}
        /\ heap' = heap \ (IF failed THEN Arrays(t) ELSE Arrays(t) \ {<<t, "rules">>})
        /\ g_db' = IF failed THEN [g_db EXCEPT ![t].rules = << >>] ELSE g_db
        /\ ld' = [ld EXCEPT !.pc = IF failed THEN "undo" ELSE "compiled"]
        /\ UNCHANGED <<file, scratch, scan>>

(* First HTTP, then HTTPS. *)
Compiled ==
    /\ ld.pc = "compiled"
    /\ ld' = IF ld.type = "HTTP" THEN [ld EXCEPT !.pc = "alloc", !.type = "HTTPS"]
                                 ELSE [ld EXCEPT !.pc = "out"]
    /\ UNCHANGED <<file, g_db, heap, scratch, scan>>

Owned(t) == {<<t, "db">>, <<t, "rules">>}

(* Deviation: the HTTP rules stay when the HTTPS rules cannot be compiled. *)
Undo_KeepHttp ==
    /\ ld.pc = "undo"
    /\ ld' = [ld EXCEPT !.pc = "out_failed"]
    /\ UNCHANGED <<file, heap, g_db, scratch, scan>>

(* A type did not compile: if it was HTTPS, HTTP is taken back. *)
Undo ==
    /\ ld.pc = "undo"
    /\ IF ld.type = "HTTPS"
       THEN heap' = heap \ Owned("HTTP") /\ g_db' = [g_db EXCEPT !["HTTP"] = NullDb]
       ELSE UNCHANGED <<heap, g_db>>
    /\ ld' = [ld EXCEPT !.pc = "out_failed"]
    /\ UNCHANGED <<file, scratch, scan>>

(* out: the end of dpi_engine_load_rules(). *)
Out == /\ ld.pc \in {"out", "out_failed"}
       /\ heap' = heap \ {<<"load", "file">>, <<"load", "lines">>}
       /\ ld' = [ld EXCEPT !.pc = IF ld.pc = "out" THEN "loaded" ELSE "failed"]
       /\ UNCHANGED <<file, g_db, scratch, scan>>

LoadRules == \/ Open \/ ReadLine \/ EndOfFile \/ CompileAlloc \/ HsCompile
             \/ CompileFree \/ Compiled \/ Undo \/ Out

-----------------------------------------------------------------------------
ScratchMemory == {<<"worker", "scratch">>}

(* One call of hs_alloc_scratch(), if there is a database of that type:    *)
(* it allocates the scratch, or sees to it that the one it is given is     *)
(* large enough; when it fails it has freed the one it was given.          *)
AllocFor(t, from, to) ==
    /\ scratch = from
    /\ \/ /\ g_db[t].db = << >>
          /\ scratch' = to
          /\ UNCHANGED heap
       \/ /\ g_db[t].db # << >>
          /\ scratch' = to
          /\ heap' = heap \cup ScratchMemory
       \/ /\ g_db[t].db # << >> /\ MayFail
          /\ scratch' = "failed"
          /\ heap' = heap \ ScratchMemory
    /\ UNCHANGED <<file, ld, g_db, scan>>

(* Deviation: the error of the second call is not returned. *)
AllocScratch_Unchecked ==
    \/ AllocFor("HTTP", "none", "http")
    \/ /\ scratch = "http"
       /\ scratch' = "ready"
       /\ heap' \in {heap, heap \cup ScratchMemory, heap \ ScratchMemory}
       /\ UNCHANGED <<file, ld, g_db, scan>>

(* dpi_engine_alloc_scratch(): one scratch for both databases, sized for   *)
(* one after the other; without any database there is no scratch.          *)
AllocScratch == AllocFor("HTTP", "none", "http") \/ AllocFor("HTTPS", "http", "ready")

(* dpi_engine_free_scratch() *)
FreeScratch ==
    /\ scratch = "ready" /\ scan.pc # "run"
    /\ scratch' = "freed"
    /\ heap' = heap \ ScratchMemory
    /\ UNCHANGED <<file, ld, g_db, scan>>

(* Deviation: the databases are freed and their rules forgotten. *)
FreeRules_DbOnly ==
    /\ heap' = heap \ {<<t, "db">> : t \in Type}
    /\ g_db' = [t \in Type |-> NullDb]
    /\ UNCHANGED <<file, ld, scratch, scan>>

(* dpi_engine_free_rules() *)
FreeRules ==
    /\ heap' = heap \ UNION {Owned(t) : t \in Type}
    /\ g_db' = [t \in Type |-> NullDb]
    /\ UNCHANGED <<file, ld, scratch, scan>>

(* dpi_engine_scan(): without rules the answer is FORWARD. *)
StartScan(t, x) ==
    LET none == g_db[t].db = << >> \/ g_db[t].nrules = 0
    IN  /\ scratch = "ready" /\ scan.pc # "run"
        /\ scan' = [pc |-> IF none THEN "done" ELSE "run", type |-> t, text |-> x,
                    reported |-> {}, result |-> "FORWARD", err |-> FALSE]
        /\ UNCHANGED <<file, ld, g_db, heap, scratch>>

Matching == {e.id : e \in {e \in ToSet(g_db[scan.type].db) : scan.text \in e.hits}}

(* Deviation: a DROP match does not end the scan. *)
OnMatch_GoOn(id) ==
    LET db == g_db[scan.type]
    IN  /\ scan.pc = "run" /\ id \in Matching
        /\ scan' = [scan EXCEPT !.reported = @ \cup {id}, !.result = db.rules[id + 1]]
        /\ UNCHANGED <<file, ld, g_db, heap, scratch>>

(* on_match(): DROP ends the scan. *)
OnMatch(id) ==
    LET db == g_db[scan.type]
    IN  /\ scan.pc = "run" /\ id \in Matching
        /\ scan' = IF id >= db.nrules THEN [scan EXCEPT !.reported = @ \cup {id}]
                   ELSE IF db.rules[id + 1] = "DROP"
                   THEN [scan EXCEPT !.pc = "done", !.result = "DROP"]
                   ELSE [scan EXCEPT !.reported = @ \cup {id}, !.result = "FORWARD"]
        /\ UNCHANGED <<file, ld, g_db, heap, scratch>>

(* hs_scan() has reported every match. *)
ScanEnd ==
    /\ scan.pc = "run" /\ scan.reported = Matching
    /\ scan' = [scan EXCEPT !.pc = "done"]
    /\ UNCHANGED <<file, ld, g_db, heap, scratch>>

(* hs_scan() fails: fail open. *)
ScanError ==
    /\ scan.pc = "run" /\ MayFail
    /\ scan' = [scan EXCEPT !.pc = "done", !.result = "FORWARD", !.err = TRUE]
    /\ UNCHANGED <<file, ld, g_db, heap, scratch>>

Scan == \/ \E t \in Type, x \in Text : StartScan(t, x)
        \/ \E id \in Matching : OnMatch(id)
        \/ ScanEnd \/ ScanError

-----------------------------------------------------------------------------
(* Loading is all or nothing: when dpi_engine_load_rules() has returned,   *)
(* and to the end of the program, what is allocated is exactly what the    *)
(* globals and the worker still point to; after a failure, whichever step  *)
(* failed, that is nothing; and a database never has an expression whose   *)
(* id is outside of its rules[].                                           *)
AllOrNothing ==
    ld.pc \in {"loaded", "failed"} =>
        /\ heap \ ScratchMemory = {<<t, "db">> : t \in {u \in Type : g_db[u].db # << >>}}
                           \cup {<<t, "rules">> : t \in {u \in Type : g_db[u].rules # << >>}}
        /\ <<"worker", "scratch">> \in heap => scratch \in {"http", "ready"}
        /\ ld.pc = "failed" => heap = {}
        /\ \A t \in Type : \A e \in ToSet(g_db[t].db) : e.id < Len(g_db[t].rules)

(* "If any DROP rule matches, DROP wins": a scan that does not fail says   *)
(* DROP exactly when some line of the file, of that traffic type and with  *)
(* that action, matches; wherever it stands in the file, and in whatever   *)
(* order Hyperscan reports the matches.  A failed scan says FORWARD, and a *)
(* scan that runs has its database and its scratch.                        *)
ScanExact ==
    /\ scan.pc = "done" =>
        (scan.result = "DROP" <=>
            /\ ~scan.err
            /\ \E l \in ToSet(file) : /\ l.kind = "fields" /\ l.type = scan.type
                                      /\ l.action = "DROP" /\ scan.text \in l.hits)
    /\ scan.pc = "run" => {<<scan.type, "db">>, <<"worker", "scratch">>} \subseteq heap
=============================================================================
