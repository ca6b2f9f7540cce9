---------------------------- MODULE StartupProofs ----------------------------
(***************************************************************************)
(* Proofs about DpiEngine and Startup, for every rule file, every command  *)
(* line, every set of lcores and every failure of an allocation or of      *)
(* Hyperscan.                                                              *)
(***************************************************************************)
EXTENDS Startup, SumProofs, FiniteSetTheorems, TLAPS

(* A line that parse_line() makes a rule of. *)
IsRule(l) == ~Skipped(l) /\ Parses(l)

(* A line that it makes a rule of type t of. *)
IsRuleOf(l, t) == l.kind = "fields" /\ l.type = t /\ l.action # "?"

RuleLine == [kind : {"fields"}, type : Type, action : {"DROP", "FORWARD"}, hits : SUBSET Text]

(* lines[] holds the rules among the first n lines of the file f. *)
LinesExact(lines, f, n) ==
    lines \in Seq(RuleLine) /\ ToSet(lines) = {l \in {f[j] : j \in 1 .. n} : IsRule(l)}

(* R is a list of the rules of type t in the file f. *)
RulesExact(R, f, t) ==
    R \in Seq(RuleLine) /\ ToSet(R) = {l \in ToSet(f) : IsRuleOf(l, t)}

(* A struct dpi_db made of the rules R. *)
Made(d, R) == /\ d.db = [i \in 1 .. Len(R) |-> [id |-> i - 1, hits |-> R[i].hits]]
              /\ d.rules = [i \in 1 .. Len(R) |-> R[i].action]
              /\ d.nrules = Len(R)

(* The struct dpi_db of type t holds exactly the rules of the file f. *)
DbExact(d, f, t) == \E R : RulesExact(R, f, t) /\ Made(d, R)

-----------------------------------------------------------------------------
(* What may be allocated: by the load itself, by a type, by the worker. *)
LoadObj == {<<"load", "file">>, <<"load", "lines">>}
Obj(t) == Arrays(t) \cup {<<t, "db">>}

(* What the pointers of d own. *)
Held(d, t) == (IF d.db # << >> THEN {<<t, "db">>} ELSE {})
              \cup (IF d.rules # << >> THEN {<<t, "rules">>} ELSE {})

(* A type that is loaded, and one of which nothing is left. *)
Ready(d, hp, f, t) == DbExact(d, f, t) /\ hp \cap Obj(t) = Held(d, t)
Clear(d, hp, t) == d.db = << >> /\ d.rules = << >> /\ hp \cap Obj(t) = {}

(* The type t that compile_db() is at work on. *)
Working(pc, d, hp, f, t) ==
    /\ pc \in {"off", "read", "alloc", "undo", "out_failed", "failed"} => Clear(d, hp, t)
    /\ pc = "compile" => d.db = << >> /\ <<t, "db">> \notin hp /\ Arrays(t) \subseteq hp
    /\ pc = "free" => DbExact(d, f, t) /\ d.db # << >> /\ d.rules # << >> /\ Owned(t) \subseteq hp
    /\ pc = "free_failed" => d.db = << >> /\ <<t, "db">> \notin hp
    /\ pc \in {"compiled", "out", "loaded"} => Ready(d, hp, f, t)

(* HTTP while HTTPS is compiled. *)
Other(pc, d, hp, f) ==
    IF pc \in {"out_failed", "failed"} THEN Clear(d, hp, "HTTP") ELSE Ready(d, hp, f, "HTTP")

LoadPc == {"off", "read", "alloc", "compile", "free", "free_failed", "compiled", "undo",
           "out", "out_failed", "loaded", "failed"}

Ld == [pc : LoadPc, i : Nat \ {0}, lines : Seq(RuleLine), cap : Nat, type : Type]
Db == [db : Seq([id : Nat, hits : SUBSET Text]), rules : Seq({"DROP", "FORWARD"}), nrules : Nat]

(* dpi_engine_load_rules(), with l, g, hp and f for ld, g_db, heap, file. *)
Reading(l, f) ==
    /\ l.i <= Len(f) + 1
    /\ LinesExact(l.lines, f, l.i - 1)
    /\ l.pc \in {"alloc", "compile", "free", "free_failed", "compiled"} => l.i = Len(f) + 1
    /\ l.pc = "compile" => Len(Rules(l.lines, l.type)) > 0
    /\ l.pc \in {"off", "read"} => l.type = "HTTP"
    /\ l.pc \in {"out", "loaded"} => l.type = "HTTPS"

Compiling(l, g, hp, f) ==
    /\ Working(l.pc, g[l.type], hp, f, l.type)
    /\ l.type = "HTTP" => Clear(g["HTTPS"], hp, "HTTPS")
    /\ l.type = "HTTPS" => Other(l.pc, g["HTTP"], hp, f)

LoadInv == Reading(ld, file) /\ Compiling(ld, g_db, heap, file)

(* The heap, with hp, l, g and sc for heap, ld, g_db and scratch. *)
Allocated(hp, pc) ==
    /\ hp \subseteq LoadObj \cup Obj("HTTP") \cup Obj("HTTPS") \cup ScratchMemory
    /\ pc \in {"off", "loaded", "failed"} => hp \cap LoadObj = {}

Scratch(hp, g, sc) ==
    /\ <<"worker", "scratch">> \in hp => sc \in {"http", "ready"}
    /\ sc = "http" /\ g["HTTP"].db # << >> => <<"worker", "scratch">> \in hp
    /\ sc = "ready" /\ (\E t \in Type : g[t].db # << >>) => <<"worker", "scratch">> \in hp

HeapInv == Allocated(heap, ld.pc) /\ Scratch(heap, g_db, scratch)

(* Some DROP rule of the file matches the text. *)
Dropped(f, t, x) ==
    \E l \in ToSet(f) : l.kind = "fields" /\ l.type = t /\ l.action = "DROP" /\ x \in l.hits

ScanRec == [pc : {"idle", "run", "done"}, type : Type, text : Text \cup {0},
            reported : SUBSET Nat, result : {"FORWARD", "DROP"}, err : BOOLEAN]

(* The worker's scan c with the databases g. *)
Scanning(c, g, f) ==
    /\ c.pc = "done" => (c.result = "DROP" <=> ~c.err /\ Dropped(f, c.type, c.text))
    /\ c.pc = "run" => /\ c.result = "FORWARD" /\ c.err = FALSE
                       /\ g[c.type].db # << >>
                       /\ \A id \in c.reported : g[c.type].rules[id + 1] # "DROP"

ScanInv == /\ Scanning(scan, g_db, file)
           /\ scan.pc = "run" => main.pc = "run" /\ scratch = "ready"

MainPc == {"options", "load", "ports", "lcores", "assign", "pool", "port", "rings", "run",
           "done", "exit"}

(* The names of the first c rings. *)
Named(c, n) == {<<"worker", j>> : j \in {i \in 0 .. c - 1 : i < n}}
               \cup (IF c > n THEN {<<"tx", 0>>} ELSE {})

Main == [pc : MainPc, num_workers : Nat, lcores : Seq(Nat),
         rings : SUBSET ({"worker", "tx"} \X Nat)]

TypeOK == /\ set \in Setting /\ file = set.file
          /\ ld \in Ld /\ g_db \in [Type -> Db]
          /\ scratch \in {"none", "http", "ready", "failed", "freed"}
          /\ scan \in ScanRec /\ main \in Main

(* main(). *)
MainInv ==
    /\ main.pc \notin {"options", "exit"} => main.num_workers \in 2 .. MaxWorkers
    /\ main.pc = "options" => ld.pc = "off"
    /\ main.pc \notin {"options", "load", "exit"} => ld.pc = "loaded"
    /\ main.pc = "exit" => ld.pc \in {"off", "loaded", "failed"}
    /\ main.pc \notin {"run", "done"} => scratch = "none" /\ scan.pc = "idle"
    /\ main.pc = "done" => heap = {} /\ g_db = [t \in Type |-> NullDb]

(* lcores[] and the rings, for main = m and set = s. *)
Lcored(m, s) ==
    /\ ToSet(m.lcores) \subseteq s.lcores \ {s.main}
    /\ Cardinality(ToSet(m.lcores)) = Len(m.lcores)
    /\ m.pc \in {"options", "load", "ports", "lcores"} => m.lcores = << >>
    /\ m.pc = "assign" => /\ Cardinality(s.lcores) >= m.num_workers + 4
                          /\ Len(m.lcores) <= m.num_workers + 3
    /\ m.pc \in {"pool", "port", "rings", "run"} => Len(m.lcores) = m.num_workers + 3

Ringed(m) ==
    /\ m.pc \in {"options", "load", "ports", "lcores", "assign", "pool", "port"} => m.rings = {}
    /\ m.pc = "rings" =>
          /\ IsFiniteSet(m.rings)
          /\ \E c \in 0 .. m.num_workers + 1 : /\ Cardinality(m.rings) = c
                                               /\ m.rings = Named(c, m.num_workers)
    /\ m.pc = "run" => m.rings = Named(m.num_workers + 1, m.num_workers)

PlacesInv == Lcored(main, set) /\ Ringed(main)

Inv == /\ TypeOK /\ HeapInv /\ ScanInv /\ MainInv /\ PlacesInv
       /\ main.pc # "done" => LoadInv

-----------------------------------------------------------------------------
(* The objects of the heap are all different. *)
LEMMA ObjFacts ==
    /\ \A t \in Type : /\ LoadObj \cap Obj(t) = {} /\ ScratchMemory \cap Obj(t) = {}
                       /\ <<t, "db">> \in Obj(t) /\ <<t, "db">> \notin Arrays(t)
                       /\ <<t, "rules">> \in Arrays(t) /\ <<t, "rules">> \in Obj(t)
                       /\ Arrays(t) \subseteq Obj(t)
                       /\ Obj(t) = Arrays(t) \cup {<<t, "db">>}
                       /\ Owned(t) = {<<t, "db">>, <<t, "rules">>} /\ Owned(t) \subseteq Obj(t)
    /\ Obj("HTTP") \cap Obj("HTTPS") = {}
    /\ LoadObj \cap ScratchMemory = {}
<1>1. ASSUME NEW t \in Type
      PROVE  /\ LoadObj \cap Obj(t) = {} /\ ScratchMemory \cap Obj(t) = {}
             /\ <<t, "db">> \in Obj(t) /\ <<t, "db">> \notin Arrays(t)
             /\ <<t, "rules">> \in Arrays(t) /\ <<t, "rules">> \in Obj(t)
             /\ Arrays(t) \subseteq Obj(t)
             /\ Obj(t) = Arrays(t) \cup {<<t, "db">>}
             /\ Owned(t) = {<<t, "db">>, <<t, "rules">>} /\ Owned(t) \subseteq Obj(t)
    BY DEF LoadObj, Obj, ScratchMemory, Arrays, Owned, Type
<1>2. Obj("HTTP") \cap Obj("HTTPS") = {}
    BY DEF Obj, Arrays
<1>3. LoadObj \cap ScratchMemory = {}
    BY DEF LoadObj, ScratchMemory
<1> QED BY <1>1, <1>2, <1>3

-----------------------------------------------------------------------------
(* Sequences and the sets of their elements *)

LEMMA ToSetIs ==
    ASSUME NEW S, NEW s \in Seq(S)
    PROVE  /\ ToSet(s) = {s[i] : i \in 1 .. Len(s)} /\ ToSet(s) \subseteq S
           /\ \A i \in 1 .. Len(s) : s[i] \in ToSet(s)
           /\ \A x \in ToSet(s) : \E i \in 1 .. Len(s) : s[i] = x
<1>1. DOMAIN s = 1 .. Len(s)
    OBVIOUS
<1>2. ToSet(s) = {s[i] : i \in 1 .. Len(s)}
    BY <1>1 DEF ToSet
<1> QED BY <1>2

LEMMA ToSetAppend ==
    ASSUME NEW S, NEW s \in Seq(S), NEW x \in S
    PROVE  ToSet(Append(s, x)) = ToSet(s) \cup {x}
<1> DEFINE t == Append(s, x)
<1>1. /\ t \in Seq(S) /\ Len(t) = Len(s) + 1 /\ Len(s) \in Nat
      /\ \A i \in 1 .. Len(s) : t[i] = s[i]
      /\ t[Len(s) + 1] = x
    OBVIOUS
<1>2. ToSet(t) = {t[i] : i \in 1 .. Len(t)} /\ ToSet(s) = {s[i] : i \in 1 .. Len(s)}
    BY <1>1, ToSetIs
<1> HIDE DEF t
<1>3. ASSUME NEW y \in ToSet(t) PROVE y \in ToSet(s) \cup {x}
  <2>1. PICK i \in 1 .. Len(t) : y = t[i]
      BY <1>2, <1>3
  <2>2. i = Len(s) + 1 \/ i \in 1 .. Len(s)
      BY <1>1
  <2> QED BY <1>1, <1>2, <2>1, <2>2
<1>4. ASSUME NEW y \in ToSet(s) PROVE y \in ToSet(t)
  <2>1. PICK i \in 1 .. Len(s) : y = s[i]
      BY <1>2, <1>4
  <2>2. i \in 1 .. Len(t) /\ t[i] = s[i]
      BY <1>1
  <2> QED BY <1>2, <2>1, <2>2
<1>5. x \in ToSet(t)
  <2>1. Len(s) + 1 \in 1 .. Len(t)
      BY <1>1
  <2> QED BY <1>1, <1>2, <2>1
<1> QED BY <1>3, <1>4, <1>5 DEF t

LEMMA FunIsSeq ==
    ASSUME NEW S, NEW n \in Nat, NEW g \in [1 .. n -> S]
    PROVE  g \in Seq(S) /\ Len(g) = n /\ DOMAIN g = 1 .. n
    OBVIOUS

LEMMA ToSetEmpty == ToSet(<< >>) = {}
    BY DEF ToSet

-----------------------------------------------------------------------------
(* compile_db() picks the lines of a type *)

(* The picked lines among the first k, for k = 0, ..., n. *)
Picked(lines, t, n, s) ==
    s = [k \in 0 .. n |-> IF k = 0 THEN << >>
                          ELSE IF lines[k].type # t THEN s[k - 1]
                          ELSE Append(s[k - 1], lines[k])]

LEMMA PickedExists ==
    ASSUME NEW n \in Nat, NEW lines, NEW t
    PROVE  \E s : Picked(lines, t, n, s)
<1> DEFINE G == {k \in 0 .. n : \E s : Picked(lines, t, k, s)}
           Nxt(s, k) == IF lines[k].type # t THEN s[k - 1] ELSE Append(s[k - 1], lines[k])
<1>1. 0 \in G
  <2>1. Picked(lines, t, 0, [k \in 0 .. 0 |-> << >>])
      BY DEF Picked
  <2> QED BY <2>1
<1>2. ASSUME NEW k \in 0 .. n - 1, k \in G PROVE k + 1 \in G
  <2>1. PICK s : Picked(lines, t, k, s)
      BY <1>2
  <2> DEFINE u == [i \in 0 .. k + 1 |-> IF i <= k THEN s[i] ELSE Nxt(s, k + 1)]
  <2>2. ASSUME NEW i \in 0 .. k + 1
        PROVE  u[i] = IF i = 0 THEN << >> ELSE Nxt(u, i)
    <3>1. CASE i = 0
        BY <2>1, <3>1 DEF Picked
    <3>2. CASE i # 0
      <4>1. i \in 1 .. k + 1 /\ i - 1 \in 0 .. k + 1 /\ i - 1 <= k
          BY <3>2
      <4>2. u[i - 1] = s[i - 1]
          BY <4>1
      <4>3. Nxt(u, i) = Nxt(s, i)
          BY <4>2
      <4>4. u[i] = Nxt(s, i)
        <5>1. CASE i <= k
          <6>1. i \in 0 .. k /\ u[i] = s[i]
              BY <5>1
          <6>2. s[i] = Nxt(s, i)
              BY <2>1, <3>2, <6>1 DEF Picked
          <6> QED BY <6>1, <6>2
        <5>2. CASE i = k + 1
            BY <5>2
        <5> QED BY <4>1, <5>1, <5>2
      <4> QED BY <3>2, <4>3, <4>4
    <3> QED BY <3>1, <3>2
  <2>3. Picked(lines, t, k + 1, u)
      BY <2>2 DEF Picked
  <2> QED BY <2>3
<1>3. \A k \in 0 .. n : k \in G
    BY <1>1, <1>2, UpTo
<1> QED BY <1>3

LEMMA PickedStep ==
    ASSUME NEW n \in Nat, NEW lines, NEW t, NEW s, Picked(lines, t, n, s)
    PROVE  /\ s[0] = << >>
           /\ \A k \in 1 .. n : s[k] = IF lines[k].type # t THEN s[k - 1]
                                        ELSE Append(s[k - 1], lines[k])
<1>1. s[0] = << >>
    BY DEF Picked
<1>2. ASSUME NEW k \in 1 .. n
      PROVE  s[k] = IF lines[k].type # t THEN s[k - 1] ELSE Append(s[k - 1], lines[k])
  <2>1. k \in 0 .. n /\ k # 0
      OBVIOUS
  <2> QED BY <2>1, Zenon DEF Picked
<1> QED BY <1>1, <1>2

LEMMA RulesPicked ==
    ASSUME NEW lines, NEW t, Len(lines) \in Nat
    PROVE  \E s : Picked(lines, t, Len(lines), s) /\ Rules(lines, t) = s[Len(lines)]
<1> DEFINE s == CHOOSE s : Picked(lines, t, Len(lines), s)
<1>1. Picked(lines, t, Len(lines), s)
    BY PickedExists
<1>2. Rules(lines, t) = s[Len(lines)]
    BY Zenon DEF Rules, Picked
<1> QED BY <1>1, <1>2

(* Each of them, and no other. *)
LEMMA RulesAre ==
    ASSUME NEW lines \in Seq(RuleLine), NEW t
    PROVE  /\ Rules(lines, t) \in Seq(RuleLine)
           /\ ToSet(Rules(lines, t)) = {l \in ToSet(lines) : l.type = t}
<1>1. PICK n \in Nat : n = Len(lines)
    OBVIOUS
<1>2. PICK s : Picked(lines, t, n, s) /\ Rules(lines, t) = s[n]
    BY <1>1, RulesPicked
<1> DEFINE Upto(k) == {l \in {lines[j] : j \in 1 .. k} : l.type = t}
           G == {k \in 0 .. n : s[k] \in Seq(RuleLine) /\ ToSet(s[k]) = Upto(k)}
<1>3. 0 \in G
  <2>1. s[0] = << >>
      BY <1>2, PickedStep
  <2>2. Upto(0) = {}
      OBVIOUS
  <2>3. << >> \in Seq(RuleLine)
      OBVIOUS
  <2>4. 0 \in 0 .. n
      OBVIOUS
  <2> HIDE DEF Upto
  <2> QED BY <2>1, <2>2, <2>3, <2>4, ToSetEmpty, Zenon
<1>4. ASSUME NEW k \in 0 .. n - 1, k \in G PROVE k + 1 \in G
  <2>1. k + 1 \in 1 .. n /\ k + 1 - 1 = k /\ k + 1 \in 0 .. n
      OBVIOUS
  <2>2. lines[k + 1] \in RuleLine
      BY <1>1, <2>1
  <2>3. s[k + 1] = IF lines[k + 1].type # t THEN s[k] ELSE Append(s[k], lines[k + 1])
    <3>1. PICK m \in 1 .. n : m = k + 1 /\ m - 1 = k
        BY <2>1
    <3>2. s[m] = IF lines[m].type # t THEN s[m - 1] ELSE Append(s[m - 1], lines[m])
        BY <1>2, PickedStep
    <3> QED BY <3>1, <3>2, Zenon
  <2>4. s[k] \in Seq(RuleLine) /\ ToSet(s[k]) = Upto(k)
      BY <1>4
  <2>5. {lines[j] : j \in 1 .. k + 1} = {lines[j] : j \in 1 .. k} \cup {lines[k + 1]}
    <3>1. 1 .. k + 1 = (1 .. k) \cup {k + 1}
        BY <2>1
    <3> QED BY <3>1
  <2>6. CASE lines[k + 1].type # t
    <3>1. Upto(k + 1) = Upto(k)
        BY <2>5, <2>6
    <3> QED BY <2>1, <2>3, <2>4, <2>6, <3>1
  <2>7. CASE lines[k + 1].type = t
    <3>1. Upto(k + 1) = Upto(k) \cup {lines[k + 1]}
        BY <2>5, <2>7
    <3>2. s[k + 1] = Append(s[k], lines[k + 1])
        BY <2>3, <2>7
    <3>3. s[k + 1] \in Seq(RuleLine) /\ ToSet(s[k + 1]) = ToSet(s[k]) \cup {lines[k + 1]}
        BY <2>2, <2>4, <3>2, ToSetAppend
    <3> QED BY <2>1, <2>4, <3>1, <3>3
  <2> QED BY <2>6, <2>7
<1>5. n \in G
  <2>1. \A k \in 0 .. n : k \in G
      BY <1>3, <1>4, UpTo
  <2>2. n \in 0 .. n
      OBVIOUS
  <2> QED BY <2>1, <2>2, Zenon
<1>6. Upto(n) = {l \in ToSet(lines) : l.type = t}
    BY <1>1, ToSetIs
<1> QED BY <1>2, <1>5, <1>6

(* Lines of the file that are rules. *)
LEMMA LineCases ==
    ASSUME NEW l \in FileLine
    PROVE  /\ IsRule(l) => l \in RuleLine
           /\ \A t \in Type : IsRuleOf(l, t) <=> IsRule(l) /\ l.type = t
<1> DEFINE C == [kind : {"comment"}]
           F == [kind : {"fields"}, type : Type \cup {"?"},
                 action : {"DROP", "FORWARD", "?"}, hits : SUBSET Text]
<1>1. CASE l \in C
  <2>1. l.kind = "comment"
      BY <1>1
  <2> QED BY <2>1 DEF IsRule, IsRuleOf, Skipped
<1>2. CASE l \in F
  <2>1. /\ l.kind = "fields" /\ l.type \in Type \cup {"?"}
        /\ l.action \in {"DROP", "FORWARD", "?"} /\ l.hits \in SUBSET Text
        /\ l = [kind |-> l.kind, type |-> l.type, action |-> l.action, hits |-> l.hits]
      BY <1>2
  <2>2. IsRule(l) <=> l.type # "?" /\ l.action # "?"
      BY <2>1 DEF IsRule, Skipped, Parses
  <2>3. ASSUME IsRule(l) PROVE l \in RuleLine
    <3>1. l.type \in Type /\ l.action \in {"DROP", "FORWARD"}
        BY <2>1, <2>2, <2>3
    <3> QED BY <2>1, <3>1, Zenon DEF RuleLine
  <2>4. "?" \notin Type
      BY DEF Type
  <2> QED BY <2>1, <2>2, <2>3, <2>4 DEF IsRuleOf
<1> QED BY <1>1, <1>2 DEF FileLine

(* Reading one more line of the file. *)
LEMMA LinesStep ==
    ASSUME NEW f \in Seq(FileLine), NEW i \in 1 .. Len(f), NEW lines, LinesExact(lines, f, i - 1)
    PROVE  /\ IsRule(f[i]) => LinesExact(Append(lines, f[i]), f, i)
           /\ ~IsRule(f[i]) => LinesExact(lines, f, i)
<1>1. f[i] \in FileLine
    OBVIOUS
<1>2. {f[j] : j \in 1 .. i} = {f[j] : j \in 1 .. i - 1} \cup {f[i]}
  <2>1. 1 .. i = (1 .. i - 1) \cup {i}
      OBVIOUS
  <2> QED BY <2>1
<1>3. lines \in Seq(RuleLine) /\ ToSet(lines) = {l \in {f[j] : j \in 1 .. i - 1} : IsRule(l)}
    BY DEF LinesExact
<1>4. ASSUME IsRule(f[i]) PROVE LinesExact(Append(lines, f[i]), f, i)
  <2>1. f[i] \in RuleLine
      BY <1>1, <1>4, LineCases
  <2>2. Append(lines, f[i]) \in Seq(RuleLine) /\ ToSet(Append(lines, f[i])) = ToSet(lines) \cup {f[i]}
      BY <1>3, <2>1, ToSetAppend
  <2>3. {l \in {f[j] : j \in 1 .. i} : IsRule(l)}
            = {l \in {f[j] : j \in 1 .. i - 1} : IsRule(l)} \cup {f[i]}
      BY <1>2, <1>4
  <2> QED BY <1>3, <2>2, <2>3 DEF LinesExact
<1>5. ASSUME ~IsRule(f[i]) PROVE LinesExact(lines, f, i)
  <2>1. {l \in {f[j] : j \in 1 .. i} : IsRule(l)} = {l \in {f[j] : j \in 1 .. i - 1} : IsRule(l)}
      BY <1>2, <1>5
  <2> QED BY <1>3, <2>1 DEF LinesExact
<1> QED BY <1>4, <1>5

(* All of the file read: compile_db() finds exactly the rules of a type. *)
LEMMA RulesFound ==
    ASSUME NEW f \in Seq(FileLine), NEW lines, LinesExact(lines, f, Len(f)), NEW t \in Type
    PROVE  RulesExact(Rules(lines, t), f, t)
<1>1. lines \in Seq(RuleLine) /\ ToSet(lines) = {l \in {f[j] : j \in 1 .. Len(f)} : IsRule(l)}
    BY DEF LinesExact
<1>2. Rules(lines, t) \in Seq(RuleLine) /\ ToSet(Rules(lines, t)) = {l \in ToSet(lines) : l.type = t}
    BY <1>1, RulesAre
<1>3. ToSet(f) = {f[j] : j \in 1 .. Len(f)} /\ ToSet(f) \subseteq FileLine
    BY ToSetIs
<1>4. \A l \in ToSet(f) : IsRuleOf(l, t) <=> IsRule(l) /\ l.type = t
    BY <1>3, LineCases
<1>5. {l \in ToSet(lines) : l.type = t} = {l \in ToSet(f) : IsRuleOf(l, t)}
    BY <1>1, <1>3, <1>4
<1> QED BY <1>2, <1>5 DEF RulesExact

(* What a database made of rules looks like. *)
LEMMA MadeFacts ==
    ASSUME NEW R \in Seq(RuleLine), NEW d, Made(d, R)
    PROVE  /\ d.db \in Seq([id : Nat, hits : SUBSET Text])
           /\ d.rules \in Seq({"DROP", "FORWARD"})
           /\ d.nrules = Len(R) /\ Len(d.rules) = Len(R)
           /\ ToSet(d.db) = {[id |-> i - 1, hits |-> R[i].hits] : i \in 1 .. Len(R)}
           /\ \A i \in 1 .. Len(R) : d.rules[i] = R[i].action
           /\ d.db = << >> <=> Len(R) = 0
           /\ d.rules = << >> <=> Len(R) = 0
<1>1. PICK n \in Nat : n = Len(R)
    OBVIOUS
<1>2. \A i \in 1 .. n : R[i] \in RuleLine
    BY <1>1
<1>3. \A i \in 1 .. n : /\ R[i].hits \in SUBSET Text /\ R[i].action \in {"DROP", "FORWARD"}
                        /\ i - 1 \in Nat
    BY <1>2 DEF RuleLine
<1>4. /\ d.db = [i \in 1 .. n |-> [id |-> i - 1, hits |-> R[i].hits]]
      /\ d.rules = [i \in 1 .. n |-> R[i].action]
      /\ d.nrules = n
    BY <1>1 DEF Made
<1>5. d.db \in Seq([id : Nat, hits : SUBSET Text]) /\ DOMAIN d.db = 1 .. n
  <2>1. \A i \in 1 .. n : [id |-> i - 1, hits |-> R[i].hits] \in [id : Nat, hits : SUBSET Text]
      BY <1>3
  <2>2. d.db \in [1 .. n -> [id : Nat, hits : SUBSET Text]]
      BY <1>4, <2>1
  <2> QED BY <2>2, FunIsSeq, Zenon
<1>6. d.rules \in Seq({"DROP", "FORWARD"}) /\ Len(d.rules) = n
  <2>1. d.rules \in [1 .. n -> {"DROP", "FORWARD"}]
      BY <1>3, <1>4
  <2> QED BY <2>1, FunIsSeq, Zenon
<1>7. ToSet(d.db) = {[id |-> i - 1, hits |-> R[i].hits] : i \in 1 .. n}
  <2>1. ToSet(d.db) = {d.db[i] : i \in 1 .. n}
      BY <1>5 DEF ToSet
  <2>2. \A i \in 1 .. n : d.db[i] = [id |-> i - 1, hits |-> R[i].hits]
      BY <1>4
  <2> QED BY <2>1, <2>2
<1>8. \A i \in 1 .. n : d.rules[i] = R[i].action
    BY <1>4
<1>9. d.db = << >> <=> n = 0
  <2>1. Len(d.db) = n
      BY <1>5
  <2> QED BY <1>5, <2>1
<1>10. d.rules = << >> <=> n = 0
    BY <1>6
<1> QED BY <1>1, <1>4, <1>5, <1>6, <1>7, <1>8, <1>9, <1>10

(* Without rules there is nothing to compile. *)
LEMMA MadeEmpty ==
    ASSUME NEW R \in Seq(RuleLine), Len(R) = 0
    PROVE  Made(NullDb, R)
<1>1. R = << >>
    OBVIOUS
<1>2. [i \in 1 .. 0 |-> [id |-> i - 1, hits |-> R[i].hits]] = << >>
    OBVIOUS
<1>3. [i \in 1 .. 0 |-> R[i].action] = << >>
    OBVIOUS
<1> QED BY <1>2, <1>3 DEF Made, NullDb

-----------------------------------------------------------------------------
(* Scanning a text x with a database d *)

Matches(d, x) == {e.id : e \in {e \in ToSet(d.db) : x \in e.hits}}

(* An id that Hyperscan reports is that of a rule of the file whose        *)
(* pattern matches, and every such rule has one.                           *)
LEMMA MatchesAre ==
    ASSUME NEW f \in Seq(FileLine), NEW t \in Type, NEW d, DbExact(d, f, t), NEW x
    PROVE  /\ \A id \in Matches(d, x) : /\ id \in Nat /\ id < d.nrules /\ d.nrules \in Nat
                                        /\ d.rules[id + 1] = "DROP" => Dropped(f, t, x)
           /\ Dropped(f, t, x) => \E id \in Matches(d, x) : d.rules[id + 1] = "DROP"
           /\ d.db = << >> \/ d.nrules = 0 => ~Dropped(f, t, x)
<1>1. PICK R : RulesExact(R, f, t) /\ Made(d, R)
    BY DEF DbExact
<1>2. R \in Seq(RuleLine) /\ ToSet(R) = {l \in ToSet(f) : IsRuleOf(l, t)}
    BY <1>1 DEF RulesExact
<1>3. PICK n \in Nat : n = Len(R)
    BY <1>2
<1>4. /\ d.nrules = n
      /\ ToSet(d.db) = {[id |-> i - 1, hits |-> R[i].hits] : i \in 1 .. n}
      /\ \A i \in 1 .. n : d.rules[i] = R[i].action
      /\ d.db = << >> <=> n = 0
    BY <1>1, <1>2, <1>3, MadeFacts
<1>5. /\ \A i \in 1 .. n : R[i] \in ToSet(R)
      /\ \A l \in ToSet(R) : \E i \in 1 .. n : R[i] = l
    BY <1>2, <1>3, ToSetIs
<1>6. ASSUME NEW id \in Matches(d, x)
      PROVE  \E i \in 1 .. n : id = i - 1 /\ x \in R[i].hits
  <2>1. PICK e \in ToSet(d.db) : x \in e.hits /\ id = e.id
      BY <1>6 DEF Matches
  <2>2. PICK i \in 1 .. n : e = [id |-> i - 1, hits |-> R[i].hits]
      BY <1>4, <2>1
  <2> QED BY <2>1, <2>2
<1>7. ASSUME NEW i \in 1 .. n, x \in R[i].hits PROVE i - 1 \in Matches(d, x)
  <2>1. PICK e : e = [id |-> i - 1, hits |-> R[i].hits]
      OBVIOUS
  <2>2. e \in ToSet(d.db) /\ e.id = i - 1 /\ e.hits = R[i].hits
      BY <1>4, <2>1
  <2> QED BY <1>7, <2>2 DEF Matches
<1>8. ASSUME NEW id \in Matches(d, x)
      PROVE  /\ id \in Nat /\ id < d.nrules /\ d.nrules \in Nat
             /\ d.rules[id + 1] = "DROP" => Dropped(f, t, x)
  <2>1. PICK i \in 1 .. n : id = i - 1 /\ x \in R[i].hits
      BY <1>6
  <2>2. id \in Nat /\ id < n /\ id + 1 = i
      BY <2>1
  <2>3. R[i] \in ToSet(f) /\ IsRuleOf(R[i], t)
      BY <1>2, <1>5
  <2>4. R[i].action = "DROP" => Dropped(f, t, x)
      BY <2>1, <2>3 DEF IsRuleOf, Dropped
  <2> QED BY <1>4, <2>2, <2>4
<1>9. ASSUME Dropped(f, t, x)
      PROVE  \E i \in 1 .. n : R[i].action = "DROP" /\ x \in R[i].hits
  <2>1. PICK l \in ToSet(f) : l.kind = "fields" /\ l.type = t /\ l.action = "DROP" /\ x \in l.hits
      BY <1>9 DEF Dropped
  <2>2. IsRuleOf(l, t)
      BY <2>1 DEF IsRuleOf
  <2>3. PICK i \in 1 .. n : R[i] = l
      BY <1>2, <1>5, <2>2
  <2> QED BY <2>1, <2>3
<1>10. ASSUME Dropped(f, t, x) PROVE \E id \in Matches(d, x) : d.rules[id + 1] = "DROP"
  <2>1. PICK i \in 1 .. n : R[i].action = "DROP" /\ x \in R[i].hits
      BY <1>9, <1>10
  <2>2. i - 1 \in Matches(d, x) /\ (i - 1) + 1 = i
      BY <1>7, <2>1
  <2>3. d.rules[(i - 1) + 1] = "DROP"
      BY <1>4, <2>1, <2>2
  <2> QED BY <2>2, <2>3
<1>11. ASSUME d.db = << >> \/ d.nrules = 0, Dropped(f, t, x) PROVE FALSE
  <2>1. n = 0
      BY <1>4, <1>11
  <2> QED BY <1>9, <1>11, <2>1
<1> QED BY <1>8, <1>10, <1>11

-----------------------------------------------------------------------------
(* dpi_engine_load_rules() *)

(* The load and what it has made, all together. *)
EngineOK(l, g, hp, f) == /\ l \in Ld /\ g \in [Type -> Db]
                         /\ Reading(l, f) /\ Compiling(l, g, hp, f) /\ Allocated(hp, l.pc)

Failing == {"out_failed", "failed"}

LEMMA LdPc ==
    ASSUME NEW l \in Ld, NEW pc \in LoadPc
    PROVE  /\ [l EXCEPT !.pc = pc] \in Ld
           /\ [l EXCEPT !.pc = pc].pc = pc /\ [l EXCEPT !.pc = pc].i = l.i
           /\ [l EXCEPT !.pc = pc].lines = l.lines /\ [l EXCEPT !.pc = pc].cap = l.cap
           /\ [l EXCEPT !.pc = pc].type = l.type
    BY DEF Ld

LEMMA LdFields ==
    ASSUME NEW l \in Ld
    PROVE  /\ l.pc \in LoadPc /\ l.i \in Nat \ {0} /\ l.lines \in Seq(RuleLine)
           /\ l.cap \in Nat /\ l.type \in Type
    BY DEF Ld

(* What a step leaves of a type when it leaves its part of the heap. *)
LEMMA Frame ==
    ASSUME NEW t \in Type, NEW d, NEW f, NEW hp, NEW hp2, hp2 \cap Obj(t) = hp \cap Obj(t)
    PROVE  /\ Clear(d, hp, t) => Clear(d, hp2, t)
           /\ Ready(d, hp, f, t) => Ready(d, hp2, f, t)
    BY DEF Clear, Ready

(* Objects of others do not matter to a type. *)
LEMMA Others ==
    ASSUME NEW t \in Type, NEW hp, NEW X, X \cap Obj(t) = {}
    PROVE  (hp \cup X) \cap Obj(t) = hp \cap Obj(t) /\ (hp \ X) \cap Obj(t) = hp \cap Obj(t)
    OBVIOUS

(* Types other than t, and their objects, are left alone. *)
OthersKept(t, g, hp, g2, hp2) ==
    \A u \in Type \ {t} : g2[u] = g[u] /\ hp2 \cap Obj(u) = hp \cap Obj(u)

(* A step that works on the type t only. *)
LEMMA Change ==
    ASSUME NEW l, NEW g, NEW hp, NEW f, Compiling(l, g, hp, f), NEW t \in Type, l.type = t,
           NEW l2, NEW g2, NEW hp2, l2.type = t,
           OthersKept(t, g, hp, g2, hp2),
           Working(l2.pc, g2[t], hp2, f, t),
           t = "HTTPS" => (l.pc \in Failing <=> l2.pc \in Failing)
    PROVE  Compiling(l2, g2, hp2, f)
<1>1. CASE t = "HTTP"
  <2>1. "HTTPS" \in Type \ {t}
      BY <1>1 DEF Type
  <2>2. g2["HTTPS"] = g["HTTPS"] /\ hp2 \cap Obj("HTTPS") = hp \cap Obj("HTTPS")
      BY <2>1 DEF OthersKept
  <2>3. Clear(g["HTTPS"], hp, "HTTPS")
      BY <1>1 DEF Compiling
  <2>4. Clear(g2["HTTPS"], hp2, "HTTPS")
      BY <2>2, <2>3 DEF Clear
  <2> QED BY <1>1, <2>4 DEF Compiling
<1>2. CASE t = "HTTPS"
  <2>1. "HTTP" \in Type \ {t}
      BY <1>2 DEF Type
  <2>2. g2["HTTP"] = g["HTTP"] /\ hp2 \cap Obj("HTTP") = hp \cap Obj("HTTP")
      BY <2>1 DEF OthersKept
  <2>3. Other(l.pc, g["HTTP"], hp, f)
      BY <1>2 DEF Compiling
  <2>4. Other(l2.pc, g2["HTTP"], hp2, f)
      BY <1>2, <2>2, <2>3 DEF Other, Clear, Ready, Failing
  <2> QED BY <1>2, <2>4 DEF Compiling
<1> QED BY <1>1, <1>2 DEF Type

(* Only the load's own objects change. *)
LEMMA LoadOnly ==
    ASSUME NEW l, NEW g, NEW hp, NEW f, Compiling(l, g, hp, f), l.type \in Type,
           NEW l2, NEW hp2, l2.type = l.type,
           NEW X, X \subseteq LoadObj, hp2 \in {hp \cup X, hp \ X},
           \A d : Working(l.pc, d, hp2, f, l.type) => Working(l2.pc, d, hp2, f, l.type),
           l.type = "HTTPS" => (l.pc \in Failing <=> l2.pc \in Failing)
    PROVE  Compiling(l2, g, hp2, f)
<1>1. \A u \in Type : hp2 \cap Obj(u) = hp \cap Obj(u)
  <2> SUFFICES ASSUME NEW u \in Type PROVE hp2 \cap Obj(u) = hp \cap Obj(u)
      OBVIOUS
  <2>1. X \cap Obj(u) = {}
      BY ObjFacts
  <2> QED BY <2>1, Others
<1>2. PICK t \in Type : t = l.type
    OBVIOUS
<1>3. Working(l.pc, g[t], hp, f, t)
    BY <1>2 DEF Compiling
<1>4. Working(l.pc, g[t], hp2, f, t)
  <2>1. /\ <<t, "db">> \in hp <=> <<t, "db">> \in hp2
        /\ Arrays(t) \subseteq hp <=> Arrays(t) \subseteq hp2
        /\ Owned(t) \subseteq hp <=> Owned(t) \subseteq hp2
        /\ hp2 \cap Obj(t) = hp \cap Obj(t)
    <3>1. hp2 \cap Obj(t) = hp \cap Obj(t)
        BY <1>1
    <3>2. <<t, "db">> \in Obj(t) /\ Arrays(t) \subseteq Obj(t) /\ Owned(t) \subseteq Obj(t)
        BY ObjFacts
    <3> QED BY <3>1, <3>2
  <2> QED BY <1>3, <2>1 DEF Working, Clear, Ready
<1>5. Working(l2.pc, g[t], hp2, f, t)
    BY <1>2, <1>4
<1>6. OthersKept(t, g, hp, g, hp2)
    BY <1>1 DEF OthersKept
<1> QED BY <1>2, <1>5, <1>6, Change

(* What a step of the load has to show. *)
LEMMA EngineStep ==
    ASSUME NEW f \in Seq(FileLine), EngineOK(ld, g_db, heap, f), file = f,
           ld' \in Ld, g_db' \in [Type -> Db],
           Reading(ld', f), Compiling(ld', g_db', heap', f), Allocated(heap', ld'.pc)
    PROVE  EngineOK(ld', g_db', heap', f)
    BY DEF EngineOK

LEMMA OpenStep ==
    ASSUME NEW f \in Seq(FileLine), EngineOK(ld, g_db, heap, f), file = f, Open
    PROVE  EngineOK(ld', g_db', heap', f)
<1>1. PICK l, g, hp : l = ld /\ g = g_db /\ hp = heap
    OBVIOUS
<1>2. PICK l2, g2, hp2 : l2 = ld' /\ g2 = g_db' /\ hp2 = heap'
    OBVIOUS
<1>3. PICK ok \in Outcomes :
          /\ l.pc = "off" /\ l2 = [l EXCEPT !.pc = IF ok THEN "read" ELSE "failed"]
          /\ hp2 = (IF ok THEN hp \cup {<<"load", "file">>} ELSE hp) /\ g2 = g
    BY <1>1, <1>2 DEF Open
<1>4. l \in Ld /\ g \in [Type -> Db] /\ Reading(l, f) /\ Compiling(l, g, hp, f) /\ Allocated(hp, l.pc)
    BY <1>1 DEF EngineOK
<1>5. PICK pc \in {"read", "failed"} : l2 = [l EXCEPT !.pc = pc] /\ (pc = "failed" => hp2 = hp)
    BY <1>3
<1>6. /\ l2 \in Ld /\ l2.pc = pc /\ l2.i = l.i /\ l2.lines = l.lines /\ l2.type = l.type
  <2>1. pc \in LoadPc
      BY DEF LoadPc
  <2> QED BY <1>4, <1>5, <2>1, LdPc
<1>7. l.type = "HTTP" /\ l.type \in Type
    BY <1>3, <1>4 DEF Reading, Type
<1>8. Reading(l2, f)
    BY <1>4, <1>5, <1>6, <1>7 DEF Reading
<1>9. PICK X : X \subseteq LoadObj /\ hp2 = hp \cup X
  <2>1. {<<"load", "file">>} \subseteq LoadObj /\ {} \subseteq LoadObj
      BY DEF LoadObj
  <2>2. hp \cup {} = hp
      OBVIOUS
  <2>3. hp2 = hp \cup {<<"load", "file">>} \/ hp2 = hp \cup {}
      BY <1>3, <2>2, Zenon
  <2> QED BY <2>1, <2>3, Zenon
<1>10. Compiling(l2, g, hp2, f)
  <2>1. \A d : Working(l.pc, d, hp2, f, l.type) => Working(l2.pc, d, hp2, f, l.type)
      BY <1>3, <1>5, <1>6 DEF Working
  <2> QED BY <1>4, <1>6, <1>7, <1>9, <2>1, LoadOnly
<1>11. Allocated(hp2, l2.pc)
    BY <1>3, <1>4, <1>5, <1>6, <1>9 DEF Allocated
<1> QED BY <1>2, <1>3, <1>4, <1>6, <1>8, <1>10, <1>11, EngineStep

LEMMA ReadLineStep ==
    ASSUME NEW f \in Seq(FileLine), EngineOK(ld, g_db, heap, f), file = f, ReadLine
    PROVE  EngineOK(ld', g_db', heap', f)
<1>1. PICK l, g, hp : l = ld /\ g = g_db /\ hp = heap
    OBVIOUS
<1>2. PICK l2, g2, hp2 : l2 = ld' /\ g2 = g_db' /\ hp2 = heap'
    OBVIOUS
<1>3. PICK x : x = f[l.i]
    OBVIOUS
<1>4. PICK grow \in BOOLEAN : grow = (~Skipped(x) /\ Len(l.lines) = l.cap)
    OBVIOUS
<1>5. PICK ok \in BOOLEAN :
          /\ l.pc = "read" /\ l.i <= Len(f)
          /\ hp2 = IF grow /\ ok THEN hp \cup {<<"load", "lines">>} ELSE hp
          /\ l2 = IF ~ok THEN [l EXCEPT !.pc = "out_failed"]
                  ELSE [l EXCEPT !.i = @ + 1,
                                 !.cap = IF ~grow THEN @ ELSE IF @ = 0 THEN InitCap ELSE 2 * @,
                                 !.lines = IF ~Skipped(x) /\ Parses(x) THEN Append(@, x) ELSE @]
          /\ g2 = g
  <2>1. Outcomes \subseteq BOOLEAN /\ {TRUE} \subseteq BOOLEAN
      BY DEF Outcomes
  <2> QED BY <1>1, <1>2, <1>3, <1>4, <2>1 DEF ReadLine
<1>6. l \in Ld /\ g \in [Type -> Db] /\ Reading(l, f) /\ Compiling(l, g, hp, f) /\ Allocated(hp, l.pc)
    BY <1>1 DEF EngineOK
<1>7. l.type = "HTTP" /\ l.type \in Type /\ LinesExact(l.lines, f, l.i - 1)
    BY <1>5, <1>6 DEF Reading, Type
<1>8. l.i \in 1 .. Len(f) /\ l.i \in Nat /\ l.cap \in Nat
    BY <1>5, <1>6, LdFields
<1>9. /\ l2 \in Ld /\ l2.type = l.type /\ l2.pc \in {"read", "out_failed"}
      /\ l2.i <= Len(f) + 1 /\ LinesExact(l2.lines, f, l2.i - 1)
  <2>1. CASE ~ok
    <3>1. l2 = [l EXCEPT !.pc = "out_failed"]
        BY <1>5, <2>1
    <3>2. "out_failed" \in LoadPc
        BY DEF LoadPc
    <3>3. l2 \in Ld /\ l2.pc = "out_failed" /\ l2.i = l.i /\ l2.lines = l.lines /\ l2.type = l.type
        BY <1>6, <3>1, <3>2, LdPc
    <3> QED BY <1>7, <1>8, <3>3
  <2>2. CASE ok
    <3>1. PICK c, ls : /\ c = IF ~grow THEN l.cap ELSE IF l.cap = 0 THEN InitCap ELSE 2 * l.cap
                       /\ ls = IF ~Skipped(x) /\ Parses(x) THEN Append(l.lines, x) ELSE l.lines
        OBVIOUS
    <3>2. l2 = [l EXCEPT !.i = l.i + 1, !.cap = c, !.lines = ls]
        BY <1>5, <2>2, <3>1
    <3>3. LinesExact(ls, f, l.i)
        BY <1>3, <1>7, <1>8, <3>1, LinesStep DEF IsRule
    <3>4. c \in Nat /\ ls \in Seq(RuleLine) /\ l.i + 1 \in Nat \ {0}
      <4>1. c \in Nat
          BY <1>8, <3>1, EngineAssumption
      <4>2. ls \in Seq(RuleLine)
          BY <3>3 DEF LinesExact
      <4> QED BY <1>8, <4>1, <4>2
    <3>5. l2 \in Ld /\ l2.i = l.i + 1 /\ l2.lines = ls /\ l2.pc = l.pc /\ l2.type = l.type
        BY <1>6, <3>2, <3>4 DEF Ld
    <3>6. l.i + 1 <= Len(f) + 1 /\ (l.i + 1) - 1 = l.i
        BY <1>8
    <3> QED BY <1>5, <3>3, <3>5, <3>6
  <2> QED BY <2>1, <2>2
<1>10. Reading(l2, f)
    BY <1>7, <1>9 DEF Reading
<1>11. PICK X : X \subseteq LoadObj /\ hp2 = hp \cup X
  <2>1. {<<"load", "lines">>} \subseteq LoadObj /\ {} \subseteq LoadObj
      BY DEF LoadObj
  <2>2. hp \cup {} = hp
      OBVIOUS
  <2>3. hp2 = hp \cup {<<"load", "lines">>} \/ hp2 = hp \cup {}
      BY <1>5, <2>2, Zenon
  <2> QED BY <2>1, <2>3, Zenon
<1>12. Compiling(l2, g, hp2, f)
  <2>1. \A d : Working(l.pc, d, hp2, f, l.type) => Working(l2.pc, d, hp2, f, l.type)
      BY <1>5, <1>9 DEF Working
  <2> QED BY <1>6, <1>7, <1>9, <1>11, <2>1, LoadOnly
<1>13. Allocated(hp2, l2.pc)
    BY <1>6, <1>9, <1>11 DEF Allocated
<1> QED BY <1>2, <1>5, <1>6, <1>9, <1>10, <1>12, <1>13, EngineStep

LEMMA EndOfFileStep ==
    ASSUME NEW f \in Seq(FileLine), EngineOK(ld, g_db, heap, f), file = f, EndOfFile
    PROVE  EngineOK(ld', g_db', heap', f)
<1>1. PICK l, g, hp : l = ld /\ g = g_db /\ hp = heap
    OBVIOUS
<1>2. PICK l2, g2, hp2 : l2 = ld' /\ g2 = g_db' /\ hp2 = heap'
    OBVIOUS
<1>3. /\ l.pc = "read" /\ l.i > Len(f) /\ l2 = [l EXCEPT !.pc = "alloc"] /\ g2 = g /\ hp2 = hp
    BY <1>1, <1>2 DEF EndOfFile
<1>4. l \in Ld /\ g \in [Type -> Db] /\ Reading(l, f) /\ Compiling(l, g, hp, f) /\ Allocated(hp, l.pc)
    BY <1>1 DEF EngineOK
<1>5. l2 \in Ld /\ l2.pc = "alloc" /\ l2.i = l.i /\ l2.lines = l.lines /\ l2.type = l.type
  <2>1. "alloc" \in LoadPc
      BY DEF LoadPc
  <2> QED BY <1>3, <1>4, <2>1, LdPc
<1>6. l.type = "HTTP" /\ l.type \in Type /\ l.i <= Len(f) + 1
    BY <1>3, <1>4 DEF Reading, Type
<1>7. l.i = Len(f) + 1
    BY <1>3, <1>4, <1>6, LdFields
<1>8. Reading(l2, f)
    BY <1>4, <1>5, <1>6, <1>7 DEF Reading
<1>9. Compiling(l2, g, hp2, f)
  <2>1. \A d : Working(l.pc, d, hp2, f, l.type) => Working(l2.pc, d, hp2, f, l.type)
      BY <1>3, <1>5 DEF Working
  <2>2. PICK X : X = {}
      OBVIOUS
  <2>3. X \subseteq LoadObj /\ hp2 \in {hp \cup X, hp \ X}
      BY <1>3, <2>2
  <2> QED BY <1>4, <1>5, <1>6, <2>1, <2>3, LoadOnly
<1>10. Allocated(hp2, l2.pc)
    BY <1>3, <1>4, <1>5 DEF Allocated
<1> QED BY <1>2, <1>3, <1>4, <1>5, <1>8, <1>9, <1>10, EngineStep

LEMMA OutStep ==
    ASSUME NEW f \in Seq(FileLine), EngineOK(ld, g_db, heap, f), file = f, Out
    PROVE  EngineOK(ld', g_db', heap', f)
<1>1. PICK l, g, hp : l = ld /\ g = g_db /\ hp = heap
    OBVIOUS
<1>2. PICK l2, g2, hp2 : l2 = ld' /\ g2 = g_db' /\ hp2 = heap'
    OBVIOUS
<1>3. /\ l.pc \in {"out", "out_failed"}
      /\ l2 = [l EXCEPT !.pc = IF l.pc = "out" THEN "loaded" ELSE "failed"]
      /\ hp2 = hp \ LoadObj /\ g2 = g
    BY <1>1, <1>2 DEF Out, LoadObj
<1>4. l \in Ld /\ g \in [Type -> Db] /\ Reading(l, f) /\ Compiling(l, g, hp, f) /\ Allocated(hp, l.pc)
    BY <1>1 DEF EngineOK
<1>5. PICK pc : pc = IF l.pc = "out" THEN "loaded" ELSE "failed"
    OBVIOUS
<1>6. l2 \in Ld /\ l2.pc = pc /\ l2.i = l.i /\ l2.lines = l.lines /\ l2.type = l.type
  <2>1. pc \in LoadPc
      BY <1>5 DEF LoadPc
  <2> QED BY <1>3, <1>4, <1>5, <2>1, LdPc
<1>7. Reading(l2, f)
    BY <1>3, <1>4, <1>5, <1>6 DEF Reading
<1>8. Compiling(l2, g, hp2, f)
  <2>1. \A d : Working(l.pc, d, hp2, f, l.type) => Working(l2.pc, d, hp2, f, l.type)
      BY <1>3, <1>5, <1>6 DEF Working
  <2>2. l.pc \in Failing <=> l2.pc \in Failing
      BY <1>3, <1>5, <1>6 DEF Failing
  <2>3. l.type \in Type
      BY <1>4, LdFields
  <2>4. PICK X : X = LoadObj
      OBVIOUS
  <2>5. X \subseteq LoadObj /\ hp2 \in {hp \cup X, hp \ X}
      BY <1>3, <2>4
  <2> QED BY <1>4, <1>6, <2>1, <2>2, <2>3, <2>5, LoadOnly
<1>9. Allocated(hp2, l2.pc)
    BY <1>3, <1>4 DEF Allocated
<1> QED BY <1>2, <1>3, <1>4, <1>6, <1>7, <1>8, <1>9, EngineStep

(* Steps within compile_db(): from, to, and what they may take and free. *)
CompilePc == {"alloc", "compile", "free", "free_failed"}
NextPc(l, t) == {"free", "free_failed", "compiled", "undo"}
                \cup (IF Len(Rules(l.lines, t)) > 0 THEN {"compile"} ELSE {})
Reallocated(t, hp) == {hp \cup X : X \in SUBSET Obj(t)} \cup {hp \ X : X \in SUBSET Obj(t)}

(* A step of compile_db() for the type t: it leaves d2 of it, and adds or  *)
(* removes objects X of that type.                                         *)
LEMMA TypeStep ==
    ASSUME NEW f \in Seq(FileLine), NEW l, NEW g, NEW hp, EngineOK(l, g, hp, f),
           NEW t \in Type, l.type = t,
           l.pc \in CompilePc, NEW pc \in NextPc(l, t),
           NEW d2 \in Db, NEW hp2 \in Reallocated(t, hp),
           Working(pc, d2, hp2, f, t),
           NEW l2, l2 = [l EXCEPT !.pc = pc], NEW g2, g2 = [g EXCEPT ![t] = d2]
    PROVE  EngineOK(l2, g2, hp2, f)
<1>1. l \in Ld /\ g \in [Type -> Db] /\ Reading(l, f) /\ Compiling(l, g, hp, f) /\ Allocated(hp, l.pc)
    BY DEF EngineOK
<1>2. /\ l.pc \in {"alloc", "compile", "free", "free_failed"}
      /\ pc \in {"compile", "free", "free_failed", "compiled", "undo"}
      /\ pc = "compile" => Len(Rules(l.lines, t)) > 0
    BY DEF CompilePc, NextPc
<1>3. l2 \in Ld /\ l2.pc = pc /\ l2.i = l.i /\ l2.lines = l.lines /\ l2.type = t
  <2>1. pc \in LoadPc
      BY <1>2 DEF LoadPc
  <2> QED BY <1>1, <2>1, LdPc
<1>4. g2 \in [Type -> Db] /\ g2[t] = d2 /\ \A u \in Type \ {t} : g2[u] = g[u]
    BY <1>1
<1>5. PICK X \in SUBSET Obj(t) : hp2 = hp \cup X \/ hp2 = hp \ X
    BY DEF Reallocated
<1>6. \A u \in Type \ {t} : hp2 \cap Obj(u) = hp \cap Obj(u)
  <2> SUFFICES ASSUME NEW u \in Type \ {t} PROVE hp2 \cap Obj(u) = hp \cap Obj(u)
      OBVIOUS
  <2>1. Obj(u) \cap Obj(t) = {}
      BY ObjFacts DEF Type
  <2>2. X \cap Obj(u) = {}
      BY <2>1
  <2> QED BY <1>5, <2>2, Others
<1>7. Reading(l2, f)
    BY <1>1, <1>2, <1>3 DEF Reading
<1>8. Compiling(l2, g2, hp2, f)
  <2>1. t = "HTTPS" => (l.pc \in Failing <=> l2.pc \in Failing)
      BY <1>2, <1>3 DEF Failing
  <2>2. OthersKept(t, g, hp, g2, hp2)
      BY <1>4, <1>6 DEF OthersKept
  <2>3. Working(l2.pc, g2[t], hp2, f, t)
      BY <1>3, <1>4
  <2> QED BY <1>1, <1>3, <2>1, <2>2, <2>3, Change
<1>9. Allocated(hp2, l2.pc)
  <2>1. Obj(t) \subseteq Obj("HTTP") \cup Obj("HTTPS")
      BY DEF Type
  <2> QED BY <1>1, <1>2, <1>3, <1>5, <2>1 DEF Allocated
<1> QED BY <1>3, <1>4, <1>7, <1>8, <1>9 DEF EngineOK

(* What compile_db() finds when it is called. *)
LEMMA ToCompile ==
    ASSUME NEW f \in Seq(FileLine), NEW l, NEW g, NEW hp, EngineOK(l, g, hp, f),
           l.pc \in {"alloc", "compile", "free", "free_failed"}
    PROVE  \E t \in Type : /\ l.type = t /\ g[t] \in Db /\ Working(l.pc, g[t], hp, f, t)
                           /\ Rules(l.lines, t) \in Seq(RuleLine)
                           /\ RulesExact(Rules(l.lines, t), f, t)
                           /\ l.pc = "compile" => Len(Rules(l.lines, t)) > 0
<1>1. l \in Ld /\ g \in [Type -> Db] /\ Reading(l, f) /\ Compiling(l, g, hp, f)
    BY DEF EngineOK
<1>2. PICK t \in Type : l.type = t
    BY <1>1, LdFields
<1>3. g[t] \in Db /\ Working(l.pc, g[t], hp, f, t)
    BY <1>1, <1>2 DEF Compiling
<1>4. l.i = Len(f) + 1 /\ LinesExact(l.lines, f, l.i - 1) /\ (l.pc = "compile" => Len(Rules(l.lines, t)) > 0)
    BY <1>1, <1>2 DEF Reading
<1>5. LinesExact(l.lines, f, Len(f))
  <2>1. l.i - 1 = Len(f)
      BY <1>4
  <2> QED BY <1>4, <2>1, Zenon
<1>6. RulesExact(Rules(l.lines, t), f, t)
    BY <1>5, RulesFound
<1> QED BY <1>2, <1>3, <1>4, <1>6 DEF RulesExact

LEMMA CompileAllocStep ==
    ASSUME NEW f \in Seq(FileLine), EngineOK(ld, g_db, heap, f), file = f, CompileAlloc
    PROVE  EngineOK(ld', g_db', heap', f)
<1>1. PICK l, g, hp : l = ld /\ g = g_db /\ hp = heap
    OBVIOUS
<1>2. PICK l2, g2, hp2 : l2 = ld' /\ g2 = g_db' /\ hp2 = heap'
    OBVIOUS
<1>3. EngineOK(l, g, hp, f) /\ l.pc = "alloc"
    BY <1>1 DEF CompileAlloc
<1>4. PICK t \in Type : /\ l.type = t /\ g[t] \in Db /\ Working(l.pc, g[t], hp, f, t)
                        /\ Rules(l.lines, t) \in Seq(RuleLine)
                        /\ RulesExact(Rules(l.lines, t), f, t)
    BY <1>3, ToCompile
<1>5. PICK R \in Seq(RuleLine) : R = Rules(l.lines, t)
    BY <1>4
<1>6. PICK n \in Nat : n = Len(R)
    OBVIOUS
<1>7. g[t].db = << >> /\ g[t].rules = << >> /\ hp \cap Obj(t) = {}
    BY <1>3, <1>4 DEF Working, Clear
<1>8. g \in [Type -> Db]
    BY <1>3 DEF EngineOK
<1>9. \/ /\ n = 0
         /\ g2 = [g EXCEPT ![t] = NullDb] /\ l2 = [l EXCEPT !.pc = "compiled"] /\ hp2 = hp
      \/ /\ n > 0
         /\ \E got \in SUBSET Arrays(t) :
               /\ hp2 = hp \cup got
               /\ g2 = [g EXCEPT ![t].rules = IF <<t, "rules">> \in got
                                              THEN [i \in 1 .. n |-> "FORWARD"] ELSE << >>]
               /\ l2 = [l EXCEPT !.pc = IF got = Arrays(t) THEN "compile" ELSE "free_failed"]
    BY <1>1, <1>2, <1>4, <1>5, <1>6 DEF CompileAlloc
<1>10. CASE n = 0
  <2>1. g2 = [g EXCEPT ![t] = NullDb] /\ l2 = [l EXCEPT !.pc = "compiled"] /\ hp2 = hp
      BY <1>9, <1>10
  <2>2. NullDb \in Db /\ NullDb.db = << >> /\ NullDb.rules = << >>
      BY DEF NullDb, Db
  <2>3. DbExact(NullDb, f, t)
    <3>1. Made(NullDb, R)
        BY <1>6, <1>10, MadeEmpty
    <3> QED BY <1>4, <1>5, <3>1 DEF DbExact
  <2>4. Held(NullDb, t) = {}
      BY <2>2 DEF Held
  <2>5. Working("compiled", NullDb, hp2, f, t)
      BY <1>7, <2>1, <2>3, <2>4 DEF Working, Ready
  <2>6. hp2 \in Reallocated(t, hp)
    <3>1. hp2 = hp \cup {} /\ {} \in SUBSET Obj(t)
        BY <2>1
    <3> QED BY <3>1 DEF Reallocated
  <2>7. l.pc \in CompilePc /\ "compiled" \in NextPc(l, t)
      BY <1>3 DEF CompilePc, NextPc
  <2>8. EngineOK(l2, g2, hp2, f)
      BY <1>3, <1>4, <2>1, <2>2, <2>5, <2>6, <2>7, TypeStep
  <2> QED BY <1>2, <2>8
<1>11. CASE n > 0
  <2>1. PICK got \in SUBSET Arrays(t) :
            /\ hp2 = hp \cup got
            /\ g2 = [g EXCEPT ![t].rules = IF <<t, "rules">> \in got
                                           THEN [i \in 1 .. n |-> "FORWARD"] ELSE << >>]
            /\ l2 = [l EXCEPT !.pc = IF got = Arrays(t) THEN "compile" ELSE "free_failed"]
    <3>1. n # 0
        BY <1>11
    <3> QED BY <1>9, <3>1, Zenon
  <2>2. PICK r : r = IF <<t, "rules">> \in got THEN [i \in 1 .. n |-> "FORWARD"] ELSE << >>
      OBVIOUS
  <2>3. r \in Seq({"DROP", "FORWARD"})
    <3>1. [i \in 1 .. n |-> "FORWARD"] \in [1 .. n -> {"DROP", "FORWARD"}]
        OBVIOUS
    <3>2. [i \in 1 .. n |-> "FORWARD"] \in Seq({"DROP", "FORWARD"})
        BY <3>1, FunIsSeq, Zenon
    <3>3. << >> \in Seq({"DROP", "FORWARD"})
        OBVIOUS
    <3> QED BY <2>2, <3>2, <3>3, Zenon
  <2>4. PICK d2 : d2 = [g[t] EXCEPT !.rules = r]
      OBVIOUS
  <2>5. d2 \in Db /\ d2.db = << >>
      BY <1>4, <1>7, <2>3, <2>4 DEF Db
  <2>6. g2 = [g EXCEPT ![t] = d2]
      BY <1>8, <2>1, <2>2, <2>4
  <2>7. PICK pc \in {"compile", "free_failed"} :
            l2 = [l EXCEPT !.pc = pc] /\ (pc = "compile" => got = Arrays(t))
      BY <2>1
  <2>8. hp2 \in Reallocated(t, hp)
    <3>1. got \in SUBSET Obj(t)
        BY ObjFacts
    <3> QED BY <2>1, <3>1 DEF Reallocated
  <2>9. <<t, "db">> \notin hp2 /\ (pc = "compile" => Arrays(t) \subseteq hp2)
      BY <1>7, <2>1, <2>7, ObjFacts
  <2>10. Working(pc, d2, hp2, f, t)
      BY <2>5, <2>7, <2>9 DEF Working
  <2>11. l.pc \in CompilePc /\ pc \in NextPc(l, t)
      BY <1>3, <1>5, <1>6, <1>11 DEF CompilePc, NextPc
  <2>12. l.type = t /\ l2 = [l EXCEPT !.pc = pc]
      BY <1>4, <2>7
  <2>13. EngineOK(l2, g2, hp2, f)
      BY <1>3, <2>5, <2>6, <2>8, <2>10, <2>11, <2>12, TypeStep
  <2> QED BY <1>2, <2>13
<1> QED BY <1>9, <1>10, <1>11

LEMMA HsCompileStep ==
    ASSUME NEW f \in Seq(FileLine), EngineOK(ld, g_db, heap, f), file = f, HsCompile
    PROVE  EngineOK(ld', g_db', heap', f)
<1>1. PICK l, g, hp : l = ld /\ g = g_db /\ hp = heap
    OBVIOUS
<1>2. PICK l2, g2, hp2 : l2 = ld' /\ g2 = g_db' /\ hp2 = heap'
    OBVIOUS
<1>3. EngineOK(l, g, hp, f) /\ l.pc = "compile"
    BY <1>1 DEF HsCompile
<1>4. PICK t \in Type : /\ l.type = t /\ Working(l.pc, g[t], hp, f, t)
                        /\ Rules(l.lines, t) \in Seq(RuleLine)
                        /\ RulesExact(Rules(l.lines, t), f, t) /\ Len(Rules(l.lines, t)) > 0
    BY <1>3, ToCompile
<1>5. PICK R \in Seq(RuleLine) : R = Rules(l.lines, t) /\ RulesExact(R, f, t) /\ Len(R) > 0
    BY <1>4
<1>6. PICK exprs : exprs = [i \in 1 .. Len(R) |-> [id |-> i - 1, hits |-> R[i].hits]]
    OBVIOUS
<1>7. PICK ok \in BOOLEAN :
          /\ g2 = [g EXCEPT ![t] =
                      [db |-> IF ~ok THEN << >> ELSE exprs,
                       rules |-> [i \in 1 .. Len(R) |-> R[i].action], nrules |-> Len(R)]]
          /\ hp2 = IF ok THEN hp \cup {<<t, "db">>} ELSE hp
          /\ l2 = [l EXCEPT !.pc = IF ok THEN "free" ELSE "free_failed"]
  <2>1. Outcomes \subseteq BOOLEAN
      BY DEF Outcomes
  <2>2. Rules(ld.lines, ld.type) = R /\ ld.type = t
      BY <1>1, <1>4, <1>5
  <2>3. PICK ok \in Outcomes :
            /\ g_db' = [g_db EXCEPT ![ld.type] =
                  [db |-> IF ~ok THEN << >>
                          ELSE [i \in 1 .. Len(Rules(ld.lines, ld.type)) |->
                                  [id |-> i - 1, hits |-> Rules(ld.lines, ld.type)[i].hits]],
                   rules |-> [i \in 1 .. Len(Rules(ld.lines, ld.type)) |->
                                  Rules(ld.lines, ld.type)[i].action],
                   nrules |-> Len(Rules(ld.lines, ld.type))]]
            /\ heap' = IF ok THEN heap \cup {<<ld.type, "db">>} ELSE heap
            /\ ld' = [ld EXCEPT !.pc = IF ok THEN "free" ELSE "free_failed"]
      BY Zenon DEF HsCompile
  <2>4. ok \in BOOLEAN
      BY <2>1
  <2> QED BY <1>1, <1>2, <1>6, <2>2, <2>3, <2>4, Zenon
<1>8. PICK d2 :
          /\ d2 = [db |-> IF ~ok THEN << >> ELSE exprs,
                   rules |-> [i \in 1 .. Len(R) |-> R[i].action], nrules |-> Len(R)]
          /\ g2 = [g EXCEPT ![t] = d2]
          /\ hp2 = IF ok THEN hp \cup {<<t, "db">>} ELSE hp
          /\ l2 = [l EXCEPT !.pc = IF ok THEN "free" ELSE "free_failed"]
    BY <1>7
<1>9. /\ d2.db = (IF ok THEN exprs ELSE << >>)
      /\ d2.rules = [i \in 1 .. Len(R) |-> R[i].action] /\ d2.nrules = Len(R)
    BY <1>8
<1>10. <<t, "db">> \notin hp /\ Arrays(t) \subseteq hp
    BY <1>3, <1>4 DEF Working
<1>11. l.pc \in CompilePc /\ {"free", "free_failed"} \subseteq NextPc(l, t)
    BY <1>3 DEF CompilePc, NextPc
<1>12. PICK d3 : d3 = [db |-> exprs, rules |-> [i \in 1 .. Len(R) |-> R[i].action],
                       nrules |-> Len(R)]
    OBVIOUS
<1>13. Made(d3, R)
  <2>1. /\ d3.db = exprs /\ d3.rules = [i \in 1 .. Len(R) |-> R[i].action]
        /\ d3.nrules = Len(R)
      BY <1>12
  <2> QED BY <1>6, <2>1, Zenon DEF Made
<1>14. /\ exprs \in Seq([id : Nat, hits : SUBSET Text]) /\ exprs # << >>
       /\ [i \in 1 .. Len(R) |-> R[i].action] \in Seq({"DROP", "FORWARD"})
       /\ d3.rules # << >>
  <2>1. d3.db = exprs /\ d3.rules = [i \in 1 .. Len(R) |-> R[i].action]
      BY <1>12
  <2>2. /\ d3.db \in Seq([id : Nat, hits : SUBSET Text]) /\ d3.rules \in Seq({"DROP", "FORWARD"})
        /\ d3.db = << >> <=> Len(R) = 0
        /\ d3.rules = << >> <=> Len(R) = 0
      BY <1>13, MadeFacts, Zenon
  <2>3. Len(R) # 0
      BY <1>5
  <2> QED BY <2>1, <2>2, <2>3, Zenon
<1>15. d2 \in Db
  <2>1. d2.db \in Seq([id : Nat, hits : SUBSET Text])
      BY <1>9, <1>14
  <2>2. Len(R) \in Nat
      OBVIOUS
  <2> QED BY <1>8, <1>9, <1>14, <2>1, <2>2 DEF Db
<1>16. CASE ok
  <2>1. d2 = d3 /\ hp2 = hp \cup {<<t, "db">>} /\ l2 = [l EXCEPT !.pc = "free"]
      BY <1>8, <1>12, <1>16
  <2>2. DbExact(d2, f, t)
      BY <1>5, <1>13, <2>1 DEF DbExact
  <2>3. Owned(t) \subseteq hp2
    <3>1. Owned(t) = {<<t, "db">>, <<t, "rules">>} /\ <<t, "rules">> \in Arrays(t)
        BY ObjFacts
    <3> QED BY <1>10, <2>1, <3>1
  <2>4. d2.db # << >> /\ d2.rules # << >>
      BY <1>9, <1>14, <1>16, <2>1
  <2>5. Working("free", d2, hp2, f, t)
      BY <2>2, <2>3, <2>4 DEF Working
  <2>6. hp2 \in Reallocated(t, hp)
    <3>1. {<<t, "db">>} \in SUBSET Obj(t)
        BY ObjFacts
    <3> QED BY <2>1, <3>1 DEF Reallocated
  <2>7. "free" \in NextPc(l, t)
      BY <1>11
  <2>8. /\ EngineOK(l, g, hp, f) /\ l.type = t /\ l.pc \in CompilePc /\ "free" \in NextPc(l, t)
        /\ d2 \in Db /\ hp2 \in Reallocated(t, hp) /\ Working("free", d2, hp2, f, t)
        /\ l2 = [l EXCEPT !.pc = "free"] /\ g2 = [g EXCEPT ![t] = d2]
      BY <1>3, <1>4, <1>8, <1>11, <1>15, <2>1, <2>5, <2>6, <2>7
  <2>9. EngineOK(l2, g2, hp2, f)
      BY <2>8, TypeStep, Zenon
  <2> QED BY <1>2, <2>9
<1>17. CASE ~ok
  <2>1. d2.db = << >> /\ hp2 = hp /\ l2 = [l EXCEPT !.pc = "free_failed"]
      BY <1>8, <1>9, <1>17
  <2>2. Working("free_failed", d2, hp2, f, t)
      BY <1>10, <2>1 DEF Working
  <2>3. hp2 \in Reallocated(t, hp)
    <3>1. hp2 = hp \cup {} /\ {} \in SUBSET Obj(t)
        BY <2>1
    <3> QED BY <3>1 DEF Reallocated
  <2>4. "free_failed" \in NextPc(l, t)
      BY <1>11
  <2>5. /\ EngineOK(l, g, hp, f) /\ l.type = t /\ l.pc \in CompilePc /\ "free_failed" \in NextPc(l, t)
        /\ d2 \in Db /\ hp2 \in Reallocated(t, hp) /\ Working("free_failed", d2, hp2, f, t)
        /\ l2 = [l EXCEPT !.pc = "free_failed"] /\ g2 = [g EXCEPT ![t] = d2]
      BY <1>3, <1>4, <1>8, <1>11, <1>15, <2>1, <2>2, <2>3, <2>4
  <2>6. EngineOK(l2, g2, hp2, f)
      BY <2>5, TypeStep, Zenon
  <2> QED BY <1>2, <2>6
<1> QED BY <1>16, <1>17

LEMMA CompileFreeStep ==
    ASSUME NEW f \in Seq(FileLine), EngineOK(ld, g_db, heap, f), file = f, CompileFree
    PROVE  EngineOK(ld', g_db', heap', f)
<1>1. PICK l, g, hp : l = ld /\ g = g_db /\ hp = heap
    OBVIOUS
<1>2. PICK l2, g2, hp2 : l2 = ld' /\ g2 = g_db' /\ hp2 = heap'
    OBVIOUS
<1>3. EngineOK(l, g, hp, f) /\ l.pc \in {"free", "free_failed"} /\ g \in [Type -> Db]
    BY <1>1 DEF CompileFree, EngineOK
<1>4. PICK t \in Type : l.type = t /\ g[t] \in Db /\ Working(l.pc, g[t], hp, f, t)
    BY <1>3, ToCompile
<1>5. l.pc \in CompilePc /\ {"undo", "compiled"} \subseteq NextPc(l, t)
    BY <1>3 DEF CompilePc, NextPc
<1>6. CASE l.pc = "free_failed"
  <2>1. /\ hp2 = hp \ Arrays(t) /\ g2 = [g EXCEPT ![t].rules = << >>]
        /\ l2 = [l EXCEPT !.pc = "undo"]
      BY <1>1, <1>2, <1>4, <1>6 DEF CompileFree
  <2>2. PICK d2 : d2 = [g[t] EXCEPT !.rules = << >>]
      OBVIOUS
  <2>3. g[t].db = << >> /\ <<t, "db">> \notin hp
      BY <1>4, <1>6 DEF Working
  <2>4. d2 \in Db /\ d2.db = << >> /\ d2.rules = << >>
    <3>1. << >> \in Seq({"DROP", "FORWARD"})
        OBVIOUS
    <3> QED BY <1>4, <2>2, <2>3, <3>1 DEF Db
  <2>5. g2 = [g EXCEPT ![t] = d2]
      BY <1>3, <2>1, <2>2
  <2>6. hp2 \cap Obj(t) = {}
    <3>1. Obj(t) = Arrays(t) \cup {<<t, "db">>}
        BY ObjFacts
    <3> QED BY <2>1, <2>3, <3>1
  <2>7. Working("undo", d2, hp2, f, t)
      BY <2>4, <2>6 DEF Working, Clear
  <2>8. hp2 \in Reallocated(t, hp)
    <3>1. Arrays(t) \in SUBSET Obj(t)
        BY ObjFacts
    <3> QED BY <2>1, <3>1 DEF Reallocated
  <2>9. "undo" \in NextPc(l, t)
      BY <1>5
  <2>10. /\ EngineOK(l, g, hp, f) /\ l.type = t /\ l.pc \in CompilePc /\ "undo" \in NextPc(l, t)
        /\ d2 \in Db /\ hp2 \in Reallocated(t, hp) /\ Working("undo", d2, hp2, f, t)
        /\ l2 = [l EXCEPT !.pc = "undo"] /\ g2 = [g EXCEPT ![t] = d2]
      BY <1>3, <1>4, <1>5, <2>1, <2>4, <2>5, <2>7, <2>8, <2>9
  <2>11. EngineOK(l2, g2, hp2, f)
      BY <2>10, TypeStep, Zenon
  <2> QED BY <1>2, <2>11
<1>7. CASE l.pc = "free"
  <2>1. /\ hp2 = hp \ (Arrays(t) \ {<<t, "rules">>}) /\ g2 = g
        /\ l2 = [l EXCEPT !.pc = "compiled"]
      BY <1>1, <1>2, <1>4, <1>7 DEF CompileFree
  <2>2. PICK d2 \in Db : d2 = g[t]
      BY <1>4
  <2>3. DbExact(d2, f, t) /\ d2.db # << >> /\ d2.rules # << >> /\ Owned(t) \subseteq hp
      BY <1>4, <1>7, <2>2 DEF Working
  <2>4. g2 = [g EXCEPT ![t] = d2]
      BY <1>3, <2>1, <2>2
  <2>5. hp2 \cap Obj(t) = Owned(t)
    <3>1. /\ Obj(t) = Arrays(t) \cup {<<t, "db">>} /\ Owned(t) = {<<t, "db">>, <<t, "rules">>}
          /\ <<t, "db">> \notin Arrays(t) /\ <<t, "rules">> \in Arrays(t)
        BY ObjFacts
    <3> QED BY <2>1, <2>3, <3>1
  <2>6. Held(d2, t) = Owned(t)
      BY <2>3 DEF Held, Owned
  <2>7. Working("compiled", d2, hp2, f, t)
      BY <2>3, <2>5, <2>6 DEF Working, Ready
  <2>8. hp2 \in Reallocated(t, hp)
    <3>1. Arrays(t) \ {<<t, "rules">>} \in SUBSET Obj(t)
        BY ObjFacts
    <3> QED BY <2>1, <3>1 DEF Reallocated
  <2>9. "compiled" \in NextPc(l, t)
      BY <1>5
  <2>10. /\ EngineOK(l, g, hp, f) /\ l.type = t /\ l.pc \in CompilePc /\ "compiled" \in NextPc(l, t)
        /\ d2 \in Db /\ hp2 \in Reallocated(t, hp) /\ Working("compiled", d2, hp2, f, t)
        /\ l2 = [l EXCEPT !.pc = "compiled"] /\ g2 = [g EXCEPT ![t] = d2]
      BY <1>3, <1>4, <1>5, <2>1, <2>2, <2>4, <2>7, <2>8, <2>9
  <2>11. EngineOK(l2, g2, hp2, f)
      BY <2>10, TypeStep, Zenon
  <2> QED BY <1>2, <2>11
<1> QED BY <1>3, <1>6, <1>7

LEMMA CompiledStep ==
    ASSUME NEW f \in Seq(FileLine), EngineOK(ld, g_db, heap, f), file = f, Compiled
    PROVE  EngineOK(ld', g_db', heap', f)
<1>1. PICK l, g, hp : l = ld /\ g = g_db /\ hp = heap
    OBVIOUS
<1>2. PICK l2 : l2 = ld' /\ g_db' = g /\ heap' = hp
    BY <1>1 DEF Compiled
<1>3. /\ l.pc = "compiled"
      /\ l2 = IF l.type = "HTTP" THEN [l EXCEPT !.pc = "alloc", !.type = "HTTPS"]
                                 ELSE [l EXCEPT !.pc = "out"]
    BY <1>1, <1>2 DEF Compiled
<1>4. l \in Ld /\ g \in [Type -> Db] /\ Reading(l, f) /\ Compiling(l, g, hp, f) /\ Allocated(hp, l.pc)
    BY <1>1 DEF EngineOK
<1>5. l.type \in Type /\ {"HTTP", "HTTPS"} = Type
    BY <1>4, LdFields DEF Type
<1>6. CASE l.type = "HTTP"
  <2>1. l2 = [l EXCEPT !.pc = "alloc", !.type = "HTTPS"]
      BY <1>3, <1>6
  <2>2. /\ l2 \in Ld /\ l2.pc = "alloc" /\ l2.type = "HTTPS"
        /\ l2.i = l.i /\ l2.lines = l.lines
    <3>1. "alloc" \in LoadPc /\ "HTTPS" \in Type
        BY DEF LoadPc, Type
    <3> QED BY <1>4, <2>1, <3>1 DEF Ld
  <2>3. Reading(l2, f)
      BY <1>3, <1>4, <2>2 DEF Reading
  <2>4. Ready(g["HTTP"], hp, f, "HTTP") /\ Clear(g["HTTPS"], hp, "HTTPS")
      BY <1>3, <1>4, <1>6 DEF Compiling, Working
  <2>5. Compiling(l2, g, hp, f)
      BY <2>2, <2>4 DEF Compiling, Working, Other
  <2>6. Allocated(hp, l2.pc)
      BY <1>4, <2>2 DEF Allocated
  <2> QED BY <1>2, <1>4, <2>2, <2>3, <2>5, <2>6 DEF EngineOK
<1>7. CASE l.type = "HTTPS"
  <2>1. l2 = [l EXCEPT !.pc = "out"]
      BY <1>3, <1>7
  <2>2. l2 \in Ld /\ l2.pc = "out" /\ l2.type = "HTTPS" /\ l2.i = l.i /\ l2.lines = l.lines
    <3>1. "out" \in LoadPc
        BY DEF LoadPc
    <3> QED BY <1>4, <1>7, <2>1, <3>1, LdPc
  <2>3. Reading(l2, f)
      BY <1>3, <1>4, <2>2 DEF Reading
  <2>4. Ready(g["HTTPS"], hp, f, "HTTPS") /\ Ready(g["HTTP"], hp, f, "HTTP")
      BY <1>3, <1>4, <1>7 DEF Compiling, Working, Other
  <2>5. Compiling(l2, g, hp, f)
      BY <2>2, <2>4 DEF Compiling, Working, Other
  <2>6. Allocated(hp, l2.pc)
      BY <1>4, <2>2 DEF Allocated
  <2> QED BY <1>2, <1>4, <2>2, <2>3, <2>5, <2>6 DEF EngineOK
<1> QED BY <1>5, <1>6, <1>7

LEMMA UndoStep ==
    ASSUME NEW f \in Seq(FileLine), EngineOK(ld, g_db, heap, f), file = f, Undo
    PROVE  EngineOK(ld', g_db', heap', f)
<1>1. PICK l, g, hp : l = ld /\ g = g_db /\ hp = heap
    OBVIOUS
<1>2. PICK l2, g2, hp2 : l2 = ld' /\ g2 = g_db' /\ hp2 = heap'
    OBVIOUS
<1>3. /\ l.pc = "undo" /\ l2 = [l EXCEPT !.pc = "out_failed"]
      /\ l.type = "HTTPS" => hp2 = hp \ Owned("HTTP") /\ g2 = [g EXCEPT !["HTTP"] = NullDb]
      /\ l.type # "HTTPS" => hp2 = hp /\ g2 = g
    BY <1>1, <1>2 DEF Undo
<1>4. l \in Ld /\ g \in [Type -> Db] /\ Reading(l, f) /\ Compiling(l, g, hp, f) /\ Allocated(hp, l.pc)
    BY <1>1 DEF EngineOK
<1>5. l2 \in Ld /\ l2.pc = "out_failed" /\ l2.i = l.i /\ l2.lines = l.lines /\ l2.type = l.type
  <2>1. "out_failed" \in LoadPc
      BY DEF LoadPc
  <2> QED BY <1>3, <1>4, <2>1, LdPc
<1>6. l.type \in Type
    BY <1>4, LdFields
<1>7. Reading(l2, f)
    BY <1>3, <1>4, <1>5 DEF Reading
<1>8. Allocated(hp2, l2.pc)
    BY <1>3, <1>4, <1>5 DEF Allocated
<1>9. CASE l.type = "HTTP"
  <2>1. Clear(g["HTTP"], hp, "HTTP") /\ Clear(g["HTTPS"], hp, "HTTPS") /\ g2 = g /\ hp2 = hp
      BY <1>3, <1>4, <1>9 DEF Compiling, Working
  <2>2. Compiling(l2, g2, hp2, f)
      BY <1>5, <1>9, <2>1 DEF Compiling, Working
  <2> QED BY <1>2, <1>4, <1>5, <1>7, <1>8, <2>1, <2>2 DEF EngineOK
<1>10. CASE l.type = "HTTPS"
  <2>1. hp2 = hp \ Owned("HTTP") /\ g2 = [g EXCEPT !["HTTP"] = NullDb]
      BY <1>3, <1>10
  <2>2. Clear(g["HTTPS"], hp, "HTTPS") /\ Ready(g["HTTP"], hp, f, "HTTP")
      BY <1>3, <1>4, <1>10 DEF Compiling, Working, Other
  <2>3. NullDb \in Db /\ NullDb.db = << >> /\ NullDb.rules = << >>
      BY DEF NullDb, Db
  <2>4. g2 \in [Type -> Db] /\ g2["HTTP"] = NullDb /\ g2["HTTPS"] = g["HTTPS"]
      BY <1>4, <2>1, <2>3 DEF Type
  <2>5. hp2 \cap Obj("HTTPS") = hp \cap Obj("HTTPS")
    <3>1. Owned("HTTP") \cap Obj("HTTPS") = {}
        BY DEF Owned, Obj, Arrays
    <3> QED BY <2>1, <3>1
  <2>6. hp2 \cap Obj("HTTP") = {}
    <3>1. Held(g["HTTP"], "HTTP") \subseteq Owned("HTTP")
        BY DEF Held, Owned
    <3>2. hp \cap Obj("HTTP") \subseteq Owned("HTTP")
        BY <2>2, <3>1 DEF Ready
    <3> QED BY <2>1, <3>2
  <2>7. Clear(g2["HTTPS"], hp2, "HTTPS") /\ Clear(g2["HTTP"], hp2, "HTTP")
      BY <2>2, <2>3, <2>4, <2>5, <2>6 DEF Clear
  <2>8. Compiling(l2, g2, hp2, f)
      BY <1>5, <1>10, <2>7 DEF Compiling, Working, Other
  <2> QED BY <1>2, <1>5, <1>7, <1>8, <2>4, <2>8 DEF EngineOK
<1> QED BY <1>6, <1>9, <1>10 DEF Type

(* dpi_engine_load_rules(), step by step. *)
LEMMA LoadStep ==
    ASSUME NEW f \in Seq(FileLine), EngineOK(ld, g_db, heap, f), file = f, LoadRules
    PROVE  /\ EngineOK(ld', g_db', heap', f)
           /\ UNCHANGED <<file, scratch, scan>>
           /\ <<"worker", "scratch">> \in heap' => <<"worker", "scratch">> \in heap
           /\ ld.pc \notin {"loaded", "failed"}
<1>1. EngineOK(ld', g_db', heap', f)
    BY OpenStep, ReadLineStep, EndOfFileStep, CompileAllocStep, HsCompileStep, CompileFreeStep,
       CompiledStep, UndoStep, OutStep DEF LoadRules
<1>2. UNCHANGED <<file, scratch, scan>> /\ ld.pc \notin {"loaded", "failed"}
    BY DEF LoadRules, Open, ReadLine, EndOfFile, CompileAlloc, HsCompile, CompileFree, Compiled, Undo, Out
<1>3. <<"worker", "scratch">> \in heap' => <<"worker", "scratch">> \in heap
  <2> DEFINE w == <<"worker", "scratch">>
  <2>0. ld.type \in Type
      BY LdFields DEF EngineOK
  <2>1. \A t \in Type : w \notin Arrays(t) /\ w # <<t, "db">>
      BY DEF Arrays, Type
  <2>2. CASE Open \/ ReadLine
    <3>1. heap' \in {heap, heap \cup {<<"load", "file">>}, heap \cup {<<"load", "lines">>}}
      <4>1. CASE Open
          BY <4>1, Zenon DEF Open
      <4>2. CASE ReadLine
          BY <4>2, Zenon DEF ReadLine
      <4> QED BY <2>2, <4>1, <4>2
    <3> QED BY <3>1
  <2>3. CASE CompileAlloc
    <3>1. PICK t \in Type : t = ld.type
        BY <2>0
    <3>2. heap' = heap \/ \E got \in SUBSET Arrays(t) : heap' = heap \cup got
        BY <2>3, <3>1 DEF CompileAlloc
    <3> QED BY <2>1, <3>2
  <2>4. CASE HsCompile
      BY <2>0, <2>1, <2>4 DEF HsCompile
  <2>5. CASE EndOfFile \/ CompileFree \/ Compiled \/ Undo \/ Out
      BY <2>5 DEF EndOfFile, CompileFree, Compiled, Undo, Out
  <2> QED BY <2>2, <2>3, <2>4, <2>5 DEF LoadRules
<1> QED BY <1>1, <1>2, <1>3

-----------------------------------------------------------------------------
(* main() *)

LEMMA MainFields ==
    ASSUME NEW m \in Main
    PROVE  /\ m.pc \in MainPc /\ m.num_workers \in Nat /\ m.lcores \in Seq(Nat)
           /\ m.rings \in SUBSET ({"worker", "tx"} \X Nat)
    BY DEF Main

LEMMA MainTo ==
    ASSUME NEW m \in Main, NEW pc \in MainPc
    PROVE  /\ [m EXCEPT !.pc = pc] \in Main
           /\ [m EXCEPT !.pc = pc].pc = pc /\ [m EXCEPT !.pc = pc].num_workers = m.num_workers
           /\ [m EXCEPT !.pc = pc].lcores = m.lcores /\ [m EXCEPT !.pc = pc].rings = m.rings
    BY DEF Main

(* What main() knows of the load when it is at pc. *)
LoadedBy(pc, lpc) ==
    /\ pc = "options" => lpc = "off"
    /\ pc \notin {"options", "load", "exit"} => lpc = "loaded"
    /\ pc = "exit" => lpc \in {"off", "loaded", "failed"}

(* A step of main() itself before the threads run. *)
LEMMA MainStep ==
    ASSUME Inv, main.pc \notin {"run", "done"}, UNCHANGED <<engineVars, set>>,
           main' \in Main, main'.pc # "done", LoadedBy(main'.pc, ld.pc),
           main'.pc \notin {"options", "exit"} => main'.num_workers \in 2 .. MaxWorkers,
           Lcored(main', set), Ringed(main')
    PROVE  Inv'
<1>1. /\ file' = file /\ ld' = ld /\ g_db' = g_db /\ heap' = heap /\ scratch' = scratch
      /\ scan' = scan /\ set' = set
    BY DEF engineVars
<1>2. scratch = "none" /\ scan.pc = "idle"
    BY DEF Inv, MainInv
<1>3. TypeOK'
    BY <1>1 DEF Inv, TypeOK
<1>4. HeapInv'
    BY <1>1 DEF Inv, HeapInv
<1>5. ScanInv'
    BY <1>1, <1>2 DEF Inv, ScanInv
<1>6. MainInv'
    BY <1>1, <1>2 DEF MainInv, LoadedBy
<1>7. PlacesInv'
    BY <1>1 DEF PlacesInv
<1>8. LoadInv'
    BY <1>1 DEF Inv, LoadInv
<1> QED BY <1>3, <1>4, <1>5, <1>6, <1>7, <1>8 DEF Inv

LEMMA OptionsStep ==
    ASSUME Inv, Options
    PROVE  Inv'
<1>1. PICK n : n = Unsigned(set.w)
    OBVIOUS
<1>2. n \in Nat
  <2>1. set.w \in Int /\ U32 \in Nat /\ U32 > 0 /\ MaxWorkers \in Nat
      BY StartupAssumption DEF Inv, TypeOK
  <2> QED BY <1>1, <2>1 DEF Unsigned
<1>3. PICK m \in Main : m = main
    BY DEF Inv, TypeOK
<1>4. PICK pc \in {"load", "exit"} :
          /\ main' = [m EXCEPT !.pc = pc, !.num_workers = n]
          /\ pc = "load" => n >= 2 /\ n <= MaxWorkers
    BY <1>1, <1>3 DEF Options
<1>5. m.pc = "options" /\ UNCHANGED <<engineVars, set>> /\ ld.pc = "off"
    BY <1>3 DEF Options, Inv, MainInv
<1>6. PICK m2 : m2 = main'
    OBVIOUS
<1>7. /\ m2 \in Main /\ m2.pc = pc /\ m2.num_workers = n /\ m2.lcores = m.lcores
      /\ m2.rings = m.rings
  <2>1. pc \in MainPc
      BY DEF MainPc
  <2> QED BY <1>2, <1>4, <1>6, <2>1 DEF Main
<1>8. m.lcores = << >> /\ m.rings = {} /\ Lcored(m, set)
    BY <1>3, <1>5 DEF Inv, PlacesInv, Lcored, Ringed
<1>9. Lcored(m2, set) /\ Ringed(m2)
    BY <1>7, <1>8 DEF Lcored, Ringed
<1>10. m2.pc \notin {"options", "exit"} => m2.num_workers \in 2 .. MaxWorkers
    BY <1>2, <1>4, <1>7, StartupAssumption
<1>11. LoadedBy(m2.pc, ld.pc) /\ m2.pc # "done" /\ main.pc \notin {"run", "done"}
    BY <1>3, <1>5, <1>7 DEF LoadedBy
<1> QED BY <1>5, <1>6, <1>7, <1>9, <1>10, <1>11, MainStep

(* A step that only takes main() from one place to the next, or to exit.   *)
LEMMA Onward ==
    ASSUME Inv, NEW pc \in {"ports", "lcores", "assign", "port", "rings"},
           main.pc \in {"load", "ports", "lcores", "pool", "port"},
           \E cond \in BOOLEAN : Require(cond, pc) /\
               (cond => /\ ld.pc = "loaded" /\ Lcored([main EXCEPT !.pc = pc], set)
                        /\ Ringed([main EXCEPT !.pc = pc])),
           ld.pc \in {"loaded", "failed"}
    PROVE  Inv'
<1>1. PICK cond \in BOOLEAN : Require(cond, pc) /\
          (cond => /\ ld.pc = "loaded" /\ Lcored([main EXCEPT !.pc = pc], set)
                   /\ Ringed([main EXCEPT !.pc = pc]))
    OBVIOUS
<1>2. PICK m \in Main : m = main
    BY DEF Inv, TypeOK
<1>3. PICK to \in {pc, "exit"} : /\ main' = [m EXCEPT !.pc = to] /\ UNCHANGED <<engineVars, set>>
                                 /\ (cond /\ to = pc) \/ to = "exit"
    BY <1>1, <1>2 DEF Require, Step
<1>4. PICK m2 : m2 = main'
    OBVIOUS
<1>5. /\ m2 \in Main /\ m2.pc = to /\ m2.num_workers = m.num_workers /\ m2.lcores = m.lcores
      /\ m2.rings = m.rings
  <2>1. to \in MainPc
      BY DEF MainPc
  <2> QED BY <1>3, <1>4, <2>1, MainTo
<1>6. m.num_workers \in 2 .. MaxWorkers
    BY <1>2 DEF Inv, MainInv
<1>7. Lcored(m2, set) /\ Ringed(m2)
  <2>1. CASE to = "exit"
      BY <1>2, <1>5, <2>1 DEF Inv, PlacesInv, Lcored, Ringed
  <2>2. CASE cond /\ to = pc
      BY <1>1, <1>2, <1>3, <1>4, <2>2
  <2> QED BY <1>3, <2>1, <2>2
<1>8. LoadedBy(m2.pc, ld.pc) /\ m2.pc # "done"
    BY <1>1, <1>3, <1>5 DEF LoadedBy
<1>9. main.pc \notin {"run", "done"}
    OBVIOUS
<1>10. m2.pc \notin {"options", "exit"} => m2.num_workers \in 2 .. MaxWorkers
    BY <1>5, <1>6
<1> QED BY <1>3, <1>4, <1>5, <1>7, <1>8, <1>9, <1>10, MainStep

LEMMA LoadedStep ==
    ASSUME Inv, Loaded
    PROVE  Inv'
<1>1. main.pc = "load" /\ ld.pc \in {"loaded", "failed"} /\ Require(ld.pc = "loaded", "ports")
    BY DEF Loaded
<1>2. PICK m \in Main : m = main
    BY DEF Inv, TypeOK
<1>3. PICK m2 : m2 = [m EXCEPT !.pc = "ports"]
    OBVIOUS
<1>4. m2.pc = "ports" /\ m2.num_workers = m.num_workers /\ m2.lcores = m.lcores /\ m2.rings = m.rings
    BY <1>3, MainTo DEF MainPc
<1>5. Lcored(m2, set) /\ Ringed(m2)
    BY <1>1, <1>2, <1>4 DEF Inv, PlacesInv, Lcored, Ringed
<1>6. PICK cond \in BOOLEAN : cond = (ld.pc = "loaded")
    OBVIOUS
<1> QED BY <1>1, <1>2, <1>3, <1>5, <1>6, Onward

LEMMA PortsStep ==
    ASSUME Inv, Ports
    PROVE  Inv'
<1>1. main.pc = "ports" /\ Require(set.ports > 0, "lcores")
    BY DEF Ports
<1>2. PICK m \in Main : m = main
    BY DEF Inv, TypeOK
<1>3. PICK m2 : m2 = [m EXCEPT !.pc = "lcores"]
    OBVIOUS
<1>4. m2.pc = "lcores" /\ m2.num_workers = m.num_workers /\ m2.lcores = m.lcores /\ m2.rings = m.rings
    BY <1>3, MainTo DEF MainPc
<1>5. Lcored(m2, set) /\ Ringed(m2)
    BY <1>1, <1>2, <1>4 DEF Inv, PlacesInv, Lcored, Ringed
<1>6. PICK cond \in BOOLEAN : Require(cond, "lcores")
  <2>1. CASE set.ports > 0
      BY <1>1, <2>1 DEF Require
  <2>2. CASE ~(set.ports > 0)
      BY <1>1, <2>2 DEF Require
  <2> QED BY <2>1, <2>2
<1>7. ld.pc = "loaded"
    BY <1>1 DEF Inv, MainInv
<1> QED BY <1>1, <1>2, <1>3, <1>5, <1>6, <1>7, Onward

LEMMA LcoresStep ==
    ASSUME Inv, Lcores
    PROVE  Inv'
<1>1. main.pc = "lcores" /\ Require(Cardinality(set.lcores) >= Needed + 1, "assign")
    BY DEF Lcores
<1>2. PICK m \in Main : m = main
    BY DEF Inv, TypeOK
<1>3. PICK m2 : m2 = [m EXCEPT !.pc = "assign"]
    OBVIOUS
<1>4. m2.pc = "assign" /\ m2.num_workers = m.num_workers /\ m2.lcores = m.lcores /\ m2.rings = m.rings
    BY <1>3, MainTo DEF MainPc
<1>5. PICK cond \in BOOLEAN : /\ Require(cond, "assign")
                              /\ cond => Cardinality(set.lcores) >= Needed + 1
  <2>1. CASE Cardinality(set.lcores) >= Needed + 1
      BY <1>1, <2>1 DEF Require
  <2>2. CASE ~(Cardinality(set.lcores) >= Needed + 1)
      BY <1>1, <2>2 DEF Require
  <2> QED BY <2>1, <2>2
<1>6. PICK n \in Nat : n = m.num_workers
    BY MainFields
<1>7. m.lcores = << >> /\ m.rings = {} /\ Lcored(m, set)
    BY <1>1, <1>2 DEF Inv, PlacesInv, Lcored, Ringed
<1>8. ASSUME cond PROVE Lcored(m2, set) /\ Ringed(m2)
  <2>1. Cardinality(set.lcores) \in Nat
      BY StartupAssumption, FS_CardinalityType DEF Inv, TypeOK
  <2>2. Cardinality(set.lcores) >= n + 4
      BY <1>2, <1>5, <1>6, <1>8, <2>1 DEF Needed
  <2>3. Len(<< >>) <= n + 3
      OBVIOUS
  <2> QED BY <1>4, <1>6, <1>7, <2>2, <2>3 DEF Lcored, Ringed
<1>9. ld.pc = "loaded"
    BY <1>1 DEF Inv, MainInv
<1> QED BY <1>1, <1>2, <1>3, <1>5, <1>8, <1>9, Onward

LEMMA PoolStep ==
    ASSUME Inv, Pool
    PROVE  Inv'
<1>1. PICK ok \in BOOLEAN : main.pc = "pool" /\ Require(ok, "port")
    BY DEF Pool, Outcomes
<1>2. PICK m \in Main : m = main
    BY DEF Inv, TypeOK
<1>3. PICK m2 : m2 = [m EXCEPT !.pc = "port"]
    OBVIOUS
<1>4. m2.pc = "port" /\ m2.num_workers = m.num_workers /\ m2.lcores = m.lcores /\ m2.rings = m.rings
    BY <1>3, MainTo DEF MainPc
<1>5. Lcored(m2, set) /\ Ringed(m2)
    BY <1>1, <1>2, <1>4 DEF Inv, PlacesInv, Lcored, Ringed
<1>6. ld.pc = "loaded"
    BY <1>1 DEF Inv, MainInv
<1> QED BY <1>1, <1>2, <1>3, <1>5, <1>6, Onward

LEMMA NamedNone ==
    ASSUME NEW n \in Nat
    PROVE  Named(0, n) = {}
    BY DEF Named

LEMMA PortStep ==
    ASSUME Inv, Port
    PROVE  Inv'
<1>1. PICK ok \in BOOLEAN : main.pc = "port" /\ Require(ok, "rings")
    BY DEF Port, Outcomes
<1>2. PICK m \in Main : m = main
    BY DEF Inv, TypeOK
<1>3. PICK m2 : m2 = [m EXCEPT !.pc = "rings"]
    OBVIOUS
<1>4. m2.pc = "rings" /\ m2.num_workers = m.num_workers /\ m2.lcores = m.lcores /\ m2.rings = m.rings
    BY <1>3, MainTo DEF MainPc
<1>5. PICK n \in Nat : n = m.num_workers
    BY MainFields
<1>6. m.rings = {} /\ Lcored(m, set)
    BY <1>1, <1>2 DEF Inv, PlacesInv, Ringed
<1>7. Lcored(m2, set)
    BY <1>1, <1>2, <1>4, <1>6 DEF Lcored
<1>8. Ringed(m2)
  <2>1. IsFiniteSet(m2.rings) /\ Cardinality(m2.rings) = 0
      BY <1>4, <1>6, FS_EmptySet
  <2>2. m2.rings = Named(0, n) /\ 0 \in 0 .. n + 1
      BY <1>4, <1>6, NamedNone
  <2> QED BY <1>4, <1>5, <2>1, <2>2 DEF Ringed
<1>9. ld.pc = "loaded"
    BY <1>1 DEF Inv, MainInv
<1> QED BY <1>1, <1>2, <1>3, <1>7, <1>8, <1>9, Onward

(* The lcores that are enabled, as a setting gives them. *)
LEMMA SetLcores ==
    ASSUME Inv
    PROVE  set.lcores \subseteq Nat /\ IsFiniteSet(set.lcores) /\ set.main \in set.lcores
    BY StartupAssumption DEF Inv, TypeOK

(* Different lcores out of L, without the main one, k. *)
Spread(q, L, k) == q \in Seq(Nat) /\ ToSet(q) \subseteq L \ {k} /\ Cardinality(ToSet(q)) = Len(q)

(* One more lcore, of those that are not yet assigned. *)
LEMMA AssignOne ==
    ASSUME NEW L \in SUBSET Nat, IsFiniteSet(L), NEW k, NEW q, Spread(q, L, k),
           NEW x \in L, x # k, x \notin ToSet(q)
    PROVE  Spread(Append(q, x), L, k) /\ Len(Append(q, x)) = Len(q) + 1
<1>1. q \in Seq(Nat) /\ ToSet(q) \subseteq L \ {k} /\ Cardinality(ToSet(q)) = Len(q)
    BY DEF Spread
<1>2. ToSet(Append(q, x)) = ToSet(q) \cup {x} /\ Append(q, x) \in Seq(Nat) /\ Len(Append(q, x)) = Len(q) + 1
    BY <1>1, ToSetAppend
<1>3. IsFiniteSet(ToSet(q))
  <2>1. ToSet(q) \in SUBSET L
      BY <1>1
  <2> QED BY <2>1, FS_Subset
<1>4. Cardinality(ToSet(q) \cup {x}) = Cardinality(ToSet(q)) + 1
    BY <1>3, FS_AddElement
<1> QED BY <1>1, <1>2, <1>4 DEF Spread

(* No lcore is left: as many as there are, but for the main one, have been *)
(* assigned.                                                               *)
LEMMA AssignAll ==
    ASSUME NEW L \in SUBSET Nat, IsFiniteSet(L), NEW k \in L, NEW q \in Seq(Nat),
           ToSet(q) \subseteq L \ {k}, Cardinality(ToSet(q)) = Len(q),
           L \ ({k} \cup ToSet(q)) = {}
    PROVE  Cardinality(L) \in Nat /\ Len(q) = Cardinality(L) - 1
<1>1. ToSet(q) = L \ {k}
    OBVIOUS
<1>2. Cardinality(L \ {k}) = Cardinality(L) - 1
    BY FS_RemoveElement
<1>3. Cardinality(L) \in Nat
    BY FS_CardinalityType
<1> QED BY <1>1, <1>2, <1>3

LEMMA AssignStep ==
    ASSUME Inv, Assign
    PROVE  Inv'
<1>1. PICK m \in Main : m = main
    BY DEF Inv, TypeOK
<1>2. PICK n \in Nat : n = m.num_workers /\ n \in 2 .. MaxWorkers
    BY <1>1, MainFields DEF Inv, MainInv, Assign
<1>3. PICK q \in Seq(Nat) : q = m.lcores
    BY MainFields
<1>4. PICK L \in SUBSET Nat : L = set.lcores /\ IsFiniteSet(L) /\ set.main \in L
    BY SetLcores
<1>5. PICK U : U = L \ ({set.main} \cup ToSet(q))
    OBVIOUS
<1>6. m.pc = "assign" /\ UNCHANGED <<engineVars, set>> /\ ld.pc = "loaded"
    BY <1>1 DEF Assign, Inv, MainInv
<1>7. Lcored(m, set) /\ Ringed(m)
    BY <1>1 DEF Inv, PlacesInv
<1>8. /\ ToSet(q) \subseteq L \ {set.main} /\ Cardinality(ToSet(q)) = Len(q)
      /\ Cardinality(L) >= n + 4 /\ Len(q) <= n + 3
    BY <1>2, <1>3, <1>4, <1>6, <1>7 DEF Lcored
<1>9. m.rings = {}
    BY <1>6, <1>7 DEF Ringed
<1>10. PICK m2 : m2 = main'
    OBVIOUS
<1>11. m2 = IF Len(q) >= n + 3 \/ U = {} THEN [m EXCEPT !.pc = "pool"]
                                         ELSE [m EXCEPT !.lcores = Append(q, Min(U))]
  <2>1. Unassigned = U
      BY <1>1, <1>3, <1>4, <1>5 DEF Unassigned
  <2>2. Needed = n + 3
      BY <1>1, <1>2 DEF Needed
  <2> QED BY <1>1, <1>3, <1>10, <2>1, <2>2 DEF Assign
<1>12. CASE Len(q) >= n + 3 \/ U = {}
  <2>1. m2 = [m EXCEPT !.pc = "pool"]
      BY <1>11, <1>12
  <2>2. /\ m2 \in Main /\ m2.pc = "pool" /\ m2.num_workers = n /\ m2.lcores = q /\ m2.rings = {}
    <3>1. "pool" \in MainPc
        BY DEF MainPc
    <3> QED BY <1>2, <1>3, <1>9, <2>1, <3>1, MainTo
  <2>3. Len(q) = n + 3
    <3>1. CASE U = {}
      <4>1. Cardinality(L) \in Nat /\ Len(q) = Cardinality(L) - 1
          BY <1>4, <1>5, <1>8, <3>1, AssignAll
      <4> QED BY <1>8, <4>1
    <3>2. CASE Len(q) >= n + 3
        BY <1>8, <3>2
    <3> QED BY <1>12, <3>1, <3>2
  <2>4. Lcored(m2, set)
      BY <1>4, <1>8, <2>2, <2>3 DEF Lcored
  <2>5. Ringed(m2)
      BY <2>2 DEF Ringed
  <2>6. LoadedBy(m2.pc, ld.pc) /\ m2.pc # "done" /\ main.pc \notin {"run", "done"}
      BY <1>1, <1>6, <2>2 DEF LoadedBy
  <2>7. m2.num_workers \in 2 .. MaxWorkers
      BY <1>2, <2>2
  <2> QED BY <1>6, <1>10, <2>2, <2>4, <2>5, <2>6, <2>7, MainStep
<1>13. CASE ~(Len(q) >= n + 3 \/ U = {})
  <2>1. m2 = [m EXCEPT !.lcores = Append(q, Min(U))]
      BY <1>11, <1>13
  <2>2. PICK q2 : q2 = Append(q, Min(U))
      OBVIOUS
  <2>3. /\ q2 \in Seq(Nat) /\ Len(q2) = Len(q) + 1 /\ ToSet(q2) \subseteq L \ {set.main}
        /\ Cardinality(ToSet(q2)) = Len(q) + 1
    <3>1. U # {}
        BY <1>13
    <3>2. Spread(q, L, set.main)
        BY <1>8 DEF Spread
    <3>3. Spread(q2, L, set.main) /\ Len(q2) = Len(q) + 1
      <4>1. PICK x : x = Min(U)
          OBVIOUS
      <4>2. x \in U
        <5>1. U \in SUBSET Nat
            BY <1>5
        <5>2. \E y \in U : \A z \in U : y <= z
            BY <3>1, <5>1, LeastNat
        <5> QED BY <4>1, <5>2 DEF Min
      <4>3. x \in L /\ x # set.main /\ x \notin ToSet(q)
          BY <1>5, <4>2
      <4>4. Spread(Append(q, x), L, set.main) /\ Len(Append(q, x)) = Len(q) + 1
          BY <1>4, <3>2, <4>3, AssignOne
      <4> QED BY <2>2, <4>1, <4>4
    <3> QED BY <3>3 DEF Spread
  <2>4. m2 \in Main /\ m2.pc = "assign" /\ m2.num_workers = n /\ m2.lcores = q2 /\ m2.rings = {}
      BY <1>2, <1>6, <1>9, <2>1, <2>2, <2>3 DEF Main
  <2>5. Len(q2) <= n + 3
      BY <1>13, <2>3
  <2>6. Lcored(m2, set)
      BY <1>4, <1>8, <2>3, <2>4, <2>5 DEF Lcored
  <2>7. Ringed(m2)
      BY <2>4 DEF Ringed
  <2>8. LoadedBy(m2.pc, ld.pc) /\ m2.pc # "done" /\ main.pc \notin {"run", "done"}
      BY <1>1, <1>6, <2>4 DEF LoadedBy
  <2>9. m2.num_workers \in 2 .. MaxWorkers
      BY <1>2, <2>4
  <2> QED BY <1>6, <1>10, <2>4, <2>6, <2>7, <2>8, <2>9, MainStep
<1> QED BY <1>12, <1>13

(* The name of one more ring. *)
LEMMA NamedNext ==
    ASSUME NEW n \in Nat, NEW c \in 0 .. n, NEW name,
           name = IF c < n THEN <<"worker", c>> ELSE <<"tx", 0>>
    PROVE  /\ Named(c + 1, n) = Named(c, n) \cup {name} /\ name \notin Named(c, n)
           /\ name \in {"worker", "tx"} \X Nat
<1>1. Named(c, n) = {<<"worker", j>> : j \in 0 .. c - 1}
  <2>1. {i \in 0 .. c - 1 : i < n} = 0 .. c - 1 /\ ~(c > n)
      OBVIOUS
  <2> QED BY <2>1 DEF Named
<1>2. CASE c < n
  <2>1. {i \in 0 .. (c + 1) - 1 : i < n} = (0 .. c - 1) \cup {c} /\ ~(c + 1 > n)
      BY <1>2
  <2>2. Named(c + 1, n) = {<<"worker", j>> : j \in (0 .. c - 1) \cup {c}}
      BY <2>1 DEF Named
  <2>3. name = <<"worker", c>> /\ c \notin 0 .. c - 1
      BY <1>2
  <2> QED BY <1>1, <2>2, <2>3
<1>3. CASE c = n
  <2>1. {i \in 0 .. (c + 1) - 1 : i < n} = 0 .. c - 1 /\ c + 1 > n
      BY <1>3
  <2>2. Named(c + 1, n) = {<<"worker", j>> : j \in 0 .. c - 1} \cup {<<"tx", 0>>}
      BY <2>1 DEF Named
  <2>3. name = <<"tx", 0>>
      BY <1>3
  <2> QED BY <1>1, <2>2, <2>3
<1> QED BY <1>2, <1>3

(* All of the rings. *)
LEMMA NamedAll ==
    ASSUME NEW n \in Nat
    PROVE  Named(n + 1, n) = {<<"worker", i>> : i \in 0 .. n - 1} \cup {<<"tx", 0>>}
<1>1. {i \in 0 .. (n + 1) - 1 : i < n} = 0 .. n - 1 /\ n + 1 > n
    OBVIOUS
<1> QED BY <1>1 DEF Named

LEMMA RingStep ==
    ASSUME Inv, Ring
    PROVE  Inv'
<1>1. PICK m \in Main : m = main
    BY DEF Inv, TypeOK
<1>2. PICK n \in Nat : n = m.num_workers /\ n \in 2 .. MaxWorkers
    BY <1>1, MainFields DEF Inv, MainInv, Ring
<1>3. m.pc = "rings" /\ Cardinality(m.rings) <= n /\ UNCHANGED <<engineVars, set>> /\ ld.pc = "loaded"
    BY <1>1, <1>2 DEF Ring, Inv, MainInv
<1>4. Lcored(m, set) /\ Ringed(m)
    BY <1>1 DEF Inv, PlacesInv
<1>5. PICK c \in 0 .. n + 1 : Cardinality(m.rings) = c /\ m.rings = Named(c, n) /\ IsFiniteSet(m.rings)
    BY <1>2, <1>3, <1>4 DEF Ringed
<1>6. PICK name : name = IF c < n THEN <<"worker", c>> ELSE <<"tx", 0>>
    OBVIOUS
<1>7. /\ c \in 0 .. n /\ Named(c + 1, n) = Named(c, n) \cup {name} /\ name \notin Named(c, n)
      /\ name \in {"worker", "tx"} \X Nat
  <2>1. c \in 0 .. n
      BY <1>3, <1>5
  <2> QED BY <1>6, <2>1, NamedNext
<1>8. PICK m2 : m2 = main'
    OBVIOUS
<1>9. m2 = [m EXCEPT !.rings = m.rings \cup {name}] \/ m2 = [m EXCEPT !.pc = "exit"]
    BY <1>1, <1>2, <1>5, <1>6, <1>8, Zenon DEF Ring
<1>10. CASE m2 = [m EXCEPT !.rings = m.rings \cup {name}]
  <2>1. m.rings \cup {name} \in SUBSET ({"worker", "tx"} \X Nat)
      BY <1>7, MainFields
  <2>2. /\ m2 \in Main /\ m2.pc = "rings" /\ m2.num_workers = n /\ m2.lcores = m.lcores
        /\ m2.rings = m.rings \cup {name}
      BY <1>2, <1>3, <1>10, <2>1 DEF Main
  <2>3. Lcored(m2, set)
      BY <1>2, <1>3, <1>4, <2>2 DEF Lcored
  <2>4. Ringed(m2)
    <3>1. IsFiniteSet(m2.rings) /\ Cardinality(m2.rings) = c + 1
        BY <1>5, <1>7, <2>2, FS_AddElement
    <3>2. m2.rings = Named(c + 1, n) /\ c + 1 \in 0 .. n + 1
        BY <1>5, <1>7, <2>2
    <3> QED BY <2>2, <3>1, <3>2 DEF Ringed
  <2>5. LoadedBy(m2.pc, ld.pc) /\ m2.pc # "done" /\ main.pc \notin {"run", "done"}
      BY <1>1, <1>3, <2>2 DEF LoadedBy
  <2>6. m2.num_workers \in 2 .. MaxWorkers
      BY <1>2, <2>2
  <2> QED BY <1>3, <1>8, <2>2, <2>3, <2>4, <2>5, <2>6, MainStep
<1>11. CASE m2 = [m EXCEPT !.pc = "exit"]
  <2>1. /\ m2 \in Main /\ m2.pc = "exit" /\ m2.lcores = m.lcores
    <3>1. "exit" \in MainPc
        BY DEF MainPc
    <3> QED BY <1>11, <3>1, MainTo
  <2>2. Lcored(m2, set) /\ Ringed(m2)
      BY <1>4, <2>1 DEF Lcored, Ringed
  <2>3. LoadedBy(m2.pc, ld.pc) /\ m2.pc # "done" /\ main.pc \notin {"run", "done"}
      BY <1>1, <1>3, <2>1 DEF LoadedBy
  <2> QED BY <1>3, <1>8, <2>1, <2>2, <2>3, MainStep
<1> QED BY <1>9, <1>10, <1>11

LEMMA LaunchStep ==
    ASSUME Inv, Launch
    PROVE  Inv'
<1>1. PICK m \in Main : m = main
    BY DEF Inv, TypeOK
<1>2. PICK n \in Nat : n = m.num_workers /\ n \in 2 .. MaxWorkers
    BY <1>1, MainFields DEF Inv, MainInv, Launch
<1>3. /\ m.pc = "rings" /\ Cardinality(m.rings) = n + 1 /\ UNCHANGED <<engineVars, set>>
      /\ ld.pc = "loaded" /\ main' = [m EXCEPT !.pc = "run"]
    BY <1>1, <1>2 DEF Launch, Step, Inv, MainInv
<1>4. Lcored(m, set) /\ Ringed(m)
    BY <1>1 DEF Inv, PlacesInv
<1>5. m.rings = Named(n + 1, n)
  <2>1. PICK c \in 0 .. n + 1 : Cardinality(m.rings) = c /\ m.rings = Named(c, n)
      BY <1>2, <1>3, <1>4 DEF Ringed
  <2> QED BY <1>3, <2>1
<1>6. PICK m2 : m2 = main'
    OBVIOUS
<1>7. m2 \in Main /\ m2.pc = "run" /\ m2.num_workers = n /\ m2.lcores = m.lcores /\ m2.rings = m.rings
  <2>1. "run" \in MainPc
      BY DEF MainPc
  <2> QED BY <1>2, <1>3, <1>6, <2>1, MainTo
<1>8. Lcored(m2, set)
    BY <1>2, <1>3, <1>4, <1>7 DEF Lcored
<1>9. Ringed(m2)
    BY <1>5, <1>7 DEF Ringed
<1>10. LoadedBy(m2.pc, ld.pc) /\ m2.pc # "done" /\ main.pc \notin {"run", "done"}
    BY <1>1, <1>3, <1>7 DEF LoadedBy
<1>11. m2.num_workers \in 2 .. MaxWorkers
    BY <1>2, <1>7
<1> QED BY <1>3, <1>6, <1>7, <1>8, <1>9, <1>10, <1>11, MainStep

LEMMA LoadRulesStep ==
    ASSUME Inv, Load
    PROVE  Inv'
<1>1. main.pc = "load" /\ LoadRules /\ main' = main /\ set' = set
    BY DEF Load
<1>2. PICK f \in Seq(FileLine) : f = file
    BY StartupAssumption DEF Inv, TypeOK
<1>3. EngineOK(ld, g_db, heap, f)
    BY <1>1, <1>2 DEF Inv, TypeOK, HeapInv, LoadInv, EngineOK
<1>4. /\ EngineOK(ld', g_db', heap', f)
      /\ file' = file /\ scratch' = scratch /\ scan' = scan
      /\ <<"worker", "scratch">> \in heap' => <<"worker", "scratch">> \in heap
    BY <1>1, <1>2, <1>3, LoadStep
<1>5. scratch = "none" /\ scan.pc = "idle"
    BY <1>1 DEF Inv, MainInv
<1>6. TypeOK'
    BY <1>1, <1>4 DEF Inv, TypeOK, EngineOK
<1>7. HeapInv'
  <2>1. Allocated(heap', ld'.pc)
      BY <1>4 DEF EngineOK
  <2>2. <<"worker", "scratch">> \notin heap'
      BY <1>4, <1>5 DEF Inv, HeapInv, Scratch
  <2>3. Scratch(heap', g_db', scratch')
      BY <1>4, <1>5, <2>2 DEF Scratch
  <2> QED BY <2>1, <2>3 DEF HeapInv
<1>8. ScanInv'
    BY <1>4, <1>5 DEF ScanInv, Scanning
<1>9. MainInv'
    BY <1>1, <1>4, <1>5 DEF Inv, MainInv
<1>10. PlacesInv'
    BY <1>1 DEF Inv, PlacesInv
<1>11. LoadInv'
    BY <1>2, <1>4 DEF EngineOK, LoadInv
<1> QED BY <1>6, <1>7, <1>8, <1>9, <1>10, <1>11 DEF Inv

-----------------------------------------------------------------------------
(* The worker *)

(* Once loaded, both databases hold exactly the rules of the file. *)
LEMMA WhenLoaded ==
    ASSUME Inv, ld.pc = "loaded", main.pc # "done"
    PROVE  \A t \in Type : Ready(g_db[t], heap, file, t)
<1>1. LoadInv
    BY DEF Inv
<1>2. ld.type = "HTTPS"
    BY <1>1 DEF LoadInv, Reading
<1>3. Working("loaded", g_db["HTTPS"], heap, file, "HTTPS") /\ Other("loaded", g_db["HTTP"], heap, file)
    BY <1>1, <1>2 DEF LoadInv, Compiling
<1>4. Ready(g_db["HTTPS"], heap, file, "HTTPS")
    BY <1>3 DEF Working
<1>5. Ready(g_db["HTTP"], heap, file, "HTTP")
    BY <1>3 DEF Other
<1> QED BY <1>4, <1>5 DEF Type

(* The scratch is nothing to the load. *)
LEMMA ScratchOnly ==
    ASSUME NEW l, NEW g, NEW hp, NEW f, Compiling(l, g, hp, f), l.type = "HTTPS", l.pc = "loaded",
           NEW hp2, hp2 = hp \cup ScratchMemory \/ hp2 = hp \ ScratchMemory
    PROVE  Compiling(l, g, hp2, f)
<1>1. ASSUME NEW t \in Type PROVE hp2 \cap Obj(t) = hp \cap Obj(t)
  <2>1. ScratchMemory \cap Obj(t) = {}
      BY ObjFacts
  <2> QED BY <2>1, Others
<1>2. Ready(g["HTTPS"], hp, f, "HTTPS") /\ Ready(g["HTTP"], hp, f, "HTTP")
    BY DEF Compiling, Working, Other
<1>3. Ready(g["HTTPS"], hp2, f, "HTTPS")
  <2>1. "HTTPS" \in Type
      BY DEF Type
  <2> QED BY <1>1, <1>2, <2>1, Frame
<1>4. Ready(g["HTTP"], hp2, f, "HTTP")
  <2>1. "HTTP" \in Type
      BY DEF Type
  <2> QED BY <1>1, <1>2, <2>1, Frame
<1> QED BY <1>3, <1>4 DEF Compiling, Working, Other

(* A worker's step that allocates or frees its scratch. *)
LEMMA ScratchStep ==
    ASSUME Inv, main.pc = "run", UNCHANGED <<set, main, file, ld, g_db, scan>>,
           heap' = heap \/ heap' = heap \cup ScratchMemory \/ heap' = heap \ ScratchMemory,
           scratch' \in {"none", "http", "ready", "failed", "freed"},
           Scratch(heap', g_db, scratch'), scan.pc # "run"
    PROVE  Inv'
<1>1. ld.pc = "loaded" /\ LoadInv /\ ld.type = "HTTPS"
    BY DEF Inv, MainInv, LoadInv, Reading
<1>2. TypeOK'
    BY DEF Inv, TypeOK
<1>3. HeapInv'
  <2>1. Allocated(heap, ld.pc)
      BY DEF Inv, HeapInv
  <2>2. Allocated(heap', ld.pc)
      BY <2>1, ObjFacts DEF Allocated
  <2> QED BY <2>2 DEF HeapInv
<1>4. ScanInv'
    BY DEF Inv, ScanInv
<1>5. MainInv'
    BY DEF Inv, MainInv
<1>6. PlacesInv'
    BY DEF Inv, PlacesInv
<1>7. LoadInv'
  <2>1. Compiling(ld, g_db, heap', file)
      BY <1>1, ScratchOnly DEF LoadInv
  <2> QED BY <1>1, <2>1 DEF LoadInv
<1> QED BY <1>2, <1>3, <1>4, <1>5, <1>6, <1>7 DEF Inv

(* Either call of hs_alloc_scratch(), or its omission. *)
LEMMA AllocForStep ==
    ASSUME Inv, main.pc = "run", NEW t \in Type, NEW from, NEW to, AllocFor(t, from, to),
           UNCHANGED <<set, main>>,
           \/ t = "HTTP" /\ from = "none" /\ to = "http"
           \/ t = "HTTPS" /\ from = "http" /\ to = "ready"
    PROVE  Inv'
<1>1. scratch = from /\ from \in {"none", "http"} /\ UNCHANGED <<file, ld, g_db, scan>>
    BY DEF AllocFor
<1>2. \/ g_db[t].db = << >> /\ scratch' = to /\ heap' = heap
      \/ g_db[t].db # << >> /\ scratch' = to /\ heap' = heap \cup ScratchMemory
      \/ scratch' = "failed" /\ heap' = heap \ ScratchMemory
    BY DEF AllocFor
<1>3. Scratch(heap, g_db, from)
    BY <1>1 DEF Inv, HeapInv
<1>4. Scratch(heap', g_db, scratch')
  <2>1. CASE g_db[t].db = << >> /\ scratch' = to /\ heap' = heap
    <3>1. CASE t = "HTTP"
        BY <1>3, <2>1, <3>1 DEF Scratch
    <3>2. CASE t = "HTTPS" /\ from = "http" /\ to = "ready"
      <4>1. (\E u \in Type : g_db[u].db # << >>) => g_db["HTTP"].db # << >>
          BY <2>1, <3>2 DEF Type
      <4> QED BY <1>3, <2>1, <3>2, <4>1 DEF Scratch
    <3> QED BY <3>1, <3>2
  <2>2. CASE scratch' = to /\ heap' = heap \cup ScratchMemory
    <3>1. <<"worker", "scratch">> \in heap' /\ scratch' \in {"http", "ready"}
        BY <2>2 DEF ScratchMemory
    <3> QED BY <3>1 DEF Scratch
  <2>3. CASE scratch' = "failed" /\ heap' = heap \ ScratchMemory
      BY <2>3 DEF Scratch, ScratchMemory
  <2> QED BY <1>2, <2>1, <2>2, <2>3
<1>5. scan.pc # "run"
    BY <1>1 DEF Inv, ScanInv
<1>6. /\ heap' = heap \/ heap' = heap \cup ScratchMemory \/ heap' = heap \ ScratchMemory
      /\ scratch' \in {"none", "http", "ready", "failed", "freed"}
    BY <1>2
<1> QED BY <1>1, <1>4, <1>5, <1>6, ScratchStep

LEMMA AllocScratchStep ==
    ASSUME Inv, main.pc = "run", AllocScratch, UNCHANGED <<set, main>>
    PROVE  Inv'
<1>1. CASE AllocFor("HTTP", "none", "http")
  <2>1. "HTTP" \in Type
      BY DEF Type
  <2> QED BY <1>1, <2>1, AllocForStep
<1>2. CASE AllocFor("HTTPS", "http", "ready")
  <2>1. "HTTPS" \in Type
      BY DEF Type
  <2> QED BY <1>2, <2>1, AllocForStep
<1> QED BY <1>1, <1>2 DEF AllocScratch

LEMMA FreeScratchStep ==
    ASSUME Inv, main.pc = "run", FreeScratch, UNCHANGED <<set, main>>
    PROVE  Inv'
<1>1. /\ scan.pc # "run" /\ UNCHANGED <<file, ld, g_db, scan>>
      /\ scratch' = "freed" /\ heap' = heap \ ScratchMemory
    BY DEF FreeScratch, ScratchMemory
<1>2. Scratch(heap', g_db, scratch')
    BY <1>1 DEF Scratch, ScratchMemory
<1> QED BY <1>1, <1>2, ScratchStep

(* A step of the worker's scan, from c to c2. *)
LEMMA ScanStep ==
    ASSUME Inv, main.pc = "run", UNCHANGED <<set, main, file, ld, g_db, heap, scratch>>,
           scan' \in ScanRec, Scanning(scan', g_db, file), scratch = "ready"
    PROVE  Inv'
<1>1. ld.pc = "loaded" /\ LoadInv
    BY DEF Inv, MainInv
<1>2. TypeOK'
    BY DEF Inv, TypeOK
<1>3. HeapInv'
    BY DEF Inv, HeapInv
<1>4. ScanInv'
    BY DEF ScanInv
<1>5. MainInv'
    BY DEF Inv, MainInv
<1>6. PlacesInv'
    BY DEF Inv, PlacesInv
<1>7. LoadInv'
    BY <1>1 DEF LoadInv
<1> QED BY <1>2, <1>3, <1>4, <1>5, <1>6, <1>7 DEF Inv

(* What a scan of the text x in the database of type t goes by. *)
LEMMA ScanBase ==
    ASSUME Inv, main.pc = "run", NEW t \in Type, NEW x
    PROVE  \E d : /\ g_db[t] = d
                  /\ \A id \in Matches(d, x) :
                        /\ id \in Nat /\ id < d.nrules /\ d.nrules \in Nat
                        /\ d.rules[id + 1] = "DROP" => Dropped(file, t, x)
                  /\ Dropped(file, t, x) => \E id \in Matches(d, x) : d.rules[id + 1] = "DROP"
                  /\ d.db = << >> \/ d.nrules = 0 => ~Dropped(file, t, x)
<1>1. PICK f \in Seq(FileLine) : f = file
    BY StartupAssumption DEF Inv, TypeOK
<1>2. ld.pc = "loaded"
    BY DEF Inv, MainInv
<1>3. PICK d : d = g_db[t]
    OBVIOUS
<1>4. DbExact(d, f, t)
    BY <1>1, <1>2, <1>3, WhenLoaded DEF Ready
<1> QED BY <1>1, <1>3, <1>4, MatchesAre

LEMMA StartScanStep ==
    ASSUME Inv, main.pc = "run", NEW t \in Type, NEW x \in Text, StartScan(t, x),
           UNCHANGED <<set, main>>
    PROVE  Inv'
<1>1. PICK d : g_db[t] = d /\ (d.db = << >> \/ d.nrules = 0 => ~Dropped(file, t, x))
    BY ScanBase
<1>2. PICK c : c = scan'
    OBVIOUS
<1>3. PICK pc \in {"done", "run"} :
          /\ c = [pc |-> pc, type |-> t, text |-> x, reported |-> {}, result |-> "FORWARD", err |-> FALSE]
          /\ pc = "done" => d.db = << >> \/ d.nrules = 0
          /\ pc = "run" => d.db # << >>
    BY <1>1, <1>2 DEF StartScan
<1>4. scratch = "ready" /\ UNCHANGED <<file, ld, g_db, heap, scratch>>
    BY DEF StartScan
<1>5. c \in ScanRec
    BY <1>3 DEF ScanRec
<1>6. Scanning(c, g_db, file)
    BY <1>1, <1>3 DEF Scanning
<1> QED BY <1>2, <1>4, <1>5, <1>6, ScanStep

(* What a running scan has found so far. *)
LEMMA RunningScan ==
    ASSUME Inv, scan.pc = "run"
    PROVE  /\ main.pc = "run" /\ scratch = "ready" /\ scan \in ScanRec /\ scan.type \in Type
           /\ scan.result = "FORWARD" /\ scan.err = FALSE /\ scan.reported \in SUBSET Nat
           /\ g_db[scan.type].db # << >>
           /\ \A id \in scan.reported : g_db[scan.type].rules[id + 1] # "DROP"
           /\ Matching = Matches(g_db[scan.type], scan.text)
<1>1. main.pc = "run" /\ scratch = "ready" /\ Scanning(scan, g_db, file) /\ scan \in ScanRec
    BY DEF Inv, ScanInv, TypeOK
<1>2. scan.type \in Type /\ scan.reported \in SUBSET Nat
    BY <1>1 DEF ScanRec
<1>3. Matching = Matches(g_db[scan.type], scan.text)
    BY DEF Matching, Matches
<1> QED BY <1>1, <1>2, <1>3 DEF Scanning

LEMMA OnMatchStep ==
    ASSUME Inv, main.pc = "run", NEW id, OnMatch(id), UNCHANGED <<set, main>>
    PROVE  Inv'
<1>1. scan.pc = "run" /\ id \in Matching /\ UNCHANGED <<file, ld, g_db, heap, scratch>>
    BY DEF OnMatch
<1>2. PICK c, c2, t, x : c = scan /\ c2 = scan' /\ t = scan.type /\ x = scan.text
    OBVIOUS
<1>3. /\ scratch = "ready" /\ c \in ScanRec /\ t \in Type /\ c.result = "FORWARD"
      /\ c.err = FALSE /\ c.reported \in SUBSET Nat /\ g_db[t].db # << >>
      /\ \A i \in c.reported : g_db[t].rules[i + 1] # "DROP"
      /\ Matching = Matches(g_db[t], x)
    BY <1>1, <1>2, RunningScan
<1>4. PICK d : /\ g_db[t] = d
               /\ \A i \in Matches(d, x) : /\ i \in Nat /\ i < d.nrules /\ d.nrules \in Nat
                                           /\ d.rules[i + 1] = "DROP" => Dropped(file, t, x)
    BY <1>3, ScanBase
<1>5. /\ id \in Nat /\ id < d.nrules /\ d.nrules \in Nat
      /\ d.rules[id + 1] = "DROP" => Dropped(file, t, x)
    BY <1>1, <1>3, <1>4
<1>6. c2 = IF d.rules[id + 1] = "DROP" THEN [c EXCEPT !.pc = "done", !.result = "DROP"]
           ELSE [c EXCEPT !.reported = c.reported \cup {id}, !.result = "FORWARD"]
  <2>1. ~(id >= d.nrules)
      BY <1>5
  <2> QED BY <1>2, <1>4, <2>1, Zenon DEF OnMatch
<1>7. CASE d.rules[id + 1] = "DROP"
  <2>1. c2 = [c EXCEPT !.pc = "done", !.result = "DROP"]
      BY <1>6, <1>7
  <2>2. /\ c2 \in ScanRec /\ c2.pc = "done" /\ c2.result = "DROP" /\ c2.err = FALSE
        /\ c2.type = t /\ c2.text = x
      BY <1>2, <1>3, <2>1 DEF ScanRec
  <2>3. Scanning(c2, g_db, file)
      BY <1>5, <1>7, <2>2 DEF Scanning
  <2> QED BY <1>1, <1>2, <1>3, <2>2, <2>3, ScanStep
<1>8. CASE d.rules[id + 1] # "DROP"
  <2>1. c2 = [c EXCEPT !.reported = c.reported \cup {id}, !.result = "FORWARD"]
      BY <1>6, <1>8
  <2>2. c.reported \cup {id} \in SUBSET Nat /\ c.pc = "run"
      BY <1>1, <1>2, <1>3, <1>5
  <2>3. /\ c2 \in ScanRec /\ c2.pc = "run" /\ c2.result = "FORWARD" /\ c2.err = FALSE
        /\ c2.type = t /\ c2.reported = c.reported \cup {id}
      BY <1>2, <1>3, <2>1, <2>2 DEF ScanRec
  <2>4. \A i \in c2.reported : g_db[t].rules[i + 1] # "DROP"
      BY <1>3, <1>4, <1>8, <2>3
  <2>5. Scanning(c2, g_db, file)
      BY <1>3, <2>3, <2>4 DEF Scanning
  <2> QED BY <1>1, <1>2, <1>3, <2>3, <2>5, ScanStep
<1> QED BY <1>7, <1>8

LEMMA ScanEndStep ==
    ASSUME Inv, main.pc = "run", ScanEnd, UNCHANGED <<set, main>>
    PROVE  Inv'
<1>1. PICK c, c2, t, x : c = scan /\ c2 = scan' /\ t = scan.type /\ x = scan.text
    OBVIOUS
<1>2. /\ c.pc = "run" /\ c.reported = Matching /\ c2 = [c EXCEPT !.pc = "done"]
      /\ UNCHANGED <<file, ld, g_db, heap, scratch>>
    BY <1>1 DEF ScanEnd
<1>3. /\ scratch = "ready" /\ c \in ScanRec /\ t \in Type /\ c.result = "FORWARD"
      /\ \A i \in c.reported : g_db[t].rules[i + 1] # "DROP"
      /\ Matching = Matches(g_db[t], x)
    BY <1>1, <1>2, RunningScan
<1>4. PICK d : /\ g_db[t] = d
               /\ Dropped(file, t, x) => \E i \in Matches(d, x) : d.rules[i + 1] = "DROP"
    BY <1>3, ScanBase
<1>5. ~Dropped(file, t, x)
    BY <1>2, <1>3, <1>4
<1>6. c2 \in ScanRec /\ c2.pc = "done" /\ c2.result = "FORWARD" /\ c2.type = t /\ c2.text = x
    BY <1>1, <1>2, <1>3 DEF ScanRec
<1>7. Scanning(c2, g_db, file)
    BY <1>5, <1>6 DEF Scanning
<1> QED BY <1>1, <1>2, <1>3, <1>6, <1>7, ScanStep

LEMMA ScanErrorStep ==
    ASSUME Inv, main.pc = "run", ScanError, UNCHANGED <<set, main>>
    PROVE  Inv'
<1>1. PICK c, c2 : c = scan /\ c2 = scan'
    OBVIOUS
<1>2. /\ c.pc = "run" /\ c2 = [c EXCEPT !.pc = "done", !.result = "FORWARD", !.err = TRUE]
      /\ UNCHANGED <<file, ld, g_db, heap, scratch>>
    BY <1>1 DEF ScanError
<1>3. scratch = "ready" /\ c \in ScanRec
    BY <1>1, <1>2, RunningScan
<1>4. c2 \in ScanRec /\ c2.pc = "done" /\ c2.result = "FORWARD" /\ c2.err = TRUE
    BY <1>2, <1>3 DEF ScanRec
<1>5. Scanning(c2, g_db, file)
    BY <1>4 DEF Scanning
<1> QED BY <1>1, <1>2, <1>3, <1>4, <1>5, ScanStep

LEMMA RunWorkerStep ==
    ASSUME Inv, RunWorker
    PROVE  Inv'
<1>1. main.pc = "run" /\ UNCHANGED <<set, main>>
    BY DEF RunWorker
<1>2. CASE Scan
    BY <1>1, <1>2, StartScanStep, OnMatchStep, ScanEndStep, ScanErrorStep DEF Scan
<1> QED BY <1>1, <1>2, AllocScratchStep, FreeScratchStep DEF RunWorker

-----------------------------------------------------------------------------
(* The end *)

LEMMA CleanupStep ==
    ASSUME Inv, Cleanup
    PROVE  Inv'
<1>1. /\ main.pc = "run" /\ scratch \in {"failed", "freed"} /\ set' = set
      /\ heap' = heap \ UNION {Owned(t) : t \in Type}
      /\ g_db' = [t \in Type |-> NullDb] /\ UNCHANGED <<file, ld, scratch, scan>>
    BY DEF Cleanup, FreeRules
<1>2. PICK m \in Main : m = main
    BY DEF Inv, TypeOK
<1>3. PICK m2 : m2 = main'
    OBVIOUS
<1>4. m2 \in Main /\ m2.pc = "done" /\ m2.num_workers = m.num_workers /\ m2.lcores = m.lcores
  <2>1. m2 = [m EXCEPT !.pc = "done", !.rings = {}]
      BY <1>2, <1>3 DEF Cleanup
  <2>2. "done" \in MainPc
      BY DEF MainPc
  <2> QED BY <2>1, <2>2 DEF Main
<1>5. ld.pc = "loaded" /\ m.num_workers \in 2 .. MaxWorkers /\ scan.pc # "run"
    BY <1>1, <1>2 DEF Inv, MainInv, ScanInv
<1>6. heap' = {}
  <2>1. /\ heap \subseteq LoadObj \cup Obj("HTTP") \cup Obj("HTTPS") \cup ScratchMemory
        /\ heap \cap LoadObj = {} /\ <<"worker", "scratch">> \notin heap
      BY <1>1, <1>5 DEF Inv, HeapInv, Allocated, Scratch
  <2>2. ASSUME NEW t \in Type PROVE heap \cap Obj(t) \subseteq Owned(t)
    <3>1. Held(g_db[t], t) \subseteq Owned(t)
        BY DEF Held, Owned
    <3> QED BY <1>1, <1>5, <3>1, WhenLoaded DEF Ready
  <2>3. heap \cap Obj("HTTP") \subseteq Owned("HTTP") /\ heap \cap Obj("HTTPS") \subseteq Owned("HTTPS")
      BY <2>2 DEF Type
  <2>4. Owned("HTTP") \cup Owned("HTTPS") = UNION {Owned(t) : t \in Type}
      BY DEF Type
  <2>5. heap \subseteq Owned("HTTP") \cup Owned("HTTPS")
      BY <2>1, <2>3 DEF ScratchMemory
  <2> QED BY <1>1, <2>4, <2>5
<1>7. NullDb \in Db /\ \A t \in Type : g_db'[t].db = << >>
    BY <1>1 DEF NullDb, Db
<1>8. TypeOK'
  <2>1. g_db' \in [Type -> Db]
      BY <1>1, <1>7
  <2> QED BY <1>1, <1>3, <1>4, <2>1 DEF Inv, TypeOK
<1>9. HeapInv'
  <2>1. Allocated(heap', ld'.pc)
      BY <1>6 DEF Allocated
  <2>2. Scratch(heap', g_db', scratch')
      BY <1>6, <1>7 DEF Scratch, Type
  <2> QED BY <2>1, <2>2 DEF HeapInv
<1>10. ScanInv'
    BY <1>1, <1>5 DEF Inv, ScanInv, Scanning
<1>11. MainInv'
    BY <1>1, <1>3, <1>4, <1>5, <1>6 DEF MainInv
<1>12. PlacesInv'
  <2>1. Lcored(m, set)
      BY <1>2 DEF Inv, PlacesInv
  <2>2. Lcored(m2, set) /\ Ringed(m2)
      BY <1>4, <2>1 DEF Lcored, Ringed
  <2> QED BY <1>1, <1>3, <2>2 DEF PlacesInv
<1> QED BY <1>3, <1>4, <1>8, <1>9, <1>10, <1>11, <1>12 DEF Inv

-----------------------------------------------------------------------------
(* The invariant *)

LEMMA InitInv == ASSUME Init PROVE Inv
<1>1. /\ ld = [pc |-> "off", i |-> 1, lines |-> << >>, cap |-> 0, type |-> "HTTP"]
      /\ g_db = [t \in Type |-> NullDb] /\ heap = {} /\ scratch = "none"
      /\ scan = [pc |-> "idle", type |-> "HTTP", text |-> 0, reported |-> {},
                 result |-> "FORWARD", err |-> FALSE]
      /\ set \in Setting /\ file = set.file
      /\ main = [pc |-> "options", num_workers |-> 0, lcores |-> << >>, rings |-> {}]
    BY DEF Init, EngineInit
<1>2. ld.pc = "off" /\ ld.i = 1 /\ ld.lines = << >> /\ ld.type = "HTTP"
    BY <1>1
<1>3. file \in Seq(FileLine)
    BY <1>1, StartupAssumption
<1>4. NullDb \in Db /\ NullDb.db = << >> /\ NullDb.rules = << >>
    BY DEF NullDb, Db
<1>5. << >> \in Seq(RuleLine) /\ << >> \in Seq(Nat) /\ ToSet(<< >>) = {} /\ Len(<< >>) = 0
    BY ToSetEmpty
<1>6. TypeOK
  <2>1. ld \in Ld
      BY <1>1, <1>5 DEF Ld, LoadPc, Type
  <2>2. g_db \in [Type -> Db]
      BY <1>1, <1>4
  <2>3. scan \in ScanRec
      BY <1>1 DEF ScanRec, Type
  <2>4. main \in Main
      BY <1>1, <1>5 DEF Main, MainPc
  <2> QED BY <1>1, <2>1, <2>2, <2>3, <2>4 DEF TypeOK
<1>7. HeapInv
    BY <1>1 DEF HeapInv, Allocated, Scratch
<1>8. ScanInv
    BY <1>1 DEF ScanInv, Scanning
<1>9. MainInv
    BY <1>1 DEF MainInv
<1>10. PlacesInv
  <2>1. main.pc = "options" /\ main.lcores = << >> /\ main.rings = {}
      BY <1>1
  <2>2. Cardinality({}) = 0
      BY FS_EmptySet
  <2> QED BY <1>5, <2>1, <2>2 DEF PlacesInv, Lcored, Ringed
<1>11. LoadInv
  <2>1. LinesExact(ld.lines, file, ld.i - 1)
    <3>1. {file[j] : j \in 1 .. 1 - 1} = {}
        OBVIOUS
    <3>2. LinesExact(<< >>, file, 1 - 1)
        BY <1>5, <3>1 DEF LinesExact
    <3> QED BY <1>2, <3>2
  <2>2. ld.i <= Len(file) + 1
      BY <1>2, <1>3
  <2>3. Reading(ld, file)
      BY <1>2, <2>1, <2>2 DEF Reading
  <2>4. \A t \in Type : Clear(g_db[t], heap, t)
      BY <1>1, <1>4 DEF Clear
  <2>5. Clear(g_db["HTTP"], heap, "HTTP") /\ Clear(g_db["HTTPS"], heap, "HTTPS")
      BY <2>4 DEF Type
  <2>6. Compiling(ld, g_db, heap, file)
      BY <1>2, <2>5 DEF Compiling, Working
  <2> QED BY <2>3, <2>6 DEF LoadInv
<1> QED BY <1>6, <1>7, <1>8, <1>9, <1>10, <1>11 DEF Inv

LEMMA NextInv == ASSUME Inv, [Next]_vars PROVE Inv'
<1>1. CASE UNCHANGED vars
    BY <1>1 DEF vars, Inv, TypeOK, HeapInv, ScanInv, MainInv, PlacesInv, LoadInv
<1>2. CASE Ended
    BY <1>1, <1>2 DEF Ended
<1> QED BY <1>1, <1>2, OptionsStep, LoadRulesStep, LoadedStep, PortsStep, LcoresStep, AssignStep,
           PoolStep, PortStep, RingStep, LaunchStep, RunWorkerStep, CleanupStep DEF Next

(* The variables of main() and of the DPI engine keep their types: what    *)
(* the rule file and the command line say never gets lines[], the          *)
(* databases, the worker's scan or lcores[] out of their ranges.           *)
THEOREM TypeCorrect == Spec => []TypeOK
<1>1. Inv => TypeOK
    BY DEF Inv
<1> QED BY InitInv, NextInv, <1>1, PTL DEF Spec

LEMMA LoadedAllOrNothing == ASSUME Inv PROVE AllOrNothing
<1> SUFFICES ASSUME ld.pc \in {"loaded", "failed"}
             PROVE  /\ heap \ ScratchMemory = {<<t, "db">> : t \in {u \in Type : g_db[u].db # << >>}}
                           \cup {<<t, "rules">> : t \in {u \in Type : g_db[u].rules # << >>}}
                    /\ <<"worker", "scratch">> \in heap => scratch \in {"http", "ready"}
                    /\ ld.pc = "failed" => heap = {}
                    /\ \A t \in Type : \A e \in ToSet(g_db[t].db) : e.id < Len(g_db[t].rules)
    BY DEF AllOrNothing, ScratchMemory
<1>1. <<"worker", "scratch">> \in heap => scratch \in {"http", "ready"}
    BY DEF Inv, HeapInv, Scratch
<1>2. {<<t, "db">> : t \in {u \in Type : g_db[u].db # << >>}}
          \cup {<<t, "rules">> : t \in {u \in Type : g_db[u].rules # << >>}}
      = Held(g_db["HTTP"], "HTTP") \cup Held(g_db["HTTPS"], "HTTPS")
    BY DEF Held, Type
<1>3. CASE main.pc = "done"
  <2>1. heap = {} /\ g_db = [t \in Type |-> NullDb]
      BY <1>3 DEF Inv, MainInv
  <2>2. \A t \in Type : g_db[t].db = << >> /\ g_db[t].rules = << >>
      BY <2>1 DEF NullDb
  <2>3. \A t \in Type : \A e \in ToSet(g_db[t].db) : e.id < Len(g_db[t].rules)
      BY <2>2, ToSetEmpty
  <2> QED BY <1>1, <2>1, <2>2, <2>3
<1>4. CASE main.pc # "done" /\ ld.pc = "loaded"
  <2>1. \A t \in Type : Ready(g_db[t], heap, file, t)
      BY <1>4, WhenLoaded
  <2>2. /\ heap \cap Obj("HTTP") = Held(g_db["HTTP"], "HTTP")
        /\ heap \cap Obj("HTTPS") = Held(g_db["HTTPS"], "HTTPS")
      BY <2>1 DEF Ready, Type
  <2>3. /\ heap \subseteq LoadObj \cup Obj("HTTP") \cup Obj("HTTPS") \cup ScratchMemory
        /\ heap \cap LoadObj = {}
      BY <1>4 DEF Inv, HeapInv, Allocated
  <2>4. /\ Obj("HTTP") \cap ScratchMemory = {} /\ Obj("HTTPS") \cap ScratchMemory = {}
      BY ObjFacts DEF Type
  <2>5. heap \ ScratchMemory = Held(g_db["HTTP"], "HTTP") \cup Held(g_db["HTTPS"], "HTTPS")
      BY <2>2, <2>3, <2>4
  <2>6. ASSUME NEW t \in Type, NEW e \in ToSet(g_db[t].db) PROVE e.id < Len(g_db[t].rules)
    <3>1. PICK d : d = g_db[t]
        OBVIOUS
    <3>2. PICK R : RulesExact(R, file, t) /\ Made(d, R)
        BY <2>1, <3>1 DEF Ready, DbExact
    <3>3. PICK n \in Nat : n = Len(R) /\ R \in Seq(RuleLine)
        BY <3>2 DEF RulesExact
    <3>4. /\ Len(d.rules) = n
          /\ ToSet(d.db) = {[id |-> i - 1, hits |-> R[i].hits] : i \in 1 .. n}
        BY <3>2, <3>3, MadeFacts
    <3>5. PICK i \in 1 .. n : e = [id |-> i - 1, hits |-> R[i].hits]
        BY <3>1, <3>4
    <3>6. e.id = i - 1 /\ i - 1 < n
        BY <3>5
    <3> QED BY <3>1, <3>4, <3>6
  <2> QED BY <1>1, <1>2, <1>4, <2>5, <2>6
<1>5. CASE main.pc # "done" /\ ld.pc = "failed"
  <2>1. Compiling(ld, g_db, heap, file) /\ ld.type \in Type
      BY <1>5, LdFields DEF Inv, LoadInv, TypeOK
  <2>2. Clear(g_db["HTTP"], heap, "HTTP") /\ Clear(g_db["HTTPS"], heap, "HTTPS")
      BY <1>5, <2>1 DEF Compiling, Working, Other, Type
  <2>3. /\ heap \subseteq LoadObj \cup Obj("HTTP") \cup Obj("HTTPS") \cup ScratchMemory
        /\ heap \cap LoadObj = {}
      BY <1>5 DEF Inv, HeapInv, Allocated
  <2>4. heap \cap ScratchMemory = {}
    <3>1. main.pc \notin {"run", "done"}
        BY <1>5 DEF Inv, MainInv
    <3>2. scratch = "none"
        BY <3>1 DEF Inv, MainInv
    <3> QED BY <1>1, <3>2 DEF ScratchMemory
  <2>5. heap = {}
      BY <2>2, <2>3, <2>4 DEF Clear
  <2>6. \A t \in Type : g_db[t].db = << >> /\ g_db[t].rules = << >>
      BY <2>2 DEF Clear, Type
  <2>7. \A t \in Type : \A e \in ToSet(g_db[t].db) : e.id < Len(g_db[t].rules)
      BY <2>6, ToSetEmpty
  <2> QED BY <1>1, <2>5, <2>6, <2>7
<1> QED BY <1>3, <1>4, <1>5

(* Loading the rules is all or nothing, for every rule file and whichever  *)
(* fopen(), realloc(), calloc() or hs_compile_multi() fails: afterwards    *)
(* exactly what g_http_db, g_https_db and the worker point to is           *)
(* allocated, nothing after a failure, and no expression has an id outside *)
(* of rules[].                                                             *)
THEOREM AllOrNothingHolds == Spec => []AllOrNothing
    BY InitInv, NextInv, LoadedAllOrNothing, PTL DEF Spec

LEMMA ScanIsExact == ASSUME Inv PROVE ScanExact
<1>1. Scanning(scan, g_db, file)
    BY DEF Inv, ScanInv
<1>2. scan.pc = "done" =>
        (scan.result = "DROP" <=>
            /\ ~scan.err
            /\ \E l \in ToSet(file) : /\ l.kind = "fields" /\ l.type = scan.type
                                      /\ l.action = "DROP" /\ scan.text \in l.hits)
    BY <1>1 DEF Scanning, Dropped
<1>3. ASSUME scan.pc = "run" PROVE {<<scan.type, "db">>, <<"worker", "scratch">>} \subseteq heap
  <2>1. PICK t \in Type : t = scan.type
      BY <1>3, RunningScan
  <2>2. main.pc = "run" /\ scratch = "ready" /\ g_db[t].db # << >> /\ ld.pc = "loaded"
      BY <1>3, <2>1, RunningScan DEF Inv, MainInv
  <2>3. Ready(g_db[t], heap, file, t)
      BY <2>2, WhenLoaded
  <2>4. <<t, "db">> \in Held(g_db[t], t)
      BY <2>2 DEF Held
  <2>5. <<t, "db">> \in heap
      BY <2>3, <2>4 DEF Ready
  <2>6. <<"worker", "scratch">> \in heap
      BY <2>2 DEF Inv, HeapInv, Scratch
  <2> QED BY <2>1, <2>5, <2>6
<1> QED BY <1>2, <1>3 DEF ScanExact

(* dpi_engine_scan() answers DROP exactly when some DROP line of the rule  *)
(* file, of that traffic type, matches the text, whatever the file holds   *)
(* and in whatever order hs_scan() calls on_match(); it fails open; and it *)
(* never runs without its database and its scratch.                        *)
THEOREM ScanExactHolds == Spec => []ScanExact
    BY InitInv, NextInv, ScanIsExact, PTL DEF Spec

LEMMA LaunchIsSound == ASSUME Inv PROVE LaunchSound
<1> SUFFICES ASSUME main.pc = "run"
             PROVE  /\ ld.pc = "loaded"
                    /\ main.num_workers \in 2 .. MaxWorkers
                    /\ main.rings = {<<"worker", i>> : i \in 0 .. main.num_workers - 1}
                                    \cup {<<"tx", 0>>}
                    /\ Cardinality(Roles) = main.num_workers + 3
                    /\ Roles \subseteq set.lcores \ {set.main}
    BY DEF LaunchSound
<1>1. ld.pc = "loaded" /\ main.num_workers \in 2 .. MaxWorkers
    BY DEF Inv, MainInv
<1>2. PICK n \in Nat : n = main.num_workers
    BY <1>1, StartupAssumption
<1>3. main.rings = {<<"worker", i>> : i \in 0 .. n - 1} \cup {<<"tx", 0>>}
  <2>1. main.rings = Named(n + 1, n)
      BY <1>2 DEF Inv, PlacesInv, Ringed
  <2> QED BY <2>1, NamedAll
<1>4. PICK q \in Seq(Nat) : q = main.lcores
    BY MainFields DEF Inv, TypeOK
<1>5. /\ ToSet(q) \subseteq set.lcores \ {set.main} /\ Cardinality(ToSet(q)) = Len(q)
      /\ Len(q) = n + 3
    BY <1>2, <1>4 DEF Inv, PlacesInv, Lcored
<1>6. ASSUME NEW i \in 1 .. n + 3 PROVE Lcore(i) = q[i]
    BY <1>4, <1>5 DEF Lcore
<1>7. Roles = ToSet(q)
  <2>1. ToSet(q) = {q[i] : i \in 1 .. n + 3}
      BY <1>5, ToSetIs
  <2>2. RxLcore = q[1] /\ TxLcore = q[n + 2] /\ StatsLcore = q[n + 3]
    <3>1. 1 \in 1 .. n + 3 /\ n + 2 \in 1 .. n + 3 /\ n + 3 \in 1 .. n + 3 /\ 2 + n = n + 2 /\ 3 + n = n + 3
        OBVIOUS
    <3> QED BY <1>2, <1>6, <3>1 DEF RxLcore, TxLcore, StatsLcore
  <2>3. ASSUME NEW j \in 0 .. n - 1 PROVE WorkerLcore(j) = q[j + 2] /\ j + 2 \in 1 .. n + 3
    <3>1. j + 2 \in 1 .. n + 3 /\ 2 + j = j + 2
        OBVIOUS
    <3> QED BY <1>6, <3>1 DEF WorkerLcore
  <2>4. ASSUME NEW y \in Roles PROVE y \in ToSet(q)
    <3>1. y \in {RxLcore, TxLcore, StatsLcore} \/ \E j \in 0 .. n - 1 : y = WorkerLcore(j)
        BY <1>2, <2>4 DEF Roles
    <3>2. 1 \in 1 .. n + 3 /\ n + 2 \in 1 .. n + 3 /\ n + 3 \in 1 .. n + 3
        OBVIOUS
    <3> QED BY <2>1, <2>2, <2>3, <3>1, <3>2
  <2>5. ASSUME NEW y \in ToSet(q) PROVE y \in Roles
    <3>1. PICK i \in 1 .. n + 3 : y = q[i]
        BY <2>1, <2>5
    <3>2. CASE i = 1 \/ i = n + 2 \/ i = n + 3
        BY <2>2, <3>1, <3>2 DEF Roles
    <3>3. CASE i \in 2 .. n + 1
      <4>1. i - 2 \in 0 .. n - 1 /\ (i - 2) + 2 = i
          BY <3>3
      <4>2. WorkerLcore(i - 2) = q[i]
          BY <2>3, <4>1
      <4> QED BY <1>2, <3>1, <4>1, <4>2 DEF Roles
    <3> QED BY <3>2, <3>3
  <2> QED BY <2>4, <2>5
<1> QED BY <1>1, <1>2, <1>3, <1>5, <1>7

(* The threads are launched only on a complete program: with loaded rules, *)
(* a number of workers in range whatever -w said, the ring of every worker *)
(* and of TX, and for each thread an enabled lcore that no other thread    *)
(* and not main() runs on; for every number of workers and every set of    *)
(* lcores.                                                                 *)
THEOREM LaunchSoundHolds == Spec => []LaunchSound
    BY InitInv, NextInv, LaunchIsSound, PTL DEF Spec

(* When main() returns, the DPI engine has freed all that it allocated. *)
THEOREM NothingLeftHolds == Spec => []NothingLeft
<1>1. Inv => NothingLeft
    BY DEF Inv, MainInv, NothingLeft
<1> QED BY InitInv, NextInv, <1>1, PTL DEF Spec
=============================================================================
