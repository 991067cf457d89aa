---------------------------- MODULE KernelProofs ----------------------------
(***************************************************************************)
(* Proofs about the mutexes and the interrupts of Kernel, for any tasks,   *)
(* table size, line length and framebuffer.  The state of a context is the *)
(* code it has left, so the invariants are about code: it unlocks what it  *)
(* holds (LockInv), and a handler ends its interrupt once (ServiceInv).    *)
(***************************************************************************)
EXTENDS Kernel, TLAPS

-----------------------------------------------------------------------------
(* Code that locks and unlocks in order                                    *)

\* The names of steps, the keys among them, the returns, and all operations there are
Steps == {"remap_pics", "enable_interrupts", "set_initialized", "reset_ticks", "keyboard_ready",
          "shell_ready", "add_tasks", "run_next", "store_count", "store_id", "on_tick",
          "on_interrupt", "notify_eoi", "eoi", "Char", "Enter", "Backspace"}
Keys  == {"Char", "Enter", "Backspace"}
Irets == {<<"iret", n>> : n \in Lines8259}
Ops   == {Lock(l) : l \in Mutexes} \cup {Unlock(l) : l \in Mutexes} \cup {Do(step) : step \in Steps} \cup Irets

\* Steps that are replaced by further code, which may take l
Barriers(l) ==
  {Unlock(l), Do("on_tick"), Do("on_interrupt"), Do("notify_eoi")}
    \cup IF l = "SHELL" THEN {} ELSE {Do(key) : key \in Keys}

\* Steps after which l is held
Openers(l) == {Lock(l)} \cup IF l = "SCHEDULER" THEN {Do("run_next"), Do("store_id")} ELSE {}

\* Whoever has s left to execute holds l.
Holds(s, l) ==
  \E k \in DOMAIN s : s[k] = Unlock(l) /\ \A i \in DOMAIN s : i < k => s[i] # Lock(l)

\* Before l is locked again, it is unlocked.
Paired(s, l) ==
  \A j \in DOMAIN s : s[j] \in Openers(l) =>
    \E k \in DOMAIN s : j < k /\ s[k] = Unlock(l) /\ \A i \in DOMAIN s : j < i /\ i < k => s[i] # Lock(l)

\* l is not held at a barrier.
Apart(s, l) ==
  \A j, k \in DOMAIN s : j < k /\ s[j] \in Barriers(l) /\ s[k] = Unlock(l) =>
    \E i \in DOMAIN s : j < i /\ i < k /\ s[i] = Lock(l)

\* Code that starts and ends without l
WholeFor(s, l) == Paired(s, l) /\ Apart(s, l) /\ ~ Holds(s, l)

\* Code that returns every mutex it takes
Whole(s) == s \in Seq(Ops) /\ \A l \in Mutexes : WholeFor(s, l)

(* Operations can be told apart.                                           *)
LEMMA OpsDiffer ==
  /\ \A l, m : Lock(l) # Unlock(m)
  /\ \A l, m : Lock(l) = Lock(m) => l = m
  /\ \A l, m : Unlock(l) = Unlock(m) => l = m
  /\ \A l, x : Lock(l) # Do(x) /\ Unlock(l) # Do(x)
  /\ \A x, y : Do(x) = Do(y) => x = y
  /\ \A l, n : Lock(l) # <<"iret", n>> /\ Unlock(l) # <<"iret", n>> /\ Do(l) # <<"iret", n>>
  /\ \A m, n : <<"iret", m>> = <<"iret", n>> => m = n
  BY Zenon DEF Lock, Unlock, Do

(* The mutex in question is unlocked or locked by nothing else.            *)
LEMMA SpecialOps ==
  ASSUME NEW l
  PROVE  /\ Unlock(l) \in Barriers(l) /\ Lock(l) \notin Barriers(l)
         /\ Lock(l) \in Openers(l) /\ Unlock(l) \notin Openers(l)
  BY OpsDiffer DEF Barriers, Openers

(* Code that does not touch l is whole for it.                             *)
LEMMA QuietWhole ==
  ASSUME NEW s, NEW l, \A k \in DOMAIN s : s[k] # Unlock(l) /\ s[k] \notin Openers(l)
  PROVE  WholeFor(s, l)
  BY Zenon DEF WholeFor, Paired, Apart, Holds

(* Executing the first operation.                                          *)
LEMMA TailKeeps ==
  ASSUME NEW s \in Seq(Ops), s # <<>>, NEW l, Paired(s, l), Apart(s, l)
  PROVE  /\ Tail(s) \in Seq(Ops)
         /\ Paired(Tail(s), l) /\ Apart(Tail(s), l)
         /\ Head(s) \in Openers(l)  => Holds(Tail(s), l)
         /\ Head(s) \in Barriers(l) => ~ Holds(Tail(s), l)
         /\ Head(s) = Lock(l)   => ~ Holds(s, l)
         /\ Head(s) = Unlock(l) => Holds(s, l)
         /\ Head(s) \notin {Lock(l), Unlock(l)} => (Holds(Tail(s), l) <=> Holds(s, l))
<1> DEFINE t == Tail(s)  n == Len(s)
<1>1. n \in Nat \ {0} /\ DOMAIN s = 1 .. n /\ t \in Seq(Ops) /\ DOMAIN t = 1 .. n - 1 /\ Head(s) = s[1]
  OBVIOUS
<1>2. \A k \in 1 .. n - 1 : t[k] = s[k + 1]
  OBVIOUS
<1>3. \A k \in 2 .. n : k - 1 \in 1 .. n - 1 /\ s[k] = t[k - 1]
  BY <1>1, <1>2
<1> HIDE DEF t, n
<1>4. Paired(t, l)
  <2> SUFFICES ASSUME NEW j \in 1 .. n - 1, t[j] \in Openers(l)
               PROVE  \E k \in 1 .. n - 1 : j < k /\ t[k] = Unlock(l) /\ \A i \in 1 .. n - 1 : j < i /\ i < k => t[i] # Lock(l)
    BY <1>1, Zenon DEF Paired
  <2>1. j + 1 \in 1 .. n /\ s[j + 1] \in Openers(l)
    BY <1>1, <1>2
  <2>2. PICK k \in 1 .. n : j + 1 < k /\ s[k] = Unlock(l) /\ \A i \in 1 .. n : j + 1 < i /\ i < k => s[i] # Lock(l)
    BY <1>1, <2>1, Zenon DEF Paired
  <2>3. k - 1 \in 1 .. n - 1 /\ j < k - 1 /\ t[k - 1] = Unlock(l)
    BY <1>1, <1>3, <2>2
  <2>4. ASSUME NEW i \in 1 .. n - 1, j < i, i < k - 1  PROVE t[i] # Lock(l)
    BY <1>1, <1>2, <2>2, <2>4
  <2> QED  BY <2>3, <2>4, Zenon
<1>5. Apart(t, l)
  <2> SUFFICES ASSUME NEW j \in 1 .. n - 1, NEW k \in 1 .. n - 1, j < k, t[j] \in Barriers(l), t[k] = Unlock(l)
               PROVE  \E i \in 1 .. n - 1 : j < i /\ i < k /\ t[i] = Lock(l)
    BY <1>1, Zenon DEF Apart
  <2>1. j + 1 \in 1 .. n /\ k + 1 \in 1 .. n /\ s[j + 1] \in Barriers(l) /\ s[k + 1] = Unlock(l) /\ j + 1 < k + 1
    BY <1>1, <1>2
  <2>2. PICK i \in 1 .. n : j + 1 < i /\ i < k + 1 /\ s[i] = Lock(l)
    BY <1>1, <2>1, Zenon DEF Apart
  <2>3. i - 1 \in 1 .. n - 1 /\ j < i - 1 /\ i - 1 < k /\ t[i - 1] = Lock(l)
    BY <1>1, <1>3, <2>2
  <2> QED  BY <2>3, Zenon
<1>6. ASSUME NEW k \in 2 .. n, s[k] = Unlock(l), \A i \in 2 .. n : i < k => s[i] # Lock(l)  PROVE Holds(t, l)
  <2>1. k - 1 \in 1 .. n - 1 /\ t[k - 1] = Unlock(l)
    BY <1>1, <1>3, <1>6, Zenon
  <2>2. \A i \in 1 .. n - 1 : i < k - 1 => t[i] # Lock(l)
    BY <1>1, <1>2, <1>6
  <2> QED  BY <1>1, <2>1, <2>2, Zenon DEF Holds
<1>7. ASSUME Holds(t, l)
      PROVE  \E k \in 2 .. n : s[k] = Unlock(l) /\ \A i \in 2 .. n : i < k => s[i] # Lock(l)
  <2>1. PICK k \in 1 .. n - 1 : t[k] = Unlock(l) /\ \A i \in 1 .. n - 1 : i < k => t[i] # Lock(l)
    BY <1>1, <1>7, Zenon DEF Holds
  <2>2. k + 1 \in 2 .. n /\ s[k + 1] = Unlock(l)
    BY <1>1, <1>2, <2>1
  <2>3. \A i \in 2 .. n : i < k + 1 => s[i] # Lock(l)
    BY <1>1, <1>3, <2>1
  <2> QED  BY <2>2, <2>3, Zenon
<1>8. ASSUME s[1] \in Openers(l)  PROVE Holds(t, l)
  <2>1. PICK k \in 1 .. n : 1 < k /\ s[k] = Unlock(l) /\ \A i \in 1 .. n : 1 < i /\ i < k => s[i] # Lock(l)
    BY <1>1, <1>8 DEF Paired
  <2> QED  BY <1>1, <1>6, <2>1
<1>9. ASSUME s[1] \in Barriers(l)  PROVE ~ Holds(t, l)
  BY <1>1, <1>7, <1>9 DEF Apart
<1>10. ASSUME s[1] = Lock(l)  PROVE ~ Holds(s, l)
  BY <1>1, <1>10, OpsDiffer DEF Holds
<1>11. ASSUME s[1] = Unlock(l)  PROVE Holds(s, l)
  BY <1>1, <1>11 DEF Holds
<1>12. ASSUME s[1] \notin {Lock(l), Unlock(l)}  PROVE Holds(t, l) <=> Holds(s, l)
  <2>1. ASSUME Holds(t, l)  PROVE Holds(s, l)
    <3>1. PICK k \in 2 .. n : s[k] = Unlock(l) /\ \A i \in 2 .. n : i < k => s[i] # Lock(l)
      BY <1>7, <2>1, Zenon
    <3> QED  BY <1>1, <1>12, <3>1 DEF Holds
  <2>2. ASSUME Holds(s, l)  PROVE Holds(t, l)
    <3>1. PICK k \in 1 .. n : s[k] = Unlock(l) /\ \A i \in 1 .. n : i < k => s[i] # Lock(l)
      BY <1>1, <2>2, Zenon DEF Holds
    <3> QED  BY <1>1, <1>6, <1>12, <3>1
  <2> QED  BY <2>1, <2>2, Zenon
<1> QED
  BY <1>1, <1>4, <1>5, <1>8, <1>9, <1>10, <1>11, <1>12, Zenon DEF t

(* Code put in front of other code.                                        *)
LEMMA Joined ==
  ASSUME NEW a \in Seq(Ops), NEW b \in Seq(Ops), NEW l,
         WholeFor(a, l), Paired(b, l), Apart(b, l),
         Holds(b, l) => \A k \in DOMAIN a : a[k] \notin Barriers(l) /\ a[k] # Lock(l)
  PROVE  /\ a \o b \in Seq(Ops)
         /\ Paired(a \o b, l) /\ Apart(a \o b, l)
         /\ Holds(a \o b, l) <=> Holds(b, l)
<1> DEFINE s == a \o b  p == Len(a)  q == Len(b)
<1>1. p \in Nat /\ q \in Nat /\ DOMAIN a = 1 .. p /\ DOMAIN b = 1 .. q /\ s \in Seq(Ops) /\ DOMAIN s = 1 .. p + q
  OBVIOUS
<1>2. \A k \in 1 .. p : k \in 1 .. p + q /\ s[k] = a[k]
  BY <1>1
<1>3. \A k \in 1 .. q : p + k \in 1 .. p + q /\ s[p + k] = b[k]
  BY <1>1
<1>4. \A k \in 1 .. p + q : k > p => k - p \in 1 .. q /\ s[k] = b[k - p]
  BY <1>1
<1> HIDE DEF s, p, q
<1>5. Paired(s, l)
  <2> SUFFICES ASSUME NEW j \in 1 .. p + q, s[j] \in Openers(l)
               PROVE  \E k \in 1 .. p + q : j < k /\ s[k] = Unlock(l) /\ \A i \in 1 .. p + q : j < i /\ i < k => s[i] # Lock(l)
    BY <1>1, Zenon DEF Paired
  <2>1. CASE j <= p
    <3>1. j \in 1 .. p /\ a[j] \in Openers(l)
      BY <1>1, <1>2, <2>1
    <3>2. PICK k \in 1 .. p : j < k /\ a[k] = Unlock(l) /\ \A i \in 1 .. p : j < i /\ i < k => a[i] # Lock(l)
      BY <1>1, <3>1, Zenon DEF WholeFor, Paired
    <3>3. k \in 1 .. p + q /\ s[k] = Unlock(l)
      BY <1>2, <3>2, Zenon
    <3>4. \A i \in 1 .. p + q : j < i /\ i < k => s[i] # Lock(l)
      BY <1>1, <1>2, <3>2
    <3> QED  BY <3>2, <3>3, <3>4, Zenon
  <2>2. CASE j > p
    <3>1. j - p \in 1 .. q /\ b[j - p] \in Openers(l)
      BY <1>4, <2>2, Zenon
    <3>2. PICK k \in 1 .. q : j - p < k /\ b[k] = Unlock(l) /\ \A i \in 1 .. q : j - p < i /\ i < k => b[i] # Lock(l)
      BY <1>1, <3>1, Zenon DEF Paired
    <3>3. p + k \in 1 .. p + q /\ s[p + k] = Unlock(l) /\ j < p + k
      BY <1>1, <1>3, <3>2
    <3>4. ASSUME NEW i \in 1 .. p + q, j < i, i < p + k  PROVE s[i] # Lock(l)
      <4>1. i - p \in 1 .. q /\ s[i] = b[i - p]
        BY <1>1, <1>4, <2>2, <3>4
      <4>2. j - p < i - p /\ i - p < k
        BY <1>1, <3>4
      <4> QED  BY <3>2, <4>1, <4>2, Zenon
    <3> QED  BY <3>3, <3>4, Zenon
  <2> QED  BY <1>1, <2>1, <2>2
<1>6. ASSUME ~ Holds(b, l), NEW k \in 1 .. q, b[k] = Unlock(l)  PROVE \E i \in 1 .. q : i < k /\ b[i] = Lock(l)
  BY <1>1, <1>6, Zenon DEF Holds
<1>7. ASSUME NEW k \in 1 .. p, a[k] = Unlock(l)  PROVE \E i \in 1 .. p : i < k /\ a[i] = Lock(l)
  BY <1>1, <1>7, Zenon DEF WholeFor, Holds
<1>8. Apart(s, l)
  <2> SUFFICES ASSUME NEW j \in 1 .. p + q, NEW k \in 1 .. p + q, j < k, s[j] \in Barriers(l), s[k] = Unlock(l)
               PROVE  \E i \in 1 .. p + q : j < i /\ i < k /\ s[i] = Lock(l)
    BY <1>1, Zenon DEF Apart
  <2>1. CASE k <= p
    <3>1. j \in 1 .. p /\ k \in 1 .. p /\ a[j] \in Barriers(l) /\ a[k] = Unlock(l)
      BY <1>1, <1>2, <2>1
    <3>2. PICK i \in 1 .. p : j < i /\ i < k /\ a[i] = Lock(l)
      BY <1>1, <3>1, Zenon DEF WholeFor, Apart
    <3> QED  BY <1>2, <3>2, Zenon
  <2>2. CASE j <= p /\ k > p
    <3>1. j \in 1 .. p /\ a[j] \in Barriers(l) /\ k - p \in 1 .. q /\ b[k - p] = Unlock(l)
      BY <1>1, <1>2, <1>4, <2>2, SMTT(40)
    <3>2. ~ Holds(b, l)
      BY <1>1, <3>1, Zenon
    <3>3. PICK i \in 1 .. q : i < k - p /\ b[i] = Lock(l)
      BY <1>6, <3>1, <3>2, Zenon
    <3>4. p + i \in 1 .. p + q /\ s[p + i] = Lock(l) /\ j < p + i /\ p + i < k
      BY <1>1, <1>3, <2>2, <3>3
    <3> QED  BY <3>4, Zenon
  <2>3. CASE j > p
    <3>1. j - p \in 1 .. q /\ k - p \in 1 .. q /\ b[j - p] \in Barriers(l) /\ b[k - p] = Unlock(l) /\ j - p < k - p
      BY <1>1, <1>4, <2>3, SMTT(40)
    <3>2. PICK i \in 1 .. q : j - p < i /\ i < k - p /\ b[i] = Lock(l)
      BY <1>1, <3>1, Zenon DEF Apart
    <3>3. p + i \in 1 .. p + q /\ s[p + i] = Lock(l) /\ j < p + i /\ p + i < k
      BY <1>1, <1>3, <3>2
    <3> QED  BY <3>3, Zenon
  <2> QED  BY <1>1, <2>1, <2>2, <2>3, SMTT(40)
<1>9. ASSUME Holds(s, l)  PROVE Holds(b, l)
  <2>1. PICK k \in 1 .. p + q : s[k] = Unlock(l) /\ \A i \in 1 .. p + q : i < k => s[i] # Lock(l)
    BY <1>1, <1>9, Zenon DEF Holds
  <2>2. k > p
    <3> SUFFICES ASSUME k <= p  PROVE FALSE
      BY <1>1
    <3>1. k \in 1 .. p /\ a[k] = Unlock(l)
      BY <1>1, <1>2, <2>1
    <3>2. PICK i \in 1 .. p : i < k /\ a[i] = Lock(l)
      BY <1>7, <3>1, Zenon
    <3> QED  BY <1>2, <2>1, <3>2, Zenon
  <2>3. k - p \in 1 .. q /\ b[k - p] = Unlock(l)
    BY <1>4, <2>1, <2>2, Zenon
  <2>4. ASSUME NEW i \in 1 .. q, i < k - p  PROVE b[i] # Lock(l)
    BY <1>1, <1>3, <2>1, <2>4
  <2> QED  BY <1>1, <2>3, <2>4, Zenon DEF Holds
<1>10. ASSUME Holds(b, l)  PROVE Holds(s, l)
  <2>1. PICK k \in 1 .. q : b[k] = Unlock(l) /\ \A i \in 1 .. q : i < k => b[i] # Lock(l)
    BY <1>1, <1>10, Zenon DEF Holds
  <2>2. p + k \in 1 .. p + q /\ s[p + k] = Unlock(l)
    BY <1>3, <2>1, Zenon
  <2>3. ASSUME NEW i \in 1 .. p + q, i < p + k  PROVE s[i] # Lock(l)
    <3>1. CASE i <= p
      BY <1>1, <1>2, <1>10, <3>1
    <3>2. CASE i > p
      <4>1. i - p \in 1 .. q /\ s[i] = b[i - p] /\ i - p < k
        BY <1>1, <1>4, <2>3, <3>2
      <4> QED  BY <2>1, <4>1, Zenon
    <3> QED  BY <1>1, <3>1, <3>2
  <2> QED  BY <1>1, <2>2, <2>3, Zenon DEF Holds
<1> QED
  BY <1>1, <1>5, <1>8, <1>9, <1>10, Zenon DEF s

(* Code one after the other.                                               *)
LEMMA WholeJoin ==
  ASSUME NEW a, NEW b, Whole(a), Whole(b)
  PROVE  Whole(a \o b)
<1> SUFFICES ASSUME NEW l \in Mutexes  PROVE a \o b \in Seq(Ops) /\ WholeFor(a \o b, l)
  BY Zenon DEF Whole, Mutexes
<1>1. WholeFor(a, l) /\ Paired(b, l) /\ Apart(b, l) /\ ~ Holds(b, l) /\ a \in Seq(Ops) /\ b \in Seq(Ops)
  BY Zenon DEF Whole, WholeFor
<1> QED
  BY <1>1, Joined, Zenon DEF WholeFor

(* What is neither a lock, an unlock nor a step under SCHEDULER.           *)
LEMMA DoWhole ==
  ASSUME NEW x \in Steps \ {"run_next", "store_id"}
  PROVE  Whole(<<Do(x)>>)
<1>1. Do(x) \in Ops /\ \A l : Do(x) # Unlock(l) /\ Do(x) \notin Openers(l)
  BY OpsDiffer, Zenon DEF Ops, Openers
<1>2. <<Do(x)>> \in Seq(Ops) /\ DOMAIN <<Do(x)>> = {1} /\ <<Do(x)>>[1] = Do(x)
  BY <1>1
<1> QED
  BY <1>1, <1>2, QuietWhole, Zenon DEF Whole

(* No code at all.                                                         *)
LEMMA EmptyWhole == Whole(<<>>)
<1>1. <<>> \in Seq(Ops) /\ DOMAIN <<>> = {}
  OBVIOUS
<1> QED
  BY <1>1, QuietWhole, Zenon DEF Whole

(* A guard around code that stays clear of its mutex.                      *)
LEMMA GuardedWhole ==
  ASSUME NEW l \in Mutexes, NEW body \in Seq(Ops),
         \A k \in DOMAIN body : body[k] \notin Barriers(l) /\ body[k] # Lock(l),
         \A m \in Mutexes \ {l} : WholeFor(body, m)
  PROVE  Whole(Guarded(l, body))
<1> DEFINE s == (<<Lock(l)>> \o body) \o <<Unlock(l)>>  n == Len(body)
<1>1. Lock(l) \in Ops /\ Unlock(l) \in Ops
  BY Zenon DEF Ops
<1>2. <<Lock(l)>> \in Seq(Ops) /\ <<Unlock(l)>> \in Seq(Ops)
  BY <1>1
<1>3. ASSUME NEW m \in Mutexes \ {l}  PROVE WholeFor(s, m)
  <2>1. Lock(l) # Unlock(m) /\ Lock(l) \notin Openers(m) /\ Unlock(l) # Unlock(m) /\ Unlock(l) \notin Openers(m)
    BY <1>3, OpsDiffer, Zenon DEF Openers
  <2>2. WholeFor(<<Lock(l)>>, m) /\ WholeFor(<<Unlock(l)>>, m)
    <3>1. DOMAIN <<Lock(l)>> = {1} /\ DOMAIN <<Unlock(l)>> = {1} /\ <<Lock(l)>>[1] = Lock(l) /\ <<Unlock(l)>>[1] = Unlock(l)
      OBVIOUS
    <3> QED  BY <2>1, <3>1, QuietWhole
  <2>3. WholeFor(<<Lock(l)>> \o body, m) /\ <<Lock(l)>> \o body \in Seq(Ops)
    BY <1>2, <1>3, <2>2, Joined, Zenon DEF WholeFor
  <2> QED  BY <1>2, <2>2, <2>3, Joined, Zenon DEF WholeFor
<1>4. n \in Nat /\ DOMAIN body = 1 .. n /\ s \in Seq(Ops) /\ DOMAIN s = 1 .. n + 2
  BY <1>2
<1>5. s[1] = Lock(l) /\ s[n + 2] = Unlock(l) /\ \A k \in 2 .. n + 1 : k - 1 \in 1 .. n /\ s[k] = body[k - 1]
  BY <1>2, <1>4
<1> HIDE DEF s, n
<1>6. \A k \in 1 .. n : body[k] \notin Barriers(l) /\ body[k] # Lock(l)
  BY <1>4, Zenon
<1>7. \A k \in 1 .. n + 2 : k = 1 \/ k = n + 2 \/ k \in 2 .. n + 1
  BY <1>4
<1>8. \A k \in 1 .. n + 2 : k # 1 => s[k] # Lock(l)
  BY <1>5, <1>6, <1>7, OpsDiffer, Zenon
<1>9. \A k \in 1 .. n + 2 : k # n + 2 => s[k] \notin Barriers(l) /\ s[k] # Unlock(l)
  BY <1>5, <1>6, <1>7, SpecialOps, OpsDiffer
<1>10. Paired(s, l)
  <2> SUFFICES ASSUME NEW j \in 1 .. n + 2, s[j] \in Openers(l)
               PROVE  \E k \in 1 .. n + 2 : j < k /\ s[k] = Unlock(l) /\ \A i \in 1 .. n + 2 : j < i /\ i < k => s[i] # Lock(l)
    BY <1>4, Zenon DEF Paired
  <2>1. j # n + 2
    BY <1>5, SpecialOps
  <2> QED  BY <1>4, <1>5, <1>8, <2>1
<1>11. Apart(s, l)
  BY <1>4, <1>9 DEF Apart
<1>12. ~ Holds(s, l)
  BY <1>4, <1>5, <1>9 DEF Holds
<1>13. \A m \in Mutexes : WholeFor(s, m)
  BY <1>3, <1>10, <1>11, <1>12, Zenon DEF WholeFor
<1>14. Guarded(l, body) = s
  BY Zenon DEF s, Guarded
<1> QED
  BY <1>4, <1>13, <1>14, Zenon DEF Whole

-----------------------------------------------------------------------------
(* The functions of KernelCode are such code                               *)

\* What the shell's commands consist of
CommandOps == {Lock(l) : l \in Mutexes \ {"SHELL"}} \cup {Unlock(l) : l \in Mutexes \ {"SHELL"}}

(* Mutexes are not steps.                                                  *)
LEMMA CommandOpsAre ==
  /\ CommandOps \subseteq Ops
  /\ \A op \in CommandOps : op # Lock("SHELL") /\ op \notin Barriers("SHELL") /\ \A x : op # Do(x) /\ op # <<"iret", x>>
  BY OpsDiffer, Zenon DEF CommandOps, Ops, Barriers, Keys

(* A guard that is dropped at once.                                        *)
LEMMA GuardWhole ==
  ASSUME NEW l \in Mutexes
  PROVE  Whole(Guarded(l, <<>>)) /\ Guarded(l, <<>>) \in Seq({Lock(l), Unlock(l)})
<1>1. <<>> \in Seq(Ops) /\ DOMAIN <<>> = {} /\ \A m \in Mutexes : WholeFor(<<>>, m)
  BY EmptyWhole DEF Whole
<1>2. Whole(Guarded(l, <<>>))
  BY <1>1, GuardedWhole, Zenon
<1> QED
  BY <1>2 DEF Guarded

(* Locks of other mutexes under a guard.                                   *)
LEMMA NestedGuardWhole ==
  ASSUME NEW l \in Mutexes, NEW m \in Mutexes \ {l}, NEW body \in Seq({Lock(m), Unlock(m)}), Whole(body)
  PROVE  Whole(Guarded(l, body))
<1>1. body \in Seq(Ops) /\ \A k \in DOMAIN body : body[k] \in {Lock(m), Unlock(m)}
  BY DEF Whole
<1>2. \A k \in DOMAIN body : body[k] \notin Barriers(l) /\ body[k] # Lock(l)
  BY <1>1, OpsDiffer, Zenon DEF Barriers
<1> QED
  BY <1>1, <1>2, GuardedWhole, Zenon DEF Whole

(* A sequence of elements of S is one of elements of a larger set.         *)
LEMMA SeqWider ==
  ASSUME NEW S, NEW T, S \subseteq T, NEW s \in Seq(S)
  PROVE  s \in Seq(T)
<1>1. Len(s) \in Nat /\ DOMAIN s = 1 .. Len(s) /\ \A k \in 1 .. Len(s) : s[k] \in T
  OBVIOUS
<1>2. s = [k \in 1 .. Len(s) |-> s[k]]
  OBVIOUS
<1> QED
  BY <1>1, <1>2

(* Printing, and copying a field of the current task.                      *)
LEMMA PrintlnWhole ==
  /\ Whole(Println) /\ Println \in Seq(CommandOps) /\ Println \in Seq({Lock("SERIAL"), Unlock("SERIAL")})
  /\ Whole(CurrentTask) /\ CurrentTask \in Seq(CommandOps)
<1>1. "SERIAL" \in Mutexes \ {"SHELL"} /\ "SCHEDULER" \in Mutexes \ {"SHELL"}
  BY Zenon DEF Mutexes
<1>2. ASSUME NEW l \in Mutexes \ {"SHELL"}  PROVE Guarded(l, <<>>) \in Seq(CommandOps)
  <2>1. {Lock(l), Unlock(l)} \subseteq CommandOps
    BY Zenon DEF CommandOps
  <2> QED  BY <2>1, GuardWhole, SeqWider, Zenon
<1> QED
  BY <1>1, <1>2, GuardWhole, Zenon DEF Println, CurrentTask

(* Drawing complains at most.                                              *)
LEMMA RenderWhole ==
  ASSUME NEW fb
  PROVE  /\ Whole(RenderBootVisual(fb)) /\ RenderBootVisual(fb) \in Seq(CommandOps)
         /\ RenderBootVisual(fb) \in Seq({Lock("SERIAL"), Unlock("SERIAL")})
  BY PrintlnWhole, EmptyWhole DEF RenderBootVisual

(* Every line that Enter executes returns what it takes, and leaves SHELL  *)
(* alone.                                                                  *)
LEMMA LinesWhole ==
  ASSUME NEW fb, NEW line \in Lines(fb)
  PROVE  Whole(line) /\ line \in Seq(CommandOps)
<1> DEFINE Good(s) == Whole(s) /\ s \in Seq(CommandOps)
<1>0. ASSUME NEW a, NEW b, Good(a), Good(b)  PROVE Good(a \o b)
  BY <1>0, WholeJoin
<1>1. Good(<<>>) /\ Good(Println) /\ Good(CurrentTask) /\ Good(RenderBootVisual(fb))
  BY PrintlnWhole, RenderWhole, EmptyWhole
<1>2. {"WRITABLE_FILES", "FRAMEBUFFER"} \subseteq Mutexes \ {"SHELL", "SERIAL"} /\ "SERIAL" \in Mutexes
  BY Zenon DEF Mutexes
<1>3. ASSUME NEW l \in {"WRITABLE_FILES", "FRAMEBUFFER"}, NEW body \in {Println, RenderBootVisual(fb), <<>>}
      PROVE  Good(Guarded(l, body))
  <2>1. body \in Seq({Lock("SERIAL"), Unlock("SERIAL")}) /\ Whole(body) /\ body \in Seq(CommandOps)
    <3>1. <<>> \in Seq({Lock("SERIAL"), Unlock("SERIAL")}) /\ <<>> \in Seq(CommandOps)
      OBVIOUS
    <3> QED  BY <1>3, <3>1, PrintlnWhole, RenderWhole, EmptyWhole, Zenon
  <2>2. Whole(Guarded(l, body))
    BY <1>2, <2>1, NestedGuardWhole, Zenon
  <2>3. {Lock(l), Unlock(l)} \subseteq CommandOps
    BY <1>2, Zenon DEF CommandOps
  <2>4. Guarded(l, body) \in Seq(CommandOps)
    BY <2>1, <2>3 DEF Guarded
  <2> QED  BY <2>2, <2>4, Zenon
<1> HIDE DEF Good
<1>4. Good(ListFiles)
  BY <1>3, Zenon DEF ListFiles
<1>5. Good(FileCommand)
  BY <1>0, <1>1, <1>3, Zenon DEF FileCommand
<1>6. Good(Clear(fb))
  BY <1>0, <1>1, <1>3, Zenon DEF Clear
<1>7. Good(ShowTasks)
  <2> DEFINE Field == CurrentTask \o Println
  <2>1. Good(Field)
    BY <1>0, <1>1, Zenon
  <2>2. ShowTasks = (((Println \o Field) \o Field) \o Field) \o Field
    BY Zenon DEF ShowTasks
  <2> HIDE DEF Field
  <2>3. Good(Println \o Field)
    BY <1>0, <1>1, <2>1, Zenon
  <2>4. Good((Println \o Field) \o Field)
    BY <1>0, <2>1, <2>3, Zenon
  <2>5. Good(((Println \o Field) \o Field) \o Field)
    BY <1>0, <2>1, <2>4, Zenon
  <2> QED  BY <1>0, <2>1, <2>2, <2>5, Zenon
<1>8. Good(line)
  BY <1>1, <1>4, <1>5, <1>6, <1>7, Zenon DEF Lines, Commands
<1> QED
  BY <1>8, Zenon DEF Good

\* Steps that neither lock nor need a mutex, and the return from an interrupt
PlainOps == {Do(x) : x \in Steps \ {"run_next", "store_id"}} \cup Irets

(* A sequence of those takes nothing.                                      *)
LEMMA PlainWhole ==
  ASSUME NEW s \in Seq(PlainOps)
  PROVE  Whole(s)
<1>1. PlainOps \subseteq Ops /\ \A op \in PlainOps : \A l : op # Unlock(l) /\ op \notin Openers(l)
  BY OpsDiffer, Zenon DEF PlainOps, Ops, Openers, Irets
<1>2. s \in Seq(Ops) /\ \A k \in DOMAIN s : s[k] \in PlainOps
  BY <1>1, SeqWider
<1> QED
  BY <1>1, <1>2, QuietWhole, Zenon DEF Whole

(* A guard around steps that may be taken while its mutex is held.         *)
LEMMA GuardedSteps ==
  ASSUME NEW l \in Mutexes, NEW X \in SUBSET (Steps \ {"on_tick", "on_interrupt", "notify_eoi"}),
         NEW body \in Seq({Do(x) : x \in X}),
         l = "SHELL" \/ X \cap Keys = {},
         l = "SCHEDULER" \/ X \cap {"run_next", "store_id"} = {}
  PROVE  Whole(Guarded(l, body))
<1>1. {Do(x) : x \in X} \subseteq Ops
  BY Zenon DEF Ops
<1>2. body \in Seq(Ops) /\ \A k \in DOMAIN body : body[k] \in {Do(x) : x \in X}
  BY <1>1, SeqWider
<1>3. \A x \in X : Do(x) \notin Barriers(l) /\ Do(x) # Lock(l)
  BY OpsDiffer DEF Barriers
<1>4. ASSUME NEW m \in Mutexes \ {l}  PROVE WholeFor(body, m)
  <2>1. \A x \in X : Do(x) # Unlock(m) /\ Do(x) \notin Openers(m)
    BY <1>4, OpsDiffer, Zenon DEF Openers
  <2> QED  BY <1>2, <2>1, QuietWhole
<1> QED
  BY <1>2, <1>3, <1>4, GuardedWhole, Zenon

(* The phases of core::init, run by main.                                  *)
LEMMA PhasesWhole ==
  /\ Whole(InterruptsInit) /\ Whole(SchedulerInitialize)
  /\ Whole(TimerInitialize) /\ Whole(KeyboardInitialize)
  /\ Whole(VfsInitialize) /\ Whole(ShellInitialize) /\ Whole(Report)
  /\ \A fb : Whole(FramebufferInitialize(fb))
<1>0. {"PICS", "SCHEDULER", "FRAMEBUFFER", "WRITABLE_FILES", "SHELL", "SERIAL"} \subseteq Mutexes
  BY Zenon DEF Mutexes
<1>1. Whole(InterruptsInit)
  <2>1. <<Do("remap_pics")>> \in Seq({Do(x) : x \in {"remap_pics"}})
    OBVIOUS
  <2>2. Whole(Guarded("PICS", <<Do("remap_pics")>>))
    BY <1>0, <2>1, GuardedSteps, Zenon DEF Steps, Keys
  <2>3. Do("enable_interrupts") \in PlainOps /\ Do("set_initialized") \in PlainOps
    BY Zenon DEF PlainOps, Steps
  <2>4. Whole(<<Do("enable_interrupts"), Do("set_initialized")>>)
    <3>1. <<Do("enable_interrupts"), Do("set_initialized")>> \in Seq(PlainOps)
      BY <2>3
    <3> QED  BY <3>1, PlainWhole, Zenon
  <2> QED  BY <2>2, <2>4, WholeJoin, Zenon DEF InterruptsInit
<1>2. Whole(SchedulerInitialize)
  <2>1. <<Do("add_tasks"), Do("run_next"), Do("store_count"), Do("store_id")>>
          \in Seq({Do(x) : x \in {"add_tasks", "run_next", "store_count", "store_id"}})
    OBVIOUS
  <2>2. /\ {"add_tasks", "run_next", "store_count", "store_id"}
             \in SUBSET (Steps \ {"on_tick", "on_interrupt", "notify_eoi"})
        /\ {"add_tasks", "run_next", "store_count", "store_id"} \cap Keys = {}
    BY Zenon DEF Steps, Keys
  <2> QED  BY <1>0, <2>1, <2>2, GuardedSteps, Zenon DEF SchedulerInitialize
<1>3. Whole(TimerInitialize) /\ Whole(KeyboardInitialize)
  BY PrintlnWhole, DoWhole, WholeJoin, Zenon DEF TimerInitialize, KeyboardInitialize, Steps
<1>4. Whole(VfsInitialize)
  BY <1>0, GuardWhole, Zenon DEF VfsInitialize
<1>5. Whole(ShellInitialize)
  <2> DEFINE body == <<Do("shell_ready")>> \o Println
  <2>1. Whole(<<Do("shell_ready")>>)
    BY DoWhole, Zenon DEF Steps
  <2>2. Whole(body)
    BY <2>1, PrintlnWhole, WholeJoin, Zenon
  <2>3. body \in Seq({Do("shell_ready"), Lock("SERIAL"), Unlock("SERIAL")})
    <3>1. Println \in Seq({Do("shell_ready"), Lock("SERIAL"), Unlock("SERIAL")})
      BY PrintlnWhole, SeqWider
    <3> QED  BY <3>1
  <2>4. \A k \in DOMAIN body : body[k] \notin Barriers("SHELL") /\ body[k] # Lock("SHELL")
    <3>1. \A op \in {Do("shell_ready"), Lock("SERIAL"), Unlock("SERIAL")} : op \notin Barriers("SHELL") /\ op # Lock("SHELL")
      BY OpsDiffer, Zenon DEF Barriers
    <3> QED  BY <2>3, <3>1
  <2> QED  BY <1>0, <2>2, <2>4, GuardedWhole, Zenon DEF Whole, ShellInitialize
<1>6. Whole(Report)
  BY PrintlnWhole, WholeJoin, Zenon DEF Report
<1>7. ASSUME NEW fb  PROVE Whole(FramebufferInitialize(fb))
  BY <1>0, GuardWhole, RenderWhole, PrintlnWhole, WholeJoin, Zenon DEF FramebufferInitialize
<1> QED
  BY <1>1, <1>2, <1>3, <1>4, <1>5, <1>6, <1>7, Zenon

(* What main executes.                                                     *)
LEMMA BootWhole == ASSUME NEW fb PROVE Whole(Boot(fb))
<1>1. Whole(InterruptsInit \o SchedulerInitialize)
  BY PhasesWhole, WholeJoin, Zenon
<1>2. Whole(InterruptsInit \o SchedulerInitialize \o TimerInitialize)
  BY <1>1, PhasesWhole, WholeJoin, Zenon
<1>3. Whole(InterruptsInit \o SchedulerInitialize \o TimerInitialize \o KeyboardInitialize)
  BY <1>2, PhasesWhole, WholeJoin, Zenon
<1>4. Whole(InterruptsInit \o SchedulerInitialize \o TimerInitialize \o KeyboardInitialize
              \o FramebufferInitialize(fb))
  BY <1>3, PhasesWhole, WholeJoin, Zenon
<1>5. Whole(InterruptsInit \o SchedulerInitialize \o TimerInitialize \o KeyboardInitialize
              \o FramebufferInitialize(fb) \o VfsInitialize)
  BY <1>4, PhasesWhole, WholeJoin, Zenon
<1>6. Whole(InterruptsInit \o SchedulerInitialize \o TimerInitialize \o KeyboardInitialize
              \o FramebufferInitialize(fb) \o VfsInitialize \o ShellInitialize)
  BY <1>5, PhasesWhole, WholeJoin, Zenon
<1> QED
  BY <1>6, PhasesWhole, WholeJoin, Zenon DEF Boot

(* What handlers execute, and what their steps turn into.                  *)
LEMMA HandlersWhole ==
  /\ \A n \in Lines8259 : Whole(Handler(n))
  /\ \A report \in BOOLEAN : Whole(OnTick(report))
  /\ \A scancode \in Scancodes : Whole(OnScancode(scancode))
  /\ Whole(NotifyEoi)
<1>0. {"PICS", "SCHEDULER", "SHIFT_PRESSED", "SHELL", "SERIAL"} \subseteq Mutexes
  BY Zenon DEF Mutexes
<1>1. ASSUME NEW n \in Lines8259  PROVE Whole(Handler(n))
  <2>1. {Do("on_tick"), Do("notify_eoi"), Do("on_interrupt"), <<"iret", 0>>, <<"iret", 1>>} \subseteq PlainOps
    BY Zenon DEF PlainOps, Steps, Irets, Lines8259
  <2>2. TimerHandler \in Seq(PlainOps) /\ KeyboardHandler \in Seq(PlainOps)
    BY <2>1 DEF TimerHandler, KeyboardHandler
  <2> QED  BY <2>2, PlainWhole, Zenon DEF Handler
<1>2. ASSUME NEW report \in BOOLEAN  PROVE Whole(OnTick(report))
  <2>1. <<Do("run_next"), Do("store_id")>> \in Seq({Do(x) : x \in {"run_next", "store_id"}})
    OBVIOUS
  <2>2. Whole(SchedulerTick)
    BY <1>0, <2>1, GuardedSteps, Zenon DEF Steps, Keys, SchedulerTick
  <2> QED  BY <2>2, PrintlnWhole, EmptyWhole, WholeJoin, Zenon DEF OnTick
<1>3. ASSUME NEW key \in Keys  PROVE Whole(Guarded("SHELL", <<Do(key)>>))
  <2>1. <<Do(key)>> \in Seq({Do(x) : x \in Keys})
    OBVIOUS
  <2> QED  BY <1>0, <2>1, GuardedSteps, Zenon DEF Steps, Keys
<1>4. ASSUME NEW scancode \in Scancodes  PROVE Whole(OnScancode(scancode))
  <2>1. Whole(Guarded("SHIFT_PRESSED", <<>>))
    BY <1>0, GuardWhole, Zenon
  <2>2. Whole(Guarded("SHIFT_PRESSED", <<>>) \o Guarded("SHELL", <<Do("Char")>>))
    BY <1>3, <2>1, WholeJoin, Zenon DEF Keys
  <2>3. Whole(Guarded("SHELL", <<Do("Enter")>>)) /\ Whole(Guarded("SHELL", <<Do("Backspace")>>))
    BY <1>3, Zenon DEF Keys
  <2> QED  BY <2>1, <2>2, <2>3, EmptyWhole, Zenon DEF Scancodes, OnScancode
<1>5. Whole(NotifyEoi)
  <2>1. <<Do("eoi")>> \in Seq({Do(x) : x \in {"eoi"}})
    OBVIOUS
  <2> QED  BY <1>0, <2>1, GuardedSteps, Zenon DEF Steps, Keys, NotifyEoi
<1> QED
  BY <1>1, <1>2, <1>4, <1>5, Zenon

-----------------------------------------------------------------------------
(* Mutexes                                                                 *)

\* Whoever holds a mutex has the unlock ahead of it, and nobody else has.
LockInv ==
  /\ code \in [Contexts -> Seq(Ops)]
  /\ holder \in [Mutexes -> Contexts \cup {"free"}]
  /\ \A c \in Contexts, l \in Mutexes :
       Paired(code[c], l) /\ Apart(code[c], l) /\ (Holds(code[c], l) <=> holder[l] = c)

(* A step that is not about a mutex, replaced by code that takes none that *)
(* is held.                                                                *)
LEMMA StepLocks ==
  ASSUME LockInv, NEW c \in Contexts, code[c] # <<>>,
         \A l \in Mutexes : Head(code[c]) # Lock(l) /\ Head(code[c]) # Unlock(l),
         NEW r, Whole(r),
         \A l \in Mutexes : Holds(Tail(code[c]), l) => \A k \in DOMAIN r : r[k] \notin Barriers(l) /\ r[k] # Lock(l),
         code' = [code EXCEPT ![c] = r \o Tail(code[c])], UNCHANGED holder
  PROVE  LockInv'
<1> DEFINE s == code[c]  t == r \o Tail(s)
<1>1. s \in Seq(Ops) /\ r \in Seq(Ops) /\ Tail(s) \in Seq(Ops) /\ t \in Seq(Ops)
  BY DEF LockInv, Whole
<1>2. ASSUME NEW l \in Mutexes  PROVE Paired(t, l) /\ Apart(t, l) /\ (Holds(t, l) <=> holder[l] = c)
  <2>1. Paired(s, l) /\ Apart(s, l) /\ (Holds(s, l) <=> holder[l] = c)
    BY Zenon DEF LockInv
  <2>2. Paired(Tail(s), l) /\ Apart(Tail(s), l) /\ (Holds(Tail(s), l) <=> Holds(s, l))
    BY <1>1, <2>1, TailKeeps, Zenon
  <2>3. WholeFor(r, l)
    BY Zenon DEF Whole
  <2> QED  BY <1>1, <2>1, <2>2, <2>3, Joined, Zenon
<1>3. code' \in [Contexts -> Seq(Ops)] /\ code'[c] = t /\ \A d \in Contexts \ {c} : code'[d] = code[d]
  BY <1>1, Zenon DEF LockInv
<1> HIDE DEF s, t
<1>4. ASSUME NEW d \in Contexts, NEW l \in Mutexes
      PROVE  Paired(code'[d], l) /\ Apart(code'[d], l) /\ (Holds(code'[d], l) <=> holder'[l] = d)
  BY <1>2, <1>3, ZenonT(40) DEF LockInv
<1> QED
  BY <1>3, <1>4, Zenon DEF LockInv, Paired, Apart, Holds

(* Taking a free mutex.                                                    *)
LEMMA AcquireLocks ==
  ASSUME LockInv, NEW c \in Contexts, NEW l \in Mutexes, code[c] # <<>>, Head(code[c]) = Lock(l), holder[l] = "free",
         code' = [code EXCEPT ![c] = <<>> \o Tail(code[c])], holder' = [holder EXCEPT ![l] = c]
  PROVE  LockInv'
<1> DEFINE s == code[c]  t == Tail(s)
<1>1. s \in Seq(Ops) /\ t \in Seq(Ops) /\ <<>> \o t = t
  BY DEF LockInv
<1>2. /\ code' \in [Contexts -> Seq(Ops)] /\ code'[c] = t /\ \A d \in Contexts \ {c} : code'[d] = code[d]
      /\ holder' \in [Mutexes -> Contexts \cup {"free"}]
      /\ holder'[l] = c /\ \A m \in Mutexes \ {l} : holder'[m] = holder[m]
  BY <1>1 DEF LockInv
<1>3. ASSUME NEW m \in Mutexes  PROVE Paired(t, m) /\ Apart(t, m) /\ (Holds(t, m) <=> holder'[m] = c)
  <2>1. Paired(s, m) /\ Apart(s, m) /\ (Holds(s, m) <=> holder[m] = c)
    BY Zenon DEF LockInv
  <2>2. Paired(t, m) /\ Apart(t, m) /\ (Head(s) \in Openers(m)  => Holds(t, m))
        /\ (Head(s) \notin {Lock(m), Unlock(m)} => (Holds(t, m) <=> Holds(s, m)))
    BY <1>1, <2>1, TailKeeps, Zenon
  <2>3. CASE m = l
    BY <1>2, <2>2, <2>3, SpecialOps, SMTT(40)
  <2>4. CASE m # l
    BY <1>2, <2>1, <2>2, <2>4, OpsDiffer
  <2> QED  BY <2>3, <2>4, Zenon
<1>4. ASSUME NEW d \in Contexts \ {c}, NEW m \in Mutexes
      PROVE  Paired(code[d], m) /\ Apart(code[d], m) /\ (Holds(code[d], m) <=> holder'[m] = d)
  <2>1. Paired(code[d], m) /\ Apart(code[d], m) /\ (Holds(code[d], m) <=> holder[m] = d)
    BY Zenon DEF LockInv
  <2>2. d # "free" /\ d # c
    BY Zenon DEF Contexts
  <2> QED  BY <1>2, <2>1, <2>2, Zenon
<1> HIDE DEF s, t
<1>5. ASSUME NEW d \in Contexts, NEW m \in Mutexes
      PROVE  Paired(code'[d], m) /\ Apart(code'[d], m) /\ (Holds(code'[d], m) <=> holder'[m] = d)
  BY <1>2, <1>3, <1>4, ZenonT(40)
<1> QED
  BY <1>2, <1>5, Zenon DEF LockInv, Paired, Apart, Holds

(* Releasing one.                                                          *)
LEMMA ReleaseLocks ==
  ASSUME LockInv, NEW c \in Contexts, NEW l \in Mutexes, code[c] # <<>>, Head(code[c]) = Unlock(l),
         code' = [code EXCEPT ![c] = <<>> \o Tail(code[c])], holder' = [holder EXCEPT ![l] = "free"]
  PROVE  LockInv' /\ holder[l] = c
<1> DEFINE s == code[c]  t == Tail(s)
<1>1. s \in Seq(Ops) /\ t \in Seq(Ops) /\ <<>> \o t = t /\ c # "free"
  BY DEF LockInv, Contexts
<1>2. /\ code' \in [Contexts -> Seq(Ops)] /\ code'[c] = t /\ \A d \in Contexts \ {c} : code'[d] = code[d]
      /\ holder' \in [Mutexes -> Contexts \cup {"free"}]
      /\ holder'[l] = "free" /\ \A m \in Mutexes \ {l} : holder'[m] = holder[m]
  BY <1>1 DEF LockInv
<1>3. ASSUME NEW m \in Mutexes  PROVE Paired(t, m) /\ Apart(t, m) /\ (Holds(t, m) <=> holder'[m] = c) /\ (m = l => holder[l] = c)
  <2>1. Paired(s, m) /\ Apart(s, m) /\ (Holds(s, m) <=> holder[m] = c)
    BY Zenon DEF LockInv
  <2>2. Paired(t, m) /\ Apart(t, m) /\ (Head(s) \in Barriers(m)  => ~ Holds(t, m)) /\ (Head(s) = Unlock(m) => Holds(s, m))
        /\ (Head(s) \notin {Lock(m), Unlock(m)} => (Holds(t, m) <=> Holds(s, m)))
    BY <1>1, <2>1, TailKeeps, Zenon
  <2>3. CASE m = l
    BY <1>1, <1>2, <2>1, <2>2, <2>3, SpecialOps, SMTT(40)
  <2>4. CASE m # l
    BY <1>2, <2>1, <2>2, <2>4, OpsDiffer
  <2> QED  BY <2>3, <2>4, Zenon
<1>4. ASSUME NEW d \in Contexts \ {c}, NEW m \in Mutexes
      PROVE  Paired(code[d], m) /\ Apart(code[d], m) /\ (Holds(code[d], m) <=> holder'[m] = d)
  <2>1. Paired(code[d], m) /\ Apart(code[d], m) /\ (Holds(code[d], m) <=> holder[m] = d)
    BY Zenon DEF LockInv
  <2>2. d # "free" /\ d # c
    BY Zenon DEF Contexts
  <2> QED  BY <1>2, <1>3, <2>1, <2>2, Zenon
<1> HIDE DEF s, t
<1>5. ASSUME NEW d \in Contexts, NEW m \in Mutexes
      PROVE  Paired(code'[d], m) /\ Apart(code'[d], m) /\ (Holds(code'[d], m) <=> holder'[m] = d)
  BY <1>2, <1>3, <1>4, ZenonT(40)
<1> QED
  BY <1>2, <1>3, <1>5, Zenon DEF LockInv, Paired, Apart, Holds

(* A step that turns into nothing.                                         *)
LEMMA PlainStepLocks ==
  ASSUME LockInv, NEW c \in Contexts, code[c] # <<>>,
         \A l \in Mutexes : Head(code[c]) # Lock(l) /\ Head(code[c]) # Unlock(l),
         code' = [code EXCEPT ![c] = <<>> \o Tail(code[c])], UNCHANGED holder
  PROVE  LockInv'
<1>1. DOMAIN <<>> = {}
  OBVIOUS
<1> QED
  BY <1>1, StepLocks, EmptyWhole, Zenon

\* What the operation op of a handler may be replaced by
Turns(op, r, initialized) ==
  \/ r = <<>> /\ (op = Do("notify_eoi") => ~ initialized)
  \/ op = Do("on_tick") /\ \E report \in BOOLEAN : r = OnTick(report)
  \/ op = Do("on_interrupt") /\ \E scancode \in Scancodes : r = OnScancode(scancode)
  \/ op = Do("notify_eoi") /\ r = NotifyEoi
  \/ op \in {Do(key) : key \in Keys} /\ Whole(r) /\ r \in Seq(CommandOps)

\* The running context c has its next operation replaced by r.
Goes(c, r) == c = Running /\ code[c] # <<>> /\ code' = [code EXCEPT ![c] = r \o Tail(code[c])]

(* What `At` and `Continue` say.                                           *)
LEMMA Going ==
  ASSUME NEW c, NEW op, NEW r, At(c, op), Continue(c, r)
  PROVE  Goes(c, r) /\ Head(code[c]) = op
  BY Zenon DEF At, Continue, Goes

\* Operations that are not about a mutex
StepOps == {Do(x) : x \in Steps} \cup Irets

(* The steps of a handler but locking, by what they replace.               *)
LEMMA HandlerTurns ==
  ASSUME HandlerStep, ~ Locking("irq")
  PROVE  /\ UNCHANGED holder
         /\ Head(code["irq"]) \in StepOps
         /\ \E r : Goes("irq", r) /\ Turns(Head(code["irq"]), r, INITIALIZED)
<1> DEFINE G == /\ UNCHANGED holder
                /\ Head(code["irq"]) \in StepOps
                /\ \E r : Goes("irq", r) /\ Turns(Head(code["irq"]), r, INITIALIZED)
<1>0. ASSUME NEW op \in StepOps, NEW r, Running = "irq", code["irq"] # <<>>, Head(code["irq"]) = op,
             code' = [code EXCEPT !["irq"] = r \o Tail(code["irq"])], Turns(op, r, INITIALIZED), UNCHANGED holder
      PROVE  G
  BY <1>0, Zenon DEF Goes
<1> HIDE DEF G
<1>1. ASSUME CountTick  PROVE G
  <2>1. At("irq", Do("on_tick")) /\ Continue("irq", OnTick(TICKS' = 0)) /\ UNCHANGED holder
    BY <1>1, Zenon DEF CountTick
  <2>2. Turns(Do("on_tick"), OnTick(TICKS' = 0), INITIALIZED) /\ Do("on_tick") \in StepOps
    BY Zenon DEF Turns, StepOps, Steps
  <2> QED  BY <1>0, <2>1, <2>2, Zenon DEF At, Continue
<1>2. ASSUME RunNextTask("irq") \/ StoreId("irq") \/ EndOfInterrupt \/ IgnoreKey  PROVE G
  <2>1. PICK x \in {"run_next", "store_id", "eoi", "on_interrupt"} : At("irq", Do(x)) /\ Continue("irq", <<>>) /\ UNCHANGED holder
    BY <1>2, Zenon DEF RunNextTask, StoreId, EndOfInterrupt, IgnoreKey, SchedulerStep
  <2>2. Turns(Do(x), <<>>, INITIALIZED) /\ Do(x) \in StepOps
    BY <2>1, OpsDiffer, Zenon DEF Turns, StepOps, Steps
  <2> QED  BY <1>0, <2>1, <2>2, Zenon DEF At, Continue
<1>3. ASSUME ReadKey  PROVE G
  <2>1. PICK scancode \in Scancodes : At("irq", Do("on_interrupt")) /\ Continue("irq", OnScancode(scancode)) /\ UNCHANGED holder
    BY <1>3, Zenon DEF ReadKey
  <2>2. Turns(Do("on_interrupt"), OnScancode(scancode), INITIALIZED) /\ Do("on_interrupt") \in StepOps
    BY Zenon DEF Turns, StepOps, Steps
  <2> QED  BY <1>0, <2>1, <2>2, Zenon DEF At, Continue
<1>4. ASSUME NEW event \in Keys, NEW r, Whole(r), r \in Seq(CommandOps), Running = "irq", code["irq"] # <<>>,
             Head(code["irq"]) = Do(event), code' = [code EXCEPT !["irq"] = r \o Tail(code["irq"])], UNCHANGED holder
      PROVE  G
  <2>1. Turns(Do(event), r, INITIALIZED) /\ Do(event) \in StepOps
    BY <1>4, Zenon DEF Turns, StepOps, Steps, Keys
  <2> QED  BY <1>0, <1>4, <2>1, Zenon
<1>5. ASSUME NEW event \in {"Enter", "Backspace", "Char"}, KeyBeforeShell(event)  PROVE G
  <2>1. ShellKey(event, len, <<>>) /\ event \in Keys
    BY <1>5, Zenon DEF KeyBeforeShell, Keys
  <2>2. <<>> \in Seq(CommandOps)
    OBVIOUS
  <2> QED  BY <1>4, <2>1, <2>2, EmptyWhole, Zenon DEF ShellKey, At, Continue
<1>6. ASSUME Enter  PROVE G
  <2>1. PICK line \in Lines(framebuffer) : ShellKey("Enter", 0, (Println \o line) \o Println)
    BY <1>6, Zenon DEF Enter, Lines
  <2>2. Whole(line) /\ line \in Seq(CommandOps)
    BY LinesWhole, Zenon
  <2>3. Whole(Println \o line) /\ Println \o line \in Seq(CommandOps)
    BY <2>2, PrintlnWhole, WholeJoin
  <2>4. Whole((Println \o line) \o Println) /\ (Println \o line) \o Println \in Seq(CommandOps)
    BY <2>3, PrintlnWhole, WholeJoin
  <2>5. "Enter" \in Keys
    BY Zenon DEF Keys
  <2> QED  BY <1>4, <2>1, <2>4, <2>5, Zenon DEF ShellKey, At, Continue
<1>7. ASSUME Backspace \/ Char  PROVE G
  <2>1. PICK event \in Keys, r \in {Println, <<>>} :
          /\ Running = "irq" /\ code["irq"] # <<>> /\ Head(code["irq"]) = Do(event)
          /\ code' = [code EXCEPT !["irq"] = r \o Tail(code["irq"])] /\ UNCHANGED holder
    BY <1>7, Zenon DEF Backspace, Char, Keys, ShellKey, At, Continue
  <2>2. <<>> \in Seq(CommandOps)
    OBVIOUS
  <2> QED  BY <1>4, <2>1, <2>2, PrintlnWhole, EmptyWhole, ZenonT(40)
<1>8. ASSUME NotifyEndOfInterrupt  PROVE G
  <2> DEFINE r == IF INITIALIZED THEN NotifyEoi ELSE <<>>
  <2>1. At("irq", Do("notify_eoi")) /\ Continue("irq", r) /\ UNCHANGED holder
    BY <1>8, Zenon DEF NotifyEndOfInterrupt
  <2>2. Turns(Do("notify_eoi"), r, INITIALIZED) /\ Do("notify_eoi") \in StepOps
    BY Zenon DEF Turns, StepOps, Steps
  <2> QED  BY <1>0, <2>1, <2>2, Zenon DEF At, Continue
<1>9. ASSUME NEW n \in Lines8259, InterruptReturn(n)  PROVE G
  <2>1. At("irq", <<"iret", n>>) /\ Continue("irq", <<>>) /\ UNCHANGED holder
    BY <1>9, Zenon DEF InterruptReturn
  <2>2. Turns(<<"iret", n>>, <<>>, INITIALIZED) /\ <<"iret", n>> \in StepOps
    BY OpsDiffer, Zenon DEF Turns, StepOps, Irets
  <2> QED  BY <1>0, <2>1, <2>2, ZenonT(40) DEF At, Continue
<1>10. G
  BY <1>1, <1>2, <1>3, <1>5, <1>6, <1>7, <1>8, <1>9, Zenon DEF HandlerStep
<1> QED
  BY <1>10, Zenon DEF G

(* The steps of main but locking turn into nothing.                        *)
LEMMA MainTurns ==
  ASSUME MainStep, ~ Locking("main")
  PROVE  /\ UNCHANGED holder
         /\ Goes("main", <<>>)
         /\ Head(code["main"]) \in {Do(x) : x \in Steps}
<1>1. PICK x \in Steps : At("main", Do(x)) /\ Continue("main", <<>>) /\ UNCHANGED holder
  BY Zenon DEF MainStep, Steps, RemapPics, EnableInterrupts, SetInitialized, ResetTicks, KeyboardReady, ShellReady,
         AddTasks, RunNextTask, StoreCount, StoreId, SchedulerStep
<1> QED
  BY <1>1, Going, SMTT(40)

(* Locking steps, as steps of code and holder.                             *)
LEMMA LockingTurns ==
  ASSUME NEW c, Locking(c)
  PROVE  /\ Goes(c, <<>>)
         /\ \E l \in Mutexes :
              \/ Head(code[c]) = Lock(l) /\ holder[l] = "free" /\ holder' = [holder EXCEPT ![l] = c]
              \/ Head(code[c]) = Unlock(l) /\ holder' = [holder EXCEPT ![l] = "free"]
         /\ UNCHANGED <<framebuffer, interrupt_flag, devices, flags, len, TICKS, scheduler>>
  BY Going, Zenon DEF Locking, Acquire, Release

(* Every step keeps the mutexes in order.                                  *)
LEMMA LockNext == LockInv /\ [KNext]_kvars => LockInv'
<1> SUFFICES ASSUME LockInv, [KNext]_kvars  PROVE LockInv'
  BY Zenon
<1>0. "main" \in Contexts /\ "irq" \in Contexts
  BY Zenon DEF Contexts
<1>1. ASSUME NEW c \in Contexts, Locking(c)  PROVE LockInv'
  BY <1>1, LockingTurns, AcquireLocks, ReleaseLocks, Zenon DEF Goes
<1>2. CASE MainStep
  <2>1. ASSUME ~ Locking("main")  PROVE LockInv'
    <3>1. UNCHANGED holder /\ Goes("main", <<>>) /\ Head(code["main"]) \in {Do(x) : x \in Steps}
      BY <1>2, <2>1, MainTurns, Zenon
    <3>2. \A l \in Mutexes : Head(code["main"]) # Lock(l) /\ Head(code["main"]) # Unlock(l)
      BY <3>1, OpsDiffer, Zenon
    <3> QED  BY <1>0, <3>1, <3>2, PlainStepLocks, Zenon DEF Goes
  <2> QED  BY <1>0, <1>1, <2>1, Zenon
<1>3. CASE HandlerStep
  <2>1. ASSUME ~ Locking("irq")  PROVE LockInv'
    <3> DEFINE s == code["irq"]
    <3>1. PICK r : UNCHANGED holder /\ Goes("irq", r) /\ Turns(Head(s), r, INITIALIZED)
      BY <1>3, <2>1, HandlerTurns, Zenon
    <3>2. \A l \in Mutexes : Head(s) # Lock(l) /\ Head(s) # Unlock(l)
      BY <1>3, <2>1, HandlerTurns, OpsDiffer, Zenon DEF StepOps, Irets
    <3>3. s \in Seq(Ops) /\ s # <<>> /\ \A l \in Mutexes : Paired(s, l) /\ Apart(s, l)
      BY <1>0, <3>1, Zenon DEF LockInv, Goes
    <3>4. \A l \in Mutexes : Head(s) \in Barriers(l) => ~ Holds(Tail(s), l)
      BY <3>3, TailKeeps, Zenon
    <3>5. Whole(r) /\ \A l \in Mutexes : Holds(Tail(s), l) => \A k \in DOMAIN r : r[k] \notin Barriers(l) /\ r[k] # Lock(l)
      <4>1. CASE r = <<>>
        <5>1. DOMAIN r = {}
          BY <4>1
        <5> QED  BY <4>1, <5>1, EmptyWhole, Zenon
      <4>2. CASE Head(s) \in {Do("on_tick"), Do("on_interrupt"), Do("notify_eoi")} /\ Whole(r)
        <5>1. \A l \in Mutexes : Head(s) \in Barriers(l)
          BY <4>2, Zenon DEF Barriers
        <5> QED  BY <3>4, <4>2, <5>1, Zenon
      <4>3. CASE Head(s) \in {Do(key) : key \in Keys} /\ Whole(r) /\ r \in Seq(CommandOps)
        <5>1. \A l \in Mutexes \ {"SHELL"} : Head(s) \in Barriers(l)
          BY <4>3, Zenon DEF Barriers
        <5>2. \A k \in DOMAIN r : r[k] \notin Barriers("SHELL") /\ r[k] # Lock("SHELL")
          BY <4>3, CommandOpsAre, SMTT(40)
        <5> QED  BY <3>4, <4>3, <5>1, <5>2, Zenon
      <4> QED  BY <3>1, <4>1, <4>2, <4>3, HandlersWhole, Zenon DEF Turns
    <3> QED  BY <1>0, <3>1, <3>2, <3>3, <3>5, StepLocks, Zenon DEF Goes
  <2> QED  BY <1>0, <1>1, <2>1, Zenon
<1>4. ASSUME NEW n \in Lines8259, Deliver(n)  PROVE LockInv'
  <2>1. Whole(Handler(n)) /\ code["irq"] = <<>> /\ code' = [code EXCEPT !["irq"] = Handler(n)] /\ UNCHANGED holder
    BY <1>4, HandlersWhole, Zenon DEF Deliver
  <2>2. /\ code' \in [Contexts -> Seq(Ops)] /\ code'["irq"] = Handler(n)
        /\ \A d \in Contexts \ {"irq"} : code'[d] = code[d]
    BY <1>0, <2>1, Zenon DEF LockInv, Whole
  <2>3. ASSUME NEW l \in Mutexes  PROVE ~ Holds(Handler(n), l) /\ holder[l] # "irq"
    <3>1. DOMAIN <<>> = {}
      OBVIOUS
    <3> QED  BY <1>0, <2>1, <3>1, Zenon DEF LockInv, Holds, Whole, WholeFor
  <2>4. ASSUME NEW d \in Contexts, NEW l \in Mutexes
        PROVE  Paired(code'[d], l) /\ Apart(code'[d], l) /\ (Holds(code'[d], l) <=> holder'[l] = d)
    BY <2>1, <2>2, <2>3, Zenon DEF LockInv, Whole, WholeFor
  <2> QED  BY <2>1, <2>2, <2>4, Zenon DEF LockInv, Paired, Apart, Holds
<1>5. CASE TimerFires \/ KeyPressed \/ UNCHANGED kvars
  <2>1. UNCHANGED <<code, holder>>
    BY <1>5, Zenon DEF TimerFires, KeyPressed, kvars, cpu
  <2> QED  BY <2>1 DEF LockInv, Paired, Apart, Holds
<1> QED
  BY <1>2, <1>3, <1>4, <1>5, Zenon DEF KNext

(* At the start nobody holds a mutex, and main has all of boot ahead.      *)
LEMMA LockInit == KInit => LockInv
<1> SUFFICES ASSUME KInit  PROVE LockInv
  BY Zenon
<1>1. /\ Whole(Boot(framebuffer)) /\ Whole(<<>>)
      /\ code = [main |-> Boot(framebuffer), irq |-> <<>>] /\ holder = [l \in Mutexes |-> "free"]
  BY BootWhole, EmptyWhole, Zenon DEF KInit
<1>2. code \in [Contexts -> Seq(Ops)] /\ \A c \in Contexts : Whole(code[c])
  <2>1. Boot(framebuffer) \in Seq(Ops) /\ <<>> \in Seq(Ops)
    BY <1>1, Zenon DEF Whole
  <2>2. code["main"] = Boot(framebuffer) /\ code["irq"] = <<>> /\ DOMAIN code = {"main", "irq"}
    BY <1>1, Zenon
  <2>3. code = [c \in {"main", "irq"} |-> code[c]]
    BY <1>1, Zenon
  <2> QED  BY <1>1, <2>1, <2>2, <2>3, Zenon DEF Contexts
<1>3. holder \in [Mutexes -> Contexts \cup {"free"}] /\ \A c \in Contexts, l \in Mutexes : holder[l] # c
  BY <1>1, Zenon DEF Contexts
<1> QED
  BY <1>2, <1>3, Zenon DEF LockInv, Whole, WholeFor

(* The mutexes are always in order.                                        *)
LEMMA LockInvariance == KSpec => []LockInv
  BY LockInit, LockNext, PTL DEF KSpec

(* Whoever is about to take a mutex does not hold it.                      *)
LEMMA WantsNotHeld ==
  ASSUME LockInv, NEW c \in Contexts, NEW l \in Mutexes, Wants(c, l)
  PROVE  holder[l] # c
<1>1. code[c] \in Seq(Ops) /\ code[c] # <<>> /\ Paired(code[c], l) /\ Apart(code[c], l) /\ Head(code[c]) = Lock(l)
  BY Zenon DEF LockInv, Wants
<1>2. ~ Holds(code[c], l)
  BY <1>1, TailKeeps, Zenon
<1> QED
  BY <1>2, Zenon DEF LockInv

(* For any tasks, line length and framebuffer, no context ever waits for a *)
(* mutex that it holds itself.                                             *)
THEOREM NeverReentered == KSpec => []LocksNotReentered
<1>1. LockInv => LocksNotReentered
  BY WantsNotHeld, Zenon DEF LocksNotReentered
<1> QED
  BY <1>1, LockInvariance, PTL

(* Nothing but an unfinished boot ever makes a handler wait.               *)
THEOREM StuckOnlyInBoot == KSpec => []StuckOnlyWhileBooting
<1>1. LockInv => StuckOnlyWhileBooting
  <2> SUFFICES ASSUME LockInv, NEW l \in Mutexes, Wants("irq", l), holder[l] # "free"
               PROVE  holder[l] = "main" /\ code["main"] # <<>>
    BY Zenon DEF StuckOnlyWhileBooting, Booted
  <2>1. holder[l] = "main"
    BY WantsNotHeld, Zenon DEF LockInv, Contexts
  <2>2. Holds(code["main"], l)
    BY <2>1, Zenon DEF LockInv, Contexts
  <2>3. DOMAIN <<>> = {}
    OBVIOUS
  <2> QED  BY <2>1, <2>2, <2>3, Zenon DEF Holds
<1> QED
  BY <1>1, LockInvariance, PTL

-----------------------------------------------------------------------------
(* Ending interrupts                                                       *)

\* What ends an interrupt, or is to be replaced by that
EoiOps == {Do("notify_eoi"), Do("eoi")}

\* Code of the handler of line n: the return comes last, after at most one end of interrupt
HandlerOf(s, n) ==
  /\ s # <<>> /\ s[Len(s)] = <<"iret", n>>
  /\ \A k \in DOMAIN s : s[k] \in Irets => k = Len(s)
  /\ \A j, k \in DOMAIN s : s[j] \in EoiOps /\ s[k] \in EoiOps => j = k

\* The interrupt is still to be ended.
EoiAhead(s) == \E k \in DOMAIN s : s[k] \in EoiOps

\* The line is in service, and the highest one that is, until its handler has said so.
ServiceInv ==
  /\ isr \subseteq Lines8259
  /\ code["irq"] # <<>> =>
       \E n \in Lines8259 :
         /\ HandlerOf(code["irq"], n)
         /\ INITIALIZED => IF EoiAhead(code["irq"]) THEN n \in isr /\ \A m \in isr : n <= m ELSE n \notin isr

(* What the steps turn into contains no return, and no end of interrupt    *)
(* unless they were to end it.                                             *)
LEMMA TurnsQuietly ==
  ASSUME NEW op, NEW r, NEW initialized, Turns(op, r, initialized)
  PROVE  /\ r \in Seq(Ops) /\ \A k \in DOMAIN r : r[k] \notin Irets
         /\ op = Do("notify_eoi") => r = NotifyEoi \/ (r = <<>> /\ ~ initialized)
         /\ op # Do("notify_eoi") => \A k \in DOMAIN r : r[k] \notin EoiOps
<1> DEFINE Quiet == Ops \ (Irets \cup EoiOps)
<1>1. CommandOps \subseteq Quiet /\ \A l \in Mutexes : Lock(l) \in Quiet /\ Unlock(l) \in Quiet
  BY CommandOpsAre, OpsDiffer, Zenon DEF EoiOps, Irets, Ops
<1>2. \A x \in Keys \cup {"run_next", "store_id"} : Do(x) \in Quiet
  BY OpsDiffer, Zenon DEF EoiOps, Irets, Ops, Keys, Steps
<1>3. {"SERIAL", "SCHEDULER", "SHIFT_PRESSED", "SHELL", "PICS"} \subseteq Mutexes
  BY Zenon DEF Mutexes
<1> HIDE DEF Quiet
<1>4. Println \in Seq(Quiet)
  BY <1>1, PrintlnWhole, SeqWider, Zenon
<1>5. ASSUME NEW report \in BOOLEAN  PROVE OnTick(report) \in Seq(Quiet)
  <2>1. SchedulerTick \in Seq(Quiet)
    BY <1>1, <1>2, <1>3 DEF SchedulerTick, Guarded
  <2> QED  BY <1>4, <2>1 DEF OnTick
<1>6. ASSUME NEW scancode \in Scancodes  PROVE OnScancode(scancode) \in Seq(Quiet)
  <2>1. Guarded("SHIFT_PRESSED", <<>>) \in Seq(Quiet)
    BY <1>1, <1>3 DEF Guarded
  <2>2. \A key \in Keys : Guarded("SHELL", <<Do(key)>>) \in Seq(Quiet)
    BY <1>1, <1>2, <1>3 DEF Guarded
  <2> QED  BY <2>1, <2>2 DEF OnScancode, Scancodes, Keys
<1>7. NotifyEoi \in Seq(Ops \ Irets)
  <2>1. {Lock("PICS"), Unlock("PICS"), Do("eoi")} \subseteq Ops \ Irets
    BY <1>3, OpsDiffer, Zenon DEF Ops, Irets, Steps
  <2> QED  BY <2>1 DEF NotifyEoi, Guarded
<1>8. ASSUME NEW s \in Seq(Quiet)  PROVE s \in Seq(Ops) /\ \A k \in DOMAIN s : s[k] \notin Irets /\ s[k] \notin EoiOps
  <2>1. Quiet \subseteq Ops /\ \A x \in Quiet : x \notin Irets /\ x \notin EoiOps
    BY Zenon DEF Quiet
  <2>2. \A k \in DOMAIN s : s[k] \in Quiet
    OBVIOUS
  <2> QED  BY <2>1, <2>2, SeqWider, Zenon
<1>9. NotifyEoi \in Seq(Ops) /\ \A k \in DOMAIN NotifyEoi : NotifyEoi[k] \notin Irets
  BY <1>7, SeqWider
<1>10. CASE r = <<>>
  <2>1. DOMAIN r = {} /\ r \in Seq(Ops)
    BY <1>10, SMTT(40)
  <2>2. \A x \in Keys \cup {"on_tick", "on_interrupt"} : Do(x) # Do("notify_eoi")
    BY OpsDiffer, Zenon DEF Keys
  <2>3. op = Do("notify_eoi") => r = NotifyEoi \/ ~ initialized
    BY <2>2, Zenon DEF Turns
  <2> QED  BY <1>10, <2>1, <2>3, Zenon
<1>11. CASE op # Do("notify_eoi") /\ r \in Seq(Quiet)
  BY <1>8, <1>11, Zenon
<1>12. CASE op = Do("notify_eoi") /\ r = NotifyEoi
  BY <1>9, <1>12, Zenon
<1>13. r = <<>> \/ (op # Do("notify_eoi") /\ r \in Seq(Quiet)) \/ (op = Do("notify_eoi") /\ r = NotifyEoi)
  <2>1. \A x \in Keys \cup {"on_tick", "on_interrupt"} : Do(x) # Do("notify_eoi")
    BY OpsDiffer, Zenon DEF Keys
  <2>2. r \in Seq(CommandOps) => r \in Seq(Quiet)
    BY <1>1, SeqWider, Zenon
  <2> QED  BY <1>5, <1>6, <2>1, <2>2, Zenon DEF Turns
<1> QED
  BY <1>10, <1>11, <1>12, <1>13, Zenon

(* A handler's code after one of its operations has been replaced.         *)
LEMMA HandlerGoes ==
  ASSUME NEW s \in Seq(Ops), NEW n \in Lines8259, HandlerOf(s, n), Head(s) \notin Irets,
         NEW r \in Seq(Ops), \A k \in DOMAIN r : r[k] \notin Irets,
         \/ Head(s) \notin EoiOps /\ \A k \in DOMAIN r : r[k] \notin EoiOps
         \/ Head(s) \in EoiOps /\ \A j, k \in DOMAIN r : r[j] \in EoiOps /\ r[k] \in EoiOps => j = k
  PROVE  /\ HandlerOf(r \o Tail(s), n)
         /\ Head(s) \notin EoiOps => (EoiAhead(r \o Tail(s)) <=> EoiAhead(s))
         /\ Head(s) \in EoiOps => EoiAhead(s) /\ (EoiAhead(r \o Tail(s)) <=> EoiAhead(r))
<1> DEFINE t == r \o Tail(s)  p == Len(r)  q == Len(s)
<1>1. /\ p \in Nat /\ q \in Nat \ {0} /\ DOMAIN r = 1 .. p /\ DOMAIN s = 1 .. q /\ Head(s) = s[1]
      /\ t \in Seq(Ops) /\ Len(t) = p + q - 1 /\ DOMAIN t = 1 .. p + q - 1
  BY DEF HandlerOf
<1>2. \A k \in 1 .. p : k \in 1 .. p + q - 1 /\ t[k] = r[k]
  BY <1>1
<1>3. \A k \in 2 .. q : p + k - 1 \in 1 .. p + q - 1 /\ t[p + k - 1] = s[k]
  BY <1>1
<1>4. \A k \in 1 .. p + q - 1 : k > p => k - p + 1 \in 2 .. q /\ t[k] = s[k - p + 1]
  BY <1>1, SMTT(40)
<1>5. s[q] = <<"iret", n>> /\ \A k \in 1 .. q : s[k] \in Irets => k = q
  BY <1>1, Zenon DEF HandlerOf
<1>6. \A j, k \in 1 .. q : s[j] \in EoiOps /\ s[k] \in EoiOps => j = k
  BY <1>1, Zenon DEF HandlerOf
<1> HIDE DEF t, p, q
<1>7. q > 1
  <2>1. <<"iret", n>> \in Irets
    BY Zenon DEF Irets
  <2>2. SUFFICES ASSUME q = 1  PROVE FALSE
    BY <1>1
  <2>3. Head(s) = s[q]
    BY <1>1, <2>2, Zenon
  <2> QED  BY <1>5, <2>1, <2>3, Zenon
<1>8. t # <<>> /\ t[p + q - 1] = <<"iret", n>>
  BY <1>1, <1>3, <1>5, <1>7
<1>9. ASSUME NEW k \in 1 .. p + q - 1, t[k] \in Irets  PROVE k = p + q - 1
  <2>1. CASE k <= p
    BY <1>1, <1>2, <1>9, <2>1, SMTT(40)
  <2>2. CASE k > p
    <3>1. k - p + 1 \in 1 .. q /\ s[k - p + 1] \in Irets
      BY <1>1, <1>4, <1>9, <2>2
    <3> QED  BY <1>1, <1>5, <3>1
  <2> QED  BY <1>1, <2>1, <2>2
<1>10. ASSUME NEW j \in 1 .. p + q - 1, NEW k \in 1 .. p + q - 1, t[j] \in EoiOps, t[k] \in EoiOps  PROVE j = k
  <2>1. CASE Head(s) \notin EoiOps /\ \A i \in 1 .. p : r[i] \notin EoiOps
    <3>1. j > p /\ k > p
      BY <1>1, <1>2, <1>10, <2>1, SMTT(40)
    <3>2. j - p + 1 \in 1 .. q /\ k - p + 1 \in 1 .. q /\ s[j - p + 1] \in EoiOps /\ s[k - p + 1] \in EoiOps
      BY <1>1, <1>4, <1>10, <3>1, SMTT(40)
    <3>3. j - p + 1 = k - p + 1
      BY <1>6, <3>2, Zenon
    <3> QED  BY <1>1, <3>3, SMTT(40)
  <2>2. CASE s[1] \in EoiOps /\ \A i, m \in 1 .. p : r[i] \in EoiOps /\ r[m] \in EoiOps => i = m
    <3>1. ASSUME NEW i \in 1 .. p + q - 1, t[i] \in EoiOps  PROVE i <= p
      <4>1. SUFFICES ASSUME i > p  PROVE FALSE
        BY <1>1, SMTT(40)
      <4>2. i - p + 1 \in 2 .. q /\ s[i - p + 1] \in EoiOps
        BY <1>4, <3>1, <4>1, Zenon
      <4>3. i - p + 1 = 1
        BY <1>1, <1>6, <2>2, <4>2, SMTT(40)
      <4> QED  BY <1>1, <4>2, <4>3
    <3>2. j \in 1 .. p /\ k \in 1 .. p
      BY <1>1, <1>10, <3>1
    <3> QED  BY <1>2, <1>10, <2>2, <3>2, Zenon
  <2> QED  BY <1>1, <2>1, <2>2, Zenon
<1>11. HandlerOf(t, n)
  BY <1>1, <1>8, <1>9, <1>10, Zenon DEF HandlerOf
<1>12. ASSUME Head(s) \notin EoiOps  PROVE EoiAhead(t) <=> EoiAhead(s)
  <2>1. ASSUME NEW k \in 1 .. q, s[k] \in EoiOps  PROVE EoiAhead(t)
    <3>1. k \in 2 .. q
      BY <1>1, <1>12, <2>1
    <3> QED  BY <1>1, <1>3, <2>1, <3>1, ZenonT(40) DEF EoiAhead
  <2>2. ASSUME NEW k \in 1 .. p + q - 1, t[k] \in EoiOps  PROVE EoiAhead(s)
    <3>1. k > p
      BY <1>1, <1>2, <1>12, <2>2, SMTT(40)
    <3>2. k - p + 1 \in 1 .. q /\ s[k - p + 1] \in EoiOps
      BY <1>1, <1>4, <2>2, <3>1, SMTT(40)
    <3> QED  BY <1>1, <3>2, Zenon DEF EoiAhead
  <2> QED  BY <1>1, <2>1, <2>2, Zenon DEF EoiAhead
<1>13. ASSUME Head(s) \in EoiOps  PROVE EoiAhead(s) /\ (EoiAhead(t) <=> EoiAhead(r))
  <2>1. EoiAhead(s)
    BY <1>1, <1>13 DEF EoiAhead
  <2>2. ASSUME NEW k \in 1 .. p, r[k] \in EoiOps  PROVE EoiAhead(t)
    BY <1>1, <1>2, <2>2, Zenon DEF EoiAhead
  <2>3. ASSUME NEW k \in 1 .. p + q - 1, t[k] \in EoiOps  PROVE EoiAhead(r)
    <3>1. k <= p
      <4>1. SUFFICES ASSUME k > p  PROVE FALSE
        BY <1>1
      <4>2. k - p + 1 \in 2 .. q /\ s[k - p + 1] \in EoiOps
        BY <1>4, <2>3, <4>1, Zenon
      <4>3. k - p + 1 = 1
        BY <1>1, <1>6, <1>13, <4>2
      <4> QED  BY <1>1, <4>2, <4>3
    <3> QED  BY <1>1, <1>2, <2>3, <3>1 DEF EoiAhead
  <2> QED  BY <1>1, <2>1, <2>2, <2>3, Zenon DEF EoiAhead
<1> QED
  BY <1>11, <1>12, <1>13, Zenon DEF t

(* Every step keeps a handler's own line the one that its EOI will end.    *)
LEMMA ServiceNext == LockInv /\ ServiceInv /\ [KNext]_kvars => ServiceInv'
<1> SUFFICES ASSUME LockInv, ServiceInv, [KNext]_kvars  PROVE ServiceInv'
  BY Zenon
<1> DEFINE s == code["irq"]
<1>0. s \in Seq(Ops) /\ "irq" \in DOMAIN code /\ "main" \in DOMAIN code
  BY Zenon DEF LockInv, Contexts
<1>1. CASE MainStep
  <2>1. s = <<>> /\ code'["irq"] = s /\ isr' \subseteq isr
    <3>1. s = <<>>
      <4>1. Goes("main", <<>>)
        BY <1>1, MainTurns, LockingTurns, Zenon
      <4> QED  BY <4>1, Zenon DEF Goes, Running
    <3>2. code'["irq"] = s
      <4>1. Goes("main", <<>>)
        BY <1>1, MainTurns, LockingTurns, Zenon
      <4> QED  BY <1>0, <4>1, Zenon DEF Goes
    <3>3. isr' \subseteq isr
      BY <1>1, Zenon DEF MainStep, Locking, Acquire, Release, RemapPics, EnableInterrupts, SetInitialized, ResetTicks,
                  KeyboardReady, ShellReady, AddTasks, RunNextTask, StoreCount, StoreId, SchedulerStep, devices
    <3> QED  BY <3>1, <3>2, <3>3, Zenon
  <2> QED  BY <2>1, Zenon DEF ServiceInv
<1>2. CASE HandlerStep
  <2>1. s # <<>> /\ INITIALIZED' = INITIALIZED
    <3>1. s # <<>>
      BY <1>2, HandlerTurns, LockingTurns, Zenon DEF Goes
    <3> QED
      BY <1>2, <3>1, Zenon DEF HandlerStep, Locking, Acquire, Release, CountTick, RunNextTask, StoreId, SchedulerStep, IgnoreKey,
                  ReadKey, KeyBeforeShell, Enter, Backspace, Char, ShellKey, NotifyEndOfInterrupt, EndOfInterrupt,
                  InterruptReturn, flags
  <2>2. PICK n \in Lines8259 :
          /\ HandlerOf(s, n)
          /\ INITIALIZED => IF EoiAhead(s) THEN n \in isr /\ \A m \in isr : n <= m ELSE n \notin isr
    BY <2>1, Zenon DEF ServiceInv
  <2>3. isr' = IF Head(s) = Do("eoi") THEN isr \ Highest(isr) ELSE isr
    BY <1>2, OpsDiffer, Zenon
       DEF HandlerStep, Locking, Acquire, Release, CountTick, RunNextTask, StoreId, SchedulerStep, IgnoreKey,
           ReadKey, KeyBeforeShell, Enter, Backspace, Char, ShellKey, NotifyEndOfInterrupt, EndOfInterrupt,
           InterruptReturn, devices, At
  <2>4. PICK r \in Seq(Ops) :
          /\ code'["irq"] = r \o Tail(s)
          /\ \A k \in DOMAIN r : r[k] \notin Irets
          /\ Head(s) = Do("notify_eoi") => r = NotifyEoi \/ (r = <<>> /\ ~ INITIALIZED)
          /\ Head(s) = Do("eoi") => r = <<>>
          /\ Head(s) \notin EoiOps => \A k \in DOMAIN r : r[k] \notin EoiOps
          /\ Head(s) \in Irets => r = <<>>
    <3>1. CASE Locking("irq")
      <4>1. code'["irq"] = <<>> \o Tail(s)
        BY <1>0, <3>1, LockingTurns, Zenon DEF Goes
      <4>2. Head(s) # Do("notify_eoi")
        BY <3>1, LockingTurns, OpsDiffer, Zenon
      <4>3. <<>> \in Seq(Ops) /\ DOMAIN <<>> = {}
        OBVIOUS
      <4> QED  BY <4>1, <4>2, <4>3, Zenon
    <3>2. CASE ~ Locking("irq")
      <4>1. PICK r : Goes("irq", r) /\ Turns(Head(s), r, INITIALIZED)
        BY <1>2, <3>2, HandlerTurns, Zenon
      <4>2. code'["irq"] = r \o Tail(s)
        BY <1>0, <4>1, Zenon DEF Goes
      <4>3. /\ r \in Seq(Ops) /\ \A k \in DOMAIN r : r[k] \notin Irets
            /\ Head(s) = Do("notify_eoi") => r = NotifyEoi \/ (r = <<>> /\ ~ INITIALIZED)
            /\ Head(s) # Do("notify_eoi") => \A k \in DOMAIN r : r[k] \notin EoiOps
        BY <4>1, TurnsQuietly, Zenon
      <4>4. Head(s) = Do("eoi") \/ Head(s) \in Irets => r = <<>>
        BY <4>1, OpsDiffer, Zenon DEF Turns, Irets, Keys
      <4> QED  BY <4>2, <4>3, <4>4, Zenon DEF EoiOps
    <3> QED  BY <3>1, <3>2, Zenon
  <2> DEFINE t == r \o Tail(s)
  <2>5. isr' \subseteq Lines8259
    BY <2>3, Zenon DEF ServiceInv
  <2>6. CASE Head(s) \in Irets
    <3>1. Len(s) = 1
      <4>1. 1 \in DOMAIN s /\ s[1] \in Irets
        BY <1>0, <2>1, <2>6
      <4> QED  BY <2>2, <4>1, Zenon DEF HandlerOf
    <3>2. t = <<>>
      BY <1>0, <2>4, <2>6, <3>1
    <3> QED  BY <2>4, <2>5, <3>2, Zenon DEF ServiceInv
  <2>7. CASE Head(s) \notin Irets /\ Head(s) \notin EoiOps
    <3>1. HandlerOf(t, n) /\ (EoiAhead(t) <=> EoiAhead(s))
      BY <1>0, <2>2, <2>4, <2>7, HandlerGoes, Zenon
    <3>2. isr' = isr
      BY <2>3, <2>7, Zenon DEF EoiOps
    <3> QED  BY <2>1, <2>2, <2>4, <2>5, <3>1, <3>2, ZenonT(40) DEF ServiceInv, HandlerOf, EoiAhead
  <2>8. CASE Head(s) = Do("notify_eoi")
    <3>1. Head(s) \notin Irets /\ Head(s) \in EoiOps
      BY <2>8, OpsDiffer, Zenon DEF Irets, EoiOps
    <3>2. /\ \A j, k \in DOMAIN r : r[j] \in EoiOps /\ r[k] \in EoiOps => j = k
          /\ INITIALIZED => EoiAhead(r)
      <4>1. CASE r = <<>> /\ ~ INITIALIZED
        <5>1. DOMAIN r = {}
          BY <4>1
        <5> QED  BY <4>1, <5>1, Zenon
      <4>2. CASE r = NotifyEoi
        <5>1. DOMAIN r = 1 .. 3 /\ r[1] = Lock("PICS") /\ r[2] = Do("eoi") /\ r[3] = Unlock("PICS")
          BY <4>2 DEF NotifyEoi, Guarded
        <5>2. r[1] \notin EoiOps /\ r[2] \in EoiOps /\ r[3] \notin EoiOps
          BY <5>1, OpsDiffer, Zenon DEF EoiOps
        <5> QED  BY <5>1, <5>2 DEF EoiAhead
      <4> QED  BY <2>4, <2>8, <4>1, <4>2, Zenon
    <3>3. HandlerOf(t, n) /\ EoiAhead(s) /\ (EoiAhead(t) <=> EoiAhead(r))
      BY <1>0, <2>2, <2>4, <3>1, <3>2, HandlerGoes, Zenon
    <3>4. isr' = isr
      BY <2>3, <2>8, OpsDiffer, Zenon
    <3> QED  BY <2>1, <2>2, <2>4, <2>5, <3>2, <3>3, <3>4, ZenonT(40) DEF ServiceInv, HandlerOf, EoiAhead
  <2>9. CASE Head(s) = Do("eoi")
    <3>1. Head(s) \notin Irets /\ Head(s) \in EoiOps
      BY <2>9, OpsDiffer, Zenon DEF Irets, EoiOps
    <3>2. r = <<>> /\ DOMAIN r = {}
      BY <2>4, <2>9
    <3>3. HandlerOf(t, n) /\ EoiAhead(s) /\ ~ EoiAhead(t)
      <4>1. HandlerOf(t, n) /\ EoiAhead(s) /\ (EoiAhead(t) <=> EoiAhead(r))
        BY <1>0, <2>2, <2>4, <3>1, <3>2, HandlerGoes, Zenon
      <4> QED  BY <3>2, <4>1, Zenon DEF EoiAhead
    <3>4. INITIALIZED => n \notin isr'
      BY <2>2, <2>3, <2>9, <3>3, Zenon DEF Highest
    <3> QED  BY <2>1, <2>2, <2>4, <2>5, <3>3, <3>4, ZenonT(40) DEF ServiceInv, HandlerOf, EoiAhead
  <2> QED  BY <2>6, <2>7, <2>8, <2>9, Zenon DEF EoiOps
<1>3. ASSUME NEW n \in Lines8259, Deliver(n)  PROVE ServiceInv'
  <2>1. /\ isr' = isr \cup {n} /\ code'["irq"] = Handler(n) /\ (\A m \in isr : n < m) /\ INITIALIZED' = INITIALIZED
    BY <1>0, <1>3, Zenon DEF Deliver, flags
  <2>2. HandlerOf(Handler(n), n) /\ EoiAhead(Handler(n))
    <3>1. PICK h \in {Do("on_tick"), Do("on_interrupt")} : Handler(n) = <<h, Do("notify_eoi"), <<"iret", n>>>>
      BY Zenon DEF Handler, TimerHandler, KeyboardHandler, Lines8259
    <3> DEFINE t == <<h, Do("notify_eoi"), <<"iret", n>>>>
    <3>2. DOMAIN t = 1 .. 3 /\ Len(t) = 3 /\ t # <<>> /\ t[1] = h /\ t[2] = Do("notify_eoi") /\ t[3] = <<"iret", n>>
      BY SMTT(40)
    <3>3. t[1] \notin Irets \cup EoiOps /\ t[2] \notin Irets /\ t[2] \in EoiOps /\ t[3] \notin EoiOps
      BY <3>1, <3>2, OpsDiffer, Zenon DEF Irets, EoiOps
    <3> HIDE DEF t
    <3>4. HandlerOf(t, n) /\ EoiAhead(t)
      BY <3>2, <3>3 DEF HandlerOf, EoiAhead
    <3> QED  BY <3>1, <3>4, Zenon DEF t
  <2>3. isr' \subseteq Lines8259 /\ n \in isr' /\ \A m \in isr' : n <= m
    BY <2>1, SMTT(40) DEF ServiceInv, Lines8259
  <2> QED  BY <2>1, <2>2, <2>3, Zenon DEF ServiceInv, HandlerOf, EoiAhead
<1>4. CASE TimerFires \/ KeyPressed \/ UNCHANGED kvars
  <2>1. UNCHANGED <<code, isr, INITIALIZED>>
    BY <1>4, Zenon DEF TimerFires, KeyPressed, kvars, cpu, devices, flags
  <2> QED  BY <2>1, Zenon DEF ServiceInv, HandlerOf, EoiAhead
<1> QED
  BY <1>1, <1>2, <1>3, <1>4, Zenon DEF KNext

(* Before the first interrupt no line is in service.                       *)
LEMMA ServiceInit == KInit => ServiceInv
  BY DEF KInit, ServiceInv

(* Once INITIALIZED is set, every handler that returns has ended its own   *)
(* interrupt, whatever else was in service when it came.                   *)
THEOREM HandlersEndTheirs == KSpec => HandlersEndTheirInterrupt
<1> DEFINE A == \A n \in Lines8259 : InterruptReturn(n) /\ INITIALIZED => n \notin isr'
<1>1. LockInv /\ ServiceInv /\ [KNext]_kvars => [A]_kvars
  <2> SUFFICES ASSUME LockInv, ServiceInv, NEW n \in Lines8259, InterruptReturn(n), INITIALIZED  PROVE n \notin isr'
    BY Zenon
  <2> DEFINE s == code["irq"]
  <2>1. s \in Seq(Ops) /\ s # <<>> /\ Head(s) = <<"iret", n>> /\ isr' = isr
    BY Zenon DEF LockInv, Contexts, InterruptReturn, At, devices
  <2>2. PICK m \in Lines8259 : HandlerOf(s, m) /\ (~ EoiAhead(s) => m \notin isr)
    BY <2>1, Zenon DEF ServiceInv
  <2>3. s[1] = <<"iret", n>> /\ DOMAIN s = 1 .. Len(s) /\ Len(s) \in Nat \ {0} /\ <<"iret", n>> \in Irets
    BY <2>1, SMTT(40) DEF Irets
  <2>4. Len(s) = 1 /\ m = n
    <3>1. Len(s) = 1
      <4>1. 1 \in DOMAIN s /\ s[1] \in Irets
        BY <2>3, SMTT(40)
      <4> QED  BY <2>2, <4>1, Zenon DEF HandlerOf
    <3> QED  BY <2>2, <2>3, <3>1, OpsDiffer, Zenon DEF HandlerOf
  <2>5. ~ EoiAhead(s)
    BY <2>3, <2>4, OpsDiffer DEF EoiAhead, EoiOps
  <2> QED  BY <2>1, <2>2, <2>4, <2>5, Zenon
<1>2. KSpec => [](LockInv /\ ServiceInv)
  BY LockInit, LockNext, ServiceInit, ServiceNext, PTL DEF KSpec
<1> QED
  BY <1>1, <1>2, PTL DEF KSpec, HandlersEndTheirInterrupt
=============================================================================
