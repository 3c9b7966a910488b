---------------------------- MODULE Content_proofs ----------------------------
(***************************************************************************)
(* Proofs about what is done with content, whose definitions count.        *)
(*   - Media, for any qualities and any answers of the server: what is     *)
(*     delivered is the best it would give.                                *)
(*   - Qmc, for any key, sizes of segments and skips: a file decrypted in  *)
(*     pieces is the file decrypted at once.                               *)
(*   - MqttPackets, for any radix, bodies and messages: the packets that   *)
(*     are read are those that were sent.                                  *)
(*   - Lyrics, for any rows and tags: the line shown is the last that has  *)
(*     begun, and two lines of the player are not shown at once.           *)
(***************************************************************************)
EXTENDS Media, MqttPackets, Qmc, Lyrics, SequenceTheorems, WellFoundedInduction, TLAPS

-----------------------------------------------------------------------------
\* Counting

\* Induction on a number, for a set: the prover takes sets, no predicates.
LEMMA FromZero ==
    ASSUME NEW T, T \subseteq Nat, \A n \in Nat : (\A m \in 0 .. n - 1 : m \in T) => n \in T
    PROVE  T = Nat
<1> DEFINE Less == {ss \in Nat \X Nat : ss[1] < ss[2]}
<1>1. IsWellFoundedOn(Less, Nat)
  BY NatLessThanWellFounded DEF OpToRel
<1>2. \A x, y \in Nat : y < x => <<y, x>> \in Less
  OBVIOUS
<1> HIDE DEF Less
<1>3. SUFFICES ASSUME Nat \ T # {} PROVE FALSE
  OBVIOUS
<1>4. PICK x \in Nat \ T : \A y \in Nat \ T : ~ (<<y, x>> \in Less)
  BY <1>1, <1>3, WFMin
<1>5. \A m \in 0 .. x - 1 : m \in T
  <2>1. ASSUME NEW m \in 0 .. x - 1 PROVE m \in T
    <3>1. m \in Nat /\ m < x
      BY <1>4
    <3>2. QED
      BY <1>2, <1>4, <3>1
  <2>2. QED
    BY <2>1
<1>6. QED
  BY <1>4, <1>5

\* Every set of numbers that is not empty has a least one.
LEMMA Least ==
    ASSUME NEW T, T \subseteq Nat, T # {}
    PROVE  \E x \in T : \A y \in T : x <= y
<1> DEFINE Below == {ss \in Nat \X Nat : ss[1] < ss[2]}
<1>1. IsWellFoundedOn(Below, Nat)
  BY NatLessThanWellFounded DEF OpToRel
<1>2. \A x, y \in Nat : <<y, x>> \notin Below => x <= y
  OBVIOUS
<1> HIDE DEF Below
<1>3. \E x \in T : \A y \in T : ~ (<<y, x>> \in Below)
  BY <1>1, WFMin
<1>4. QED
  BY <1>2, <1>3

\* Min of FiniteSetsExt is what it says.
LEMMA MinIsLeast ==
    ASSUME NEW T, T \subseteq Nat, T # {}
    PROVE  Min(T) \in T /\ \A y \in T : Min(T) <= y
<1>1. \E x \in T : \A y \in T : x <= y
  BY Least
<1>2. QED
  BY <1>1 DEF Min

-----------------------------------------------------------------------------
\* Definitions by recursion

\* The values of g up to n are what the step makes of those before.
SolvedTo(n, g, A, step) ==
    /\ g \in [Nat -> A]
    /\ \A m \in 0 .. n - 1 : g[m] = step[<<m, g>>]

\* A step that looks at smaller numbers only has a function that solves it: the
\* provers take a step that is a function, no operator.
LEMMA Recursion ==
    ASSUME NEW A, A # {}, NEW step \in [Nat \X [Nat -> A] -> A],
           \A n \in Nat : \A g, h \in [Nat -> A] :
               (\A m \in 0 .. n - 1 : g[m] = h[m]) => step[<<n, g>>] = step[<<n, h>>]
    PROVE  \E f \in [Nat -> A] : \A n \in Nat : f[n] = step[<<n, f>>]
<1>1. ASSUME NEW n \in Nat, NEW g, NEW h, SolvedTo(n, g, A, step), SolvedTo(n, h, A, step)
      PROVE  \A m \in 0 .. n - 1 : g[m] = h[m]
  <2> DEFINE Same == {m \in Nat : m < n => g[m] = h[m]}
  <2>1. ASSUME NEW m \in Nat, \A k \in 0 .. m - 1 : k \in Same PROVE m \in Same
    <3> SUFFICES ASSUME m < n PROVE g[m] = h[m]
      OBVIOUS
    <3>1. \A k \in 0 .. m - 1 : g[k] = h[k]
      BY <2>1
    <3>2. g \in [Nat -> A] /\ h \in [Nat -> A] /\ g[m] = step[<<m, g>>] /\ h[m] = step[<<m, h>>]
      BY <1>1 DEF SolvedTo
    <3>3. QED
      BY <3>1, <3>2
  <2> HIDE DEF Same
  <2>2. Same = Nat
    <3>1. Same \subseteq Nat
      BY DEF Same
    <3>2. QED
      BY <2>1, <3>1, FromZero
  <2>3. QED
    BY <2>2 DEF Same
<1> DEFINE Solved == {n \in Nat : \E g : SolvedTo(n, g, A, step)}
<1>2. ASSUME NEW n \in Nat, \A m \in 0 .. n - 1 : m \in Solved PROVE n \in Solved
  <2>1. CASE n = 0
    <3>1. PICK a \in A : TRUE
      OBVIOUS
    <3>2. SolvedTo(0, [m \in Nat |-> a], A, step)
      BY DEF SolvedTo
    <3>3. QED
      BY <2>1, <3>2
  <2>2. CASE n # 0
    <3>1. n - 1 \in 0 .. n - 1
      BY <2>2
    <3>2. PICK g : SolvedTo(n - 1, g, A, step)
      BY <1>2, <3>1
    <3>3. g \in [Nat -> A] /\ \A m \in 0 .. n - 2 : g[m] = step[<<m, g>>]
      BY <3>1, <3>2 DEF SolvedTo
    <3> DEFINE h == [g EXCEPT ![n - 1] = step[<<n - 1, g>>]]
    <3>4. step[<<n - 1, g>>] \in A
      BY <3>1, <3>3
    <3>5. h \in [Nat -> A] /\ h[n - 1] = step[<<n - 1, g>>] /\ \A m \in Nat : m # n - 1 => h[m] = g[m]
      BY <3>1, <3>3, <3>4
    <3> HIDE DEF h
    <3>6. ASSUME NEW m \in 0 .. n - 1 PROVE h[m] = step[<<m, h>>]
      <4>1. m \in Nat /\ \A k \in 0 .. m - 1 : g[k] = h[k]
        <5>1. \A k \in 0 .. m - 1 : k \in Nat /\ k # n - 1
          OBVIOUS
        <5>2. QED
          BY <3>5, <5>1
      <4>2. step[<<m, g>>] = step[<<m, h>>]
        BY <3>3, <3>5, <4>1
      <4>3. h[m] = step[<<m, g>>]
        <5>1. CASE m = n - 1
          BY <3>5, <5>1
        <5>2. CASE m # n - 1
          <6>1. m \in 0 .. n - 2
            BY <5>2
          <6>2. QED
            BY <3>3, <3>5, <4>1, <5>2, <6>1
        <5>3. QED
          BY <5>1, <5>2
      <4>4. QED
        BY <4>2, <4>3
    <3>7. SolvedTo(n, h, A, step)
      BY <3>5, <3>6 DEF SolvedTo
    <3>8. QED
      BY <3>7
  <2>3. QED
    BY <2>1, <2>2
<1> HIDE DEF Solved
<1>3. Solved = Nat
  <2>1. Solved \subseteq Nat
    BY DEF Solved
  <2>2. QED
    BY <1>2, <2>1, FromZero
<1> DEFINE G(n) == CHOOSE g : SolvedTo(n, g, A, step)
           f == [n \in Nat |-> G(n + 1)[n]]
<1>4. \A n \in Nat : SolvedTo(n, G(n), A, step)
  BY <1>3 DEF Solved
<1> HIDE DEF G
<1>5. f \in [Nat -> A]
  BY <1>4 DEF SolvedTo
<1>6. ASSUME NEW n \in Nat PROVE f[n] = step[<<n, f>>]
  <2>1. ASSUME NEW m \in 0 .. n - 1 PROVE f[m] = G(n + 1)[m]
    <3>1. m \in Nat /\ m + 1 \in Nat /\ n + 1 \in Nat /\ m \in 0 .. (m + 1) - 1
      OBVIOUS
    <3>2. SolvedTo(m + 1, G(m + 1), A, step) /\ SolvedTo(n + 1, G(n + 1), A, step)
      BY <1>4, <3>1
    <3>3. SolvedTo(m + 1, G(n + 1), A, step)
      <4>1. \A k \in 0 .. (m + 1) - 1 : k \in 0 .. (n + 1) - 1
        OBVIOUS
      <4>2. QED
        BY <3>2, <4>1 DEF SolvedTo
    <3>4. G(m + 1)[m] = G(n + 1)[m]
      BY <1>1, <3>1, <3>2, <3>3
    <3>5. QED
      BY <3>1, <3>4
  <2>2. n + 1 \in Nat /\ n \in 0 .. (n + 1) - 1
    OBVIOUS
  <2>3. G(n + 1) \in [Nat -> A] /\ G(n + 1)[n] = step[<<n, G(n + 1)>>]
    BY <1>4, <2>2 DEF SolvedTo
  <2>4. step[<<n, G(n + 1)>>] = step[<<n, f>>]
    BY <1>5, <2>1, <2>3
  <2>5. QED
    BY <2>3, <2>4
<1>7. QED
  BY <1>5, <1>6

-----------------------------------------------------------------------------
\* Downloads and playable sources

\* A quality was asked for and refused for lack of rights.
RefusedAt(i) == tried[i].said \in {"no right", "Permission"}
RefusedFor(q) == \E i \in DOMAIN tried : tried[i].quality = q /\ RefusedAt(i)

\* The loop went on after the i-th answer with cause.
Passed(i) ==
    \/ RefusedAt(i)
    \/ i < Len(tried) /\ tried[i].said = "ok" /\ tried[i + 1].quality = tried[i].quality

\* What is left is what was not refused; it begins with what is being fetched.
FetchInv ==
    /\ fetchPc = "idle" => tried = <<>>
    /\ fetchPc # "over" => got = NoQuality
    /\ fetchPc \in {"resolve", "bytes"} =>
          /\ left # {}
          /\ mediaCall.op = "best" => \A q \in mediaCall.sizes : Trying <= q
          /\ mediaCall.op # "best" => \A q \in mediaCall.sizes \ left : RefusedFor(q)
    /\ fetchPc = "resolve" => \A i \in DOMAIN tried : Passed(i)
    /\ fetchPc = "bytes" =>
          /\ tried # <<>> /\ tried[Len(tried)] = [quality |-> Trying, said |-> "ok"]
          /\ Downloads

\* What BestIsBest says, by position.
TriedInv ==
    /\ \A i \in 1 .. Len(tried) - 1 : Passed(i)
    /\ got # NoQuality =>
          /\ \A q \in mediaCall.sizes : q < got => RefusedFor(q)
          /\ mediaCall.op \notin {"best", "resolve"} =>
                tried # <<>> /\ tried[Len(tried)] = [quality |-> got, said |-> "ok"]

MediaInv == MediaTypeOK /\ FetchInv /\ TriedInv

Answer == [quality : Qualities, said : Replies \cup Failures]

\* The quality being tried is one of those left, and the best of them.
LEMMA TryingBest ==
    ASSUME MediaTypeOK, left # {}
    PROVE  Trying \in left /\ Trying \in Qualities /\ Trying \in Nat /\ \A q \in left : Trying <= q
<1>1. left \subseteq Nat
  BY MediaAssumption DEF MediaTypeOK
<1>2. QED
  BY <1>1, MinIsLeast DEF Trying, MediaTypeOK

\* What another answer changes.
LEMMA TriedGrows ==
    ASSUME MediaTypeOK, NEW what \in Replies \cup Failures, Trying \in Qualities, Tried(what)
    PROVE  /\ tried' \in Seq(Answer) /\ Len(tried) \in Nat /\ Len(tried') = Len(tried) + 1
           /\ DOMAIN tried = 1 .. Len(tried) /\ DOMAIN tried' = 1 .. Len(tried) + 1
           /\ tried' # <<>> /\ tried'[Len(tried')] = [quality |-> Trying, said |-> what]
           /\ \A i \in 1 .. Len(tried) : tried'[i] = tried[i]
           /\ \A q : RefusedFor(q) => RefusedFor(q)'
           /\ \A i \in 1 .. Len(tried) : Passed(i) => Passed(i)'
<1> DEFINE e == [quality |-> Trying, said |-> what]
<1>1. tried \in Seq(Answer) /\ e \in Answer /\ tried' = Append(tried, e)
  BY DEF MediaTypeOK, Answer, Tried
<1> HIDE DEF e
<1>2. /\ tried' \in Seq(Answer) /\ Len(tried) \in Nat /\ Len(tried') = Len(tried) + 1
      /\ DOMAIN tried = 1 .. Len(tried) /\ DOMAIN tried' = 1 .. Len(tried) + 1
      /\ tried' # <<>> /\ tried'[Len(tried) + 1] = e
      /\ \A i \in 1 .. Len(tried) : tried'[i] = tried[i]
  BY <1>1, AppendProperties, LenProperties
<1>3. \A q : RefusedFor(q) => RefusedFor(q)'
  <2> SUFFICES ASSUME NEW q, RefusedFor(q)
               PROVE  RefusedFor(q)'
    OBVIOUS
  <2>1. PICK i \in DOMAIN tried : tried[i].quality = q /\ RefusedAt(i)
    BY DEF RefusedFor
  <2>2. i \in DOMAIN tried' /\ tried'[i] = tried[i]
    BY <1>2
  <2>3. QED
    BY <2>1, <2>2 DEF RefusedFor, RefusedAt
<1>4. \A i \in 1 .. Len(tried) : Passed(i) => Passed(i)'
  <2> SUFFICES ASSUME NEW i \in 1 .. Len(tried), Passed(i)
               PROVE  Passed(i)'
    OBVIOUS
  <2>1. CASE RefusedAt(i)
    BY <1>2, <2>1 DEF Passed, RefusedAt
  <2>2. CASE i < Len(tried) /\ tried[i].said = "ok" /\ tried[i + 1].quality = tried[i].quality
    <3>1. i + 1 \in 1 .. Len(tried) /\ i < Len(tried')
      BY <1>2, <2>2
    <3>2. QED
      BY <1>2, <2>2, <3>1 DEF Passed
  <2>3. QED
    BY <2>1, <2>2 DEF Passed
<1>5. QED
  BY <1>2, <1>3, <1>4 DEF e


\* What a caller can be told, and the answers that lead to the next quality.
Categories == {"Server", "BadRequest", "Other"} \cup Failures
NoRight(what) == what \in {"no right", "Permission"}

\* A refusal: the loop goes on to the next quality, or the call is over.
LEMMA RefusalKeeps ==
    ASSUME MediaInv, fetchPc \in {"resolve", "bytes"}, NEW what \in Replies \cup Failures, Tried(what),
           NEW category \in Categories, NEW resolved \in BOOLEAN, Refuse(category, resolved),
           category = "Permission" => NoRight(what)
    PROVE  MediaInv'
<1>1. /\ MediaTypeOK /\ left # {} /\ got = NoQuality
      /\ mediaCall.op = "best" => \A q \in mediaCall.sizes : Trying <= q
      /\ mediaCall.op # "best" => \A q \in mediaCall.sizes \ left : RefusedFor(q)
      /\ \A i \in 1 .. Len(tried) - 1 : Passed(i)
      /\ fetchPc = "resolve" => \A i \in DOMAIN tried : Passed(i)
      /\ fetchPc = "bytes" => tried # <<>> /\ tried[Len(tried)] = [quality |-> Trying, said |-> "ok"]
  BY DEF MediaInv, FetchInv, TriedInv
<1>2. PICK best \in left : best = Trying /\ best \in Qualities /\ \A q \in left : best <= q
  BY <1>1, TryingBest
<1>3. /\ tried' \in Seq(Answer) /\ Len(tried) \in Nat /\ Len(tried') = Len(tried) + 1
      /\ DOMAIN tried = 1 .. Len(tried) /\ DOMAIN tried' = 1 .. Len(tried) + 1
      /\ tried' # <<>> /\ tried'[Len(tried')] = [quality |-> best, said |-> what]
      /\ \A i \in 1 .. Len(tried) : tried'[i] = tried[i]
      /\ \A q : RefusedFor(q) => RefusedFor(q)'
      /\ \A i \in 1 .. Len(tried) : Passed(i) => Passed(i)'
  BY <1>1, <1>2, TriedGrows
<1>4. /\ left' = left \ {best} /\ UNCHANGED <<mediaCall, got, sources>>
      /\ \/ category = "Permission" /\ mediaCall.op \in {"download_best", "best_playable"}
            /\ left' # {} /\ fetchPc' = "resolve" /\ told' = told
         \/ fetchPc' = "over" /\ told' = category
  BY <1>2 DEF Refuse, Degrades, MediaOver
<1>5. MediaTypeOK'
  BY <1>1, <1>3, <1>4 DEF MediaTypeOK, Answer, Categories
<1>6. \A i \in 1 .. Len(tried) : Passed(i)'
  <2> SUFFICES ASSUME NEW i \in 1 .. Len(tried)
               PROVE  Passed(i)'
    OBVIOUS
  <2>1. CASE fetchPc = "resolve" \/ i < Len(tried)
    <3>1. Passed(i)
      BY <1>1, <1>3, <2>1
    <3>2. QED
      BY <1>3, <3>1
  <2>2. CASE fetchPc = "bytes" /\ i = Len(tried)
    <3>1. tried[i].quality = best /\ tried[i].said = "ok"
      BY <1>1, <1>2, <2>2
    <3>2. tried'[i + 1].quality = best /\ i < Len(tried') /\ tried'[i] = tried[i]
      BY <1>3, <2>2
    <3>3. QED
      BY <3>1, <3>2 DEF Passed
  <2>3. fetchPc = "resolve" \/ fetchPc = "bytes"
    OBVIOUS
  <2>4. i < Len(tried) \/ i = Len(tried)
    <3>1. Len(tried) \in Nat
      BY <1>3
    <3>2. QED
      BY <3>1
  <2>5. QED
    BY <2>1, <2>2, <2>3, <2>4
<1>7. TriedInv'
  <2>1. 1 .. Len(tried') - 1 = 1 .. Len(tried)
    BY <1>3
  <2>2. \A i \in 1 .. Len(tried') - 1 : Passed(i)'
    BY <1>6, <2>1
  <2>3. got' = NoQuality
    BY <1>1, <1>4
  <2>4. QED
    BY <2>2, <2>3 DEF TriedInv
<1>8. FetchInv'
  <2>1. CASE fetchPc' = "over"
    BY <2>1 DEF FetchInv
  <2>2. CASE category = "Permission" /\ mediaCall.op \in {"download_best", "best_playable"}
             /\ left' # {} /\ fetchPc' = "resolve"
    <3>1. tried'[Len(tried) + 1] = [quality |-> best, said |-> what] /\ what \in {"no right", "Permission"}
      BY <1>3, <2>2 DEF NoRight
    <3>2. /\ Len(tried) + 1 \in DOMAIN tried'
          /\ tried'[Len(tried) + 1].quality = best
          /\ tried'[Len(tried) + 1].said \in {"no right", "Permission"}
      <4>1. Len(tried) + 1 \in DOMAIN tried'
        BY <1>3
      <4> DEFINE last == tried'[Len(tried) + 1]
      <4>2. last = [quality |-> best, said |-> what]
        BY <3>1
      <4> HIDE DEF last
      <4>3. last.quality = best /\ last.said = what
        BY <4>2
      <4>4. QED
        BY <3>1, <4>1, <4>3 DEF last
    <3>3. RefusedFor(best)'
      BY <3>2 DEF RefusedFor, RefusedAt
    <3>4. \A q \in mediaCall'.sizes \ left' : RefusedFor(q)'
      BY <1>1, <1>3, <1>4, <2>2, <3>3
    <3>5. ASSUME NEW i \in DOMAIN tried' PROVE Passed(i)'
      <4>1. CASE i \in 1 .. Len(tried)
        BY <1>6, <4>1
      <4>2. CASE i = Len(tried) + 1
        BY <3>2, <4>2 DEF Passed, RefusedAt
      <4>3. QED
        BY <1>3, <4>1, <4>2
    <3>6. mediaCall'.op # "best" /\ got' = NoQuality
      BY <1>1, <1>4, <2>2
    <3>7. QED
      BY <2>2, <3>4, <3>5, <3>6 DEF FetchInv
  <2>3. QED
    BY <1>4, <2>1, <2>2
<1>9. QED
  BY <1>5, <1>7, <1>8 DEF MediaInv

\* A delivery: every better quality was refused before.
LEMMA DeliveryKeeps ==
    ASSUME MediaInv, fetchPc \in {"resolve", "bytes"}, Deliver,
           \/ /\ fetchPc = "resolve"
              /\ \E what \in Replies : Tried(what) /\ (mediaCall.op \in {"best", "resolve"} \/ what = "ok")
           \/ fetchPc = "bytes" /\ tried' = tried
    PROVE  MediaInv'
<1>1. /\ MediaTypeOK /\ left # {} /\ got = NoQuality
      /\ mediaCall.op = "best" => \A q \in mediaCall.sizes : Trying <= q
      /\ mediaCall.op # "best" => \A q \in mediaCall.sizes \ left : RefusedFor(q)
      /\ \A i \in 1 .. Len(tried) - 1 : Passed(i)
      /\ fetchPc = "resolve" => \A i \in DOMAIN tried : Passed(i)
      /\ fetchPc = "bytes" => tried # <<>> /\ tried[Len(tried)] = [quality |-> Trying, said |-> "ok"]
  BY DEF MediaInv, FetchInv, TriedInv
<1>2. PICK best \in left : best = Trying /\ best \in Qualities /\ best \in Nat /\ \A q \in left : best <= q
  BY <1>1, TryingBest
<1>3. /\ UNCHANGED <<mediaCall, left, sources>> /\ got' = best /\ fetchPc' = "over" /\ told' = "none"
  BY <1>2 DEF Deliver, MediaOver
<1>4. /\ tried' \in Seq(Answer)
      /\ \A q : RefusedFor(q) => RefusedFor(q)'
      /\ \A i \in 1 .. Len(tried') - 1 : Passed(i)'
      /\ mediaCall.op \notin {"best", "resolve"} =>
            tried' # <<>> /\ tried'[Len(tried')] = [quality |-> best, said |-> "ok"]
  <2>1. CASE fetchPc = "bytes" /\ tried' = tried
    BY <1>1, <1>2, <2>1 DEF MediaTypeOK, Answer, RefusedFor, RefusedAt, Passed
  <2>2. ASSUME fetchPc = "resolve", NEW what \in Replies, Tried(what),
               mediaCall.op \in {"best", "resolve"} \/ what = "ok"
        PROVE  /\ tried' \in Seq(Answer)
               /\ \A q : RefusedFor(q) => RefusedFor(q)'
               /\ \A i \in 1 .. Len(tried') - 1 : Passed(i)'
               /\ mediaCall.op \notin {"best", "resolve"} =>
                     tried' # <<>> /\ tried'[Len(tried')] = [quality |-> best, said |-> "ok"]
    <3>1. what \in Replies \cup Failures /\ Trying \in Qualities
      BY <1>2, <2>2
    <3>2. /\ tried' \in Seq(Answer) /\ Len(tried) \in Nat /\ Len(tried') = Len(tried) + 1
          /\ DOMAIN tried = 1 .. Len(tried)
          /\ tried' # <<>> /\ tried'[Len(tried')] = [quality |-> best, said |-> what]
          /\ \A q : RefusedFor(q) => RefusedFor(q)'
          /\ \A i \in 1 .. Len(tried) : Passed(i) => Passed(i)'
      BY <1>1, <1>2, <2>2, <3>1, TriedGrows
    <3>3. \A i \in 1 .. Len(tried') - 1 : Passed(i)'
      BY <1>1, <2>2, <3>2
    <3>4. QED
      BY <2>2, <3>2, <3>3
  <2>3. QED
    BY <2>1, <2>2
<1>5. MediaTypeOK'
  BY <1>1, <1>2, <1>3, <1>4 DEF MediaTypeOK, Answer
<1>6. ASSUME NEW q \in mediaCall.sizes, q < best PROVE RefusedFor(q)'
  <2>1. q \in Nat
    BY <1>1, MediaAssumption DEF MediaTypeOK
  <2>2. q \notin left /\ mediaCall.op # "best"
    BY <1>1, <1>2, <1>6, <2>1
  <2>3. QED
    BY <1>1, <1>4, <2>2
<1>7. TriedInv'
  BY <1>3, <1>4, <1>6 DEF TriedInv
<1>8. FetchInv'
  BY <1>3 DEF FetchInv
<1>9. QED
  BY <1>5, <1>7, <1>8 DEF MediaInv

\* A call begins with the best quality that has a size.
LEMMA StartKeeps ==
    ASSUME MediaInv, NEW op \in MediaCalls, NEW allow \in BOOLEAN, NEW sizes \in SUBSET Qualities,
           StartMedia(op, allow, sizes)
    PROVE  MediaInv'
<1>1. /\ fetchPc = "idle" /\ tried = <<>> /\ got = NoQuality /\ MediaTypeOK
      /\ UNCHANGED <<tried, got, sources>>
      /\ left' = IF op = "best" /\ sizes # {} THEN {Min(sizes)} ELSE sizes
      /\ \/ sizes = {} /\ fetchPc' = "over" /\ told' = "Server"
         \/ sizes # {} /\ fetchPc' = "resolve" /\ told' = told
      /\ mediaCall' = [op |-> op, encrypted |-> allow \/ op \in {"download_quality", "download_best"},
                       sizes |-> sizes]
  BY DEF MediaInv, FetchInv, StartMedia, MediaOver
<1>2. /\ mediaCall'.op = op /\ mediaCall'.sizes = sizes
      /\ mediaCall' \in [op : MediaCalls, encrypted : BOOLEAN, sizes : SUBSET Qualities]
  BY <1>1
<1>3. sizes # {} => Min(sizes) \in sizes /\ \A q \in sizes : Min(sizes) <= q
  BY MinIsLeast, MediaAssumption
<1>4. /\ left' \subseteq sizes /\ (sizes # {} => left' # {}) /\ (op # "best" => left' = sizes)
      /\ op = "best" /\ sizes # {} => left' = {Min(sizes)}
  BY <1>1, <1>3
<1>5. MediaTypeOK'
  BY <1>1, <1>2, <1>4 DEF MediaTypeOK
<1>6. TriedInv'
  BY <1>1 DEF TriedInv
<1>7. op = "best" /\ sizes # {} => \A q \in sizes : Trying' <= q
  <2> SUFFICES ASSUME op = "best", sizes # {}, NEW q \in sizes
               PROVE  Trying' <= q
    OBVIOUS
  <2>1. left' \subseteq Nat /\ left' # {} /\ Min(sizes) <= q
    BY <1>3, <1>4, MediaAssumption
  <2>2. Min(left') \in left'
    BY <2>1, MinIsLeast
  <2>3. QED
    BY <1>4, <2>1, <2>2 DEF Trying
<1>8. FetchInv'
  BY <1>1, <1>2, <1>4, <1>7 DEF FetchInv
<1>9. QED
  BY <1>5, <1>6, <1>8 DEF MediaInv

\* CategoryOf is a permission error for 104003 only.
LEMMA CategoryRight ==
    ASSUME NEW reply \in Replies
    PROVE  CategoryOf(reply) \in Categories /\ (CategoryOf(reply) = "Permission" => NoRight(reply))
  BY DEF Replies, CategoryOf, Failures, Categories, NoRight

\* An answer to a request for a source.
LEMMA ResolvedKeeps ==
    ASSUME MediaInv, NEW reply \in Replies, Resolved(reply)
    PROVE  MediaInv'
<1>1. fetchPc = "resolve" /\ Tried(reply) /\ reply \in Replies \cup Failures
  BY DEF Resolved
<1>2. CASE Refuse("Server", FALSE)
  <2>1. "Server" \in Categories
    BY DEF Categories
  <2>2. QED
    BY <1>1, <1>2, <2>1, RefusalKeeps
<1>3. CASE Deliver /\ (mediaCall.op \in {"best", "resolve"} \/ reply = "ok")
  BY <1>1, <1>3, DeliveryKeeps
<1>4. CASE Refuse(CategoryOf(reply), TRUE)
  BY <1>1, <1>4, CategoryRight, RefusalKeeps
<1>5. CASE reply = "ok" /\ Downloads /\ fetchPc' = "bytes" /\ UNCHANGED <<mediaCall, left, got, told, sources>>
  <2>1. /\ MediaTypeOK /\ left # {} /\ got = NoQuality
        /\ mediaCall.op = "best" => \A q \in mediaCall.sizes : Trying <= q
        /\ mediaCall.op # "best" => \A q \in mediaCall.sizes \ left : RefusedFor(q)
        /\ \A i \in DOMAIN tried : Passed(i)
    BY <1>1 DEF MediaInv, FetchInv
  <2>2. Trying \in Qualities /\ Trying' = Trying
    BY <1>5, <2>1, TryingBest DEF Trying
  <2>3. /\ tried' \in Seq(Answer) /\ Len(tried) \in Nat /\ Len(tried') = Len(tried) + 1
        /\ DOMAIN tried = 1 .. Len(tried)
        /\ tried' # <<>> /\ tried'[Len(tried')] = [quality |-> Trying, said |-> "ok"]
        /\ \A q : RefusedFor(q) => RefusedFor(q)'
        /\ \A i \in 1 .. Len(tried) : Passed(i) => Passed(i)'
    BY <1>1, <1>5, <2>1, <2>2, TriedGrows
  <2>4. MediaTypeOK'
    BY <1>5, <2>1, <2>3 DEF MediaTypeOK, Answer
  <2>5. TriedInv'
    BY <1>5, <2>1, <2>3 DEF TriedInv
  <2>6. Downloads'
    BY <1>5 DEF Downloads
  <2>7. FetchInv'
    BY <1>5, <2>1, <2>2, <2>3, <2>6 DEF FetchInv
  <2>8. QED
    BY <2>4, <2>5, <2>7 DEF MediaInv
<1>6. QED
  BY <1>2, <1>3, <1>4, <1>5 DEF Resolved

\* resolve_files is a call of its own.
LEMMA FilesKeep ==
    ASSUME MediaInv, NEW names \in SUBSET FileNames, NEW n \in Nat, NEW encrypted \in BOOLEAN,
           NEW rows \in [1 .. n -> FileRows], ResolveFiles(names, rows, encrypted)
    PROVE  MediaInv'
<1>1. /\ fetchPc' = "over" /\ told' \in {"none", "Server"}
      /\ UNCHANGED <<mediaCall, left, tried, got>>
      /\ sources' = {} \/ sources' = SourcesFromItems(names, rows, encrypted)
      /\ SourcesFromItems(names, rows, encrypted) = {"error"} => sources' = {}
  BY DEF ResolveFiles, MediaOver
<1>2. \/ SourcesFromItems(names, rows, encrypted) = {"error"}
      \/ SourcesFromItems(names, rows, encrypted) \subseteq FileNames
  BY DEF SourcesFromItems, FileRows
<1>3. MediaTypeOK'
  BY <1>1, <1>2 DEF MediaInv, MediaTypeOK
<1>4. FetchInv'
  BY <1>1 DEF FetchInv
<1>5. TriedInv'
  BY <1>1 DEF MediaInv, TriedInv, RefusedFor, RefusedAt, Passed
<1>6. QED
  BY <1>3, <1>4, <1>5 DEF MediaInv

\* Every step preserves what a call knows of the qualities.
LEMMA MediaKept == MediaInv /\ [MediaNext]_media => MediaInv'
<1> SUFFICES ASSUME MediaInv, [MediaNext]_media
             PROVE  MediaInv'
  OBVIOUS
<1>1. ASSUME NEW op \in MediaCalls, NEW allow \in BOOLEAN, NEW sizes \in SUBSET Qualities,
             StartMedia(op, allow, sizes)
      PROVE  MediaInv'
  BY <1>1, StartKeeps
<1>2. ASSUME NEW reply \in Replies, Resolved(reply) PROVE MediaInv'
  BY <1>2, ResolvedKeeps
<1>3. ASSUME NEW c \in Failures, ResolveFails(c) \/ DownloadFails(c) PROVE MediaInv'
  <2>1. fetchPc \in {"resolve", "bytes"} /\ Tried(c) /\ Refuse(c, FALSE) /\ c \in Replies \cup Failures
        /\ c \in Categories /\ (c = "Permission" => NoRight(c))
    BY <1>3 DEF ResolveFails, DownloadFails, Categories, NoRight
  <2>2. QED
    BY <1>3, <2>1, RefusalKeeps
<1>4. CASE Downloaded
  BY <1>4, DeliveryKeeps DEF Downloaded
<1>5. CASE DropMedia
  <2>1. fetchPc' = "over" /\ told' = "dropped" /\ UNCHANGED <<mediaCall, left, tried, got, sources>>
    BY <1>5 DEF DropMedia, MediaOver
  <2>2. QED
    BY <2>1 DEF MediaInv, MediaTypeOK, FetchInv, TriedInv, RefusedFor, RefusedAt, Passed
<1>6. ASSUME NEW names \in SUBSET FileNames \ {{}}, NEW n \in 0 .. MaxFileRows, NEW encrypted \in BOOLEAN,
             NEW rows \in [1 .. n -> FileRows], ResolveFiles(names, rows, encrypted)
      PROVE  MediaInv'
  <2>1. n \in Nat /\ names \in SUBSET FileNames
    BY <1>6, MediaAssumption
  <2>2. QED
    BY <1>6, <2>1, FilesKeep
<1>7. CASE UNCHANGED media
  <2>1. UNCHANGED <<fetchPc, mediaCall, left, tried, got, told, sources>> /\ Trying' = Trying
    BY <1>7 DEF media, Trying
  <2>2. MediaTypeOK'
    BY <2>1 DEF MediaInv, MediaTypeOK
  <2>3. FetchInv'
    BY <2>1 DEF MediaInv, FetchInv, RefusedFor, RefusedAt, Passed, Downloads
  <2>4. TriedInv'
    BY <2>1 DEF MediaInv, TriedInv, RefusedFor, RefusedAt, Passed
  <2>5. QED
    BY <2>2, <2>3, <2>4 DEF MediaInv
<1>8. QED
  BY <1>1, <1>2, <1>3, <1>4, <1>5, <1>6, <1>7 DEF MediaNext

\* What is delivered is the best quality the server would give, for any
\* qualities and any answers; after another failure than a refusal nothing
\* more is tried.
THEOREM BestIsBestHolds == MediaSpec => []BestIsBest
<1>1. MediaInit => MediaInv
  BY MediaAssumption DEF MediaInit, MediaInv, MediaTypeOK, FetchInv, TriedInv, MediaCalls
<1>2. MediaInv => BestIsBest
  <2> SUFFICES ASSUME MediaInv
               PROVE  BestIsBest
    OBVIOUS
  <2>1. \A i \in 1 .. Len(tried) - 1 :
           RefusedAt(i) \/ (tried[i].said = "ok" /\ tried[i + 1].quality = tried[i].quality)
    BY DEF MediaInv, TriedInv, Passed
  <2>2. QED
    BY <2>1 DEF MediaInv, TriedInv, BestIsBest, RefusedFor, RefusedAt, Last
<1>3. QED
  BY <1>1, <1>2, MediaKept, PTL DEF MediaSpec

-----------------------------------------------------------------------------
\* Decryption at an offset

\* Where the byte at a position of the audio takes its mask from, behind the
\* first segment and anywhere.
BoxMask(p) == <<"box", Stream(skips[p \div Segment] + (p % Segment))>>
Mask(p) ==
    IF N > LongKey
    THEN IF p < FirstSegment THEN <<"key", skips[p]>> ELSE BoxMask(p)
    ELSE <<"map", MapMask(p, 0)>>
BoxMasks(length, position) == [i \in 1 .. length |-> BoxMask(position + i - 1)]
Masks(length, position) == [i \in 1 .. length |-> Mask(position + i - 1)]

\* The state of the cipher: the skips are numbers.
QmcTypes ==
    /\ qmcKey \in Keys
    /\ skips \in [0 .. MaxAudio -> 0 .. 1]

\* Two pieces that follow one another.
LEMMA BoxMasksJoin ==
    ASSUME NEW a \in Nat, NEW b \in Nat, NEW p \in Nat
    PROVE  BoxMasks(a, p) \o BoxMasks(b, p + a) = BoxMasks(a + b, p)
<1> DEFINE All == {BoxMask(q) : q \in Nat}
           x == BoxMasks(a, p)
           y == BoxMasks(b, p + a)
           z == BoxMasks(a + b, p)
<1>1. /\ Len(x) = a /\ Len(y) = b /\ Len(z) = a + b
      /\ x \in Seq(All) /\ y \in Seq(All)
      /\ z \in Seq(All)
      /\ \A i \in 1 .. a : x[i] = BoxMask(p + i - 1)
      /\ \A i \in 1 .. b : y[i] = BoxMask(p + a + i - 1)
      /\ \A i \in 1 .. a + b : z[i] = BoxMask(p + i - 1)
  BY DEF BoxMasks
<1> HIDE DEF All, x, y, z
<1>2. x \o y \in Seq(All) /\ Len(x \o y) = a + b
  BY <1>1, ConcatProperties
<1>3. ASSUME NEW i \in 1 .. a + b PROVE (x \o y)[i] = z[i]
  <2>1. CASE i <= a
    BY <1>1, <2>1, ConcatProperties
  <2>2. CASE ~ (i <= a)
    <3>1. i - a \in 1 .. b /\ p + a + (i - a) - 1 = p + i - 1
      BY <2>2
    <3>2. (x \o y)[i] = y[i - a]
      BY <1>1, <2>2, ConcatProperties
    <3>3. QED
      BY <1>1, <3>1, <3>2
  <2>3. QED
    BY <2>1, <2>2
<1>4. QED
  BY <1>1, <1>2, <1>3, SeqEqual DEF x, y, z

\* Within a segment the positions go on with the stream.
LEMMA PieceMasks ==
    ASSUME NEW a \in Nat, NEW p \in Nat, a <= Segment - (p % Segment)
    PROVE  DecryptSegment(a, p) = BoxMasks(a, p)
<1>1. ASSUME NEW i \in 1 .. a
      PROVE  /\ (p + i - 1) \div Segment = p \div Segment
             /\ (p + i - 1) % Segment = (p % Segment) + i - 1
  <2>1. /\ Segment \in Nat /\ Segment > 0
        /\ p % Segment \in Nat /\ p \div Segment \in Nat
        /\ p = Segment * (p \div Segment) + (p % Segment)
    BY QmcAssumption
  <2>2. QED
    BY <2>1
<1>2. ASSUME NEW i \in 1 .. a
      PROVE  <<"box", Stream(skips[p \div Segment] + ((p % Segment) + i - 1))>> = BoxMask(p + i - 1)
  BY <1>1, Zenon DEF BoxMask
<1>3. QED
  BY <1>2, Zenon DEF DecryptSegment, BoxMasks

\* The function the loop computes satisfies its equation, so the recursive
\* definition does.
SegmentsBody(f, l, p) ==
    LET piece == Smaller(Segment - (p % Segment), l)
    IN  DecryptSegment(piece, p) \o f[l - piece][p + piece]

\* A turn of the loop takes one piece of the segment, at least one byte.
LEMMA PieceSize ==
    ASSUME NEW l \in Nat \ {0}, NEW p \in Nat
    PROVE  LET piece == Smaller(Segment - (p % Segment), l)
           IN  /\ piece \in 1 .. l /\ piece <= Segment - (p % Segment)
               /\ l - piece \in 0 .. l - 1 /\ p + piece \in Nat
<1>1. Segment \in Nat /\ p % Segment \in 0 .. Segment - 1
  BY QmcAssumption
<1>2. QED
  BY <1>1 DEF Smaller

\* The loop over the segments is defined by its equation.
LEMMA SegmentsEquation ==
    \A l, p \in Nat : Segments[l][p] = IF l = 0 THEN <<>> ELSE SegmentsBody(Segments, l, p)
<1> DEFINE closed == [l \in Nat |-> [p \in Nat |-> BoxMasks(l, p)]]
           Turn(f) == [l \in Nat |-> [p \in Nat |-> IF l = 0 THEN <<>> ELSE SegmentsBody(f, l, p)]]
<1>1. ASSUME NEW l \in Nat, NEW p \in Nat
      PROVE  BoxMasks(l, p) = IF l = 0 THEN <<>> ELSE SegmentsBody(closed, l, p)
  <2>1. CASE l = 0
    BY <2>1 DEF BoxMasks
  <2>2. CASE l # 0
    <3> DEFINE piece == Smaller(Segment - (p % Segment), l)
    <3>1. /\ piece \in 1 .. l /\ piece <= Segment - (p % Segment)
          /\ l - piece \in 0 .. l - 1 /\ p + piece \in Nat
      BY <2>2, PieceSize
    <3>2. SegmentsBody(closed, l, p) = DecryptSegment(piece, p) \o closed[l - piece][p + piece]
      BY DEF SegmentsBody
    <3> HIDE DEF piece
    <3>3. closed[l - piece][p + piece] = BoxMasks(l - piece, p + piece)
      BY <3>1
    <3>4. DecryptSegment(piece, p) = BoxMasks(piece, p)
      BY <3>1, PieceMasks
    <3>5. BoxMasks(piece, p) \o BoxMasks(l - piece, p + piece) = BoxMasks(piece + (l - piece), p)
      <4>1. piece \in Nat /\ l - piece \in Nat
        BY <3>1
      <4>2. QED
        BY <4>1, BoxMasksJoin
    <3>6. piece + (l - piece) = l
      BY <3>1
    <3>7. QED
      BY <2>2, <3>2, <3>3, <3>4, <3>5, <3>6
  <2>3. QED
    BY <2>1, <2>2
<1>2. closed = Turn(closed)
  BY <1>1
<1> HIDE DEF closed
<1>3. Segments = Turn(Segments)
  BY <1>2, Zenon DEF Segments, SegmentsBody
<1>4. QED
  BY <1>3

\* What the loop over the segments computes, for any length and position.
LEMMA SegmentsAre ==
    ASSUME NEW l \in Nat, NEW p \in Nat
    PROVE  Segments[l][p] = BoxMasks(l, p)
<1> DEFINE Right == {n \in Nat : \A q \in Nat : Segments[n][q] = BoxMasks(n, q)}
<1>1. ASSUME NEW n \in Nat, \A m \in 0 .. n - 1 : m \in Right PROVE n \in Right
  <2> SUFFICES ASSUME NEW q \in Nat PROVE Segments[n][q] = BoxMasks(n, q)
    OBVIOUS
  <2>1. CASE n = 0
    BY <2>1, SegmentsEquation DEF BoxMasks
  <2>2. CASE n # 0
    <3> DEFINE piece == Smaller(Segment - (q % Segment), n)
    <3>1. /\ piece \in 1 .. n /\ piece <= Segment - (q % Segment)
          /\ n - piece \in 0 .. n - 1 /\ q + piece \in Nat
      BY <2>2, PieceSize
    <3>2. Segments[n][q] = DecryptSegment(piece, q) \o Segments[n - piece][q + piece]
      BY <2>2, SegmentsEquation DEF SegmentsBody
    <3> HIDE DEF piece
    <3>3. piece \in Nat /\ n - piece \in Nat /\ piece + (n - piece) = n
      BY <3>1
    <3>4. Segments[n - piece][q + piece] = BoxMasks(n - piece, q + piece)
      BY <1>1, <3>1
    <3>5. DecryptSegment(piece, q) = BoxMasks(piece, q)
      BY <3>1, <3>3, PieceMasks
    <3>6. BoxMasks(piece, q) \o BoxMasks(n - piece, q + piece) = BoxMasks(piece + (n - piece), q)
      BY <3>1, <3>3, BoxMasksJoin
    <3>7. QED
      BY <3>2, <3>3, <3>4, <3>5, <3>6
  <2>3. QED
    BY <2>1, <2>2
<1> HIDE DEF Right
<1>2. Right = Nat
  <2>1. Right \subseteq Nat
    BY DEF Right
  <2>2. QED
    BY <1>1, <2>1, FromZero
<1>3. QED
  BY <1>2 DEF Right

\* Two pieces of any cipher that follow one another.
LEMMA MasksJoin ==
    ASSUME NEW a \in Nat, NEW b \in Nat, NEW p \in Nat
    PROVE  Masks(a, p) \o Masks(b, p + a) = Masks(a + b, p)
<1> DEFINE All == {Mask(q) : q \in Nat}
           x == Masks(a, p)
           y == Masks(b, p + a)
           z == Masks(a + b, p)
<1>1. /\ Len(x) = a /\ Len(y) = b /\ Len(z) = a + b
      /\ x \in Seq(All) /\ y \in Seq(All) /\ z \in Seq(All)
      /\ \A i \in 1 .. a : x[i] = Mask(p + i - 1)
      /\ \A i \in 1 .. b : y[i] = Mask(p + a + i - 1)
      /\ \A i \in 1 .. a + b : z[i] = Mask(p + i - 1)
  BY DEF Masks
<1> HIDE DEF All, x, y, z
<1>2. x \o y \in Seq(All) /\ Len(x \o y) = a + b
  BY <1>1, ConcatProperties
<1>3. ASSUME NEW i \in 1 .. a + b PROVE (x \o y)[i] = z[i]
  <2>1. CASE i <= a
    BY <1>1, <2>1, ConcatProperties
  <2>2. CASE ~ (i <= a)
    <3>1. i - a \in 1 .. b /\ p + a + (i - a) - 1 = p + i - 1
      BY <2>2
    <3>2. (x \o y)[i] = y[i - a]
      BY <1>1, <2>2, ConcatProperties
    <3>3. QED
      BY <1>1, <3>1, <3>2
  <2>3. QED
    BY <2>1, <2>2
<1>4. QED
  BY <1>1, <1>2, <1>3, SeqEqual DEF x, y, z

\* Every cipher takes the mask of a byte from its position in the audio alone.
LEMMA DecryptIs ==
    ASSUME NEW l \in Nat, NEW p \in Nat
    PROVE  Decrypt(l, p) = Masks(l, p)
<1>1. CASE ~ (N > LongKey)
  <2>1. ASSUME NEW i \in 1 .. l PROVE MapMask(p, i - 1) = MapMask(p + i - 1, 0)
    <3>1. p + (i - 1) = (p + i - 1) + 0
      OBVIOUS
    <3>2. QED
      BY <3>1 DEF MapMask
  <2>2. QED
    BY <1>1, <2>1, Zenon DEF Decrypt, DecryptMap, Masks, Mask
<1>2. CASE N > LongKey
  <2> DEFINE first == IF p < FirstSegment THEN Smaller(l, FirstSegment - p) ELSE 0
  <2>1. /\ first \in Nat /\ l - first \in Nat /\ p + first \in Nat /\ first + (l - first) = l
        /\ \A i \in 1 .. first : p + i - 1 < FirstSegment
        /\ l - first = 0 \/ p + first >= FirstSegment
    BY QmcAssumption DEF Smaller
  <2>2. Decrypt(l, p) = DecryptFirst(first, p) \o Segments[l - first][p + first]
    BY <1>2 DEF Decrypt, DecryptRc4
  <2> HIDE DEF first
  <2>3. DecryptFirst(first, p) = Masks(first, p)
    <3>1. ASSUME NEW i \in 1 .. first PROVE <<"key", skips[p + i - 1]>> = Mask(p + i - 1)
      BY <1>2, <2>1 DEF Mask
    <3>2. QED
      BY <3>1, Zenon DEF DecryptFirst, Masks
  <2>4. Segments[l - first][p + first] = Masks(l - first, p + first)
    <3>1. Segments[l - first][p + first] = BoxMasks(l - first, p + first)
      BY <2>1, SegmentsAre
    <3>2. ASSUME NEW i \in 1 .. l - first PROVE BoxMask(p + first + i - 1) = Mask(p + first + i - 1)
      <4>1. ~ (p + first + i - 1 < FirstSegment)
        BY <2>1, QmcAssumption
      <4>2. QED
        BY <1>2, <4>1 DEF Mask
    <3>3. QED
      BY <3>1, <3>2, Zenon DEF BoxMasks, Masks
  <2>5. Masks(first, p) \o Masks(l - first, p + first) = Masks(first + (l - first), p)
    BY <2>1, MasksJoin
  <2>6. QED
    BY <2>1, <2>2, <2>3, <2>4, <2>5
<1>3. QED
  BY <1>1, <1>2

\* What was decrypted is the key stream of the audio up to there.
WholeInv == \E n \in Nat : decrypted = Masks(n, 0)

\* The masks of a length are that long.
LEMMA MasksLength == \A n \in Nat : Len(Masks(n, 0)) = n
  BY DEF Masks

\* The masks are those of the key and its skips.
LEMMA MasksStay ==
    ASSUME UNCHANGED <<qmcKey, skips>>, NEW n \in Nat
    PROVE  Masks(n, 0)' = Masks(n, 0)
<1>1. SeedBox' = SeedBox
  <2>1. Mixed' = Mixed
    BY DEF Mixed, N
  <2>2. QED
    BY <2>1 DEF SeedBox, N
<1>2. Generator' = Generator
  BY <1>1 DEF Generator, N
<1>3. QED
  BY <1>2 DEF Masks, Mask, BoxMask, MapMask, Stream, N

\* A download decrypted piece by piece is the download decrypted at once, for any
\* key, any segments, any skips and any cuts.
THEOREM PiecesMakeWholeHolds == QmcSpec => []PiecesMakeWhole
<1>1. QmcInit => WholeInv
  BY DEF QmcInit, WholeInv, Masks
<1>2. WholeInv /\ [QmcNext]_qmc => WholeInv'
  <2> SUFFICES ASSUME WholeInv, [QmcNext]_qmc
               PROVE  WholeInv'
    OBVIOUS
  <2>1. ASSUME NEW length \in 1 .. MaxAudio, DecryptPiece(length) PROVE WholeInv'
    <3>1. PICK n \in Nat : decrypted = Masks(n, 0)
      BY DEF WholeInv
    <3>2. Len(decrypted) = n /\ length \in Nat
      BY <3>1, MasksLength, QmcAssumption
    <3>3. decrypted' = Masks(n, 0) \o Masks(length, n) /\ UNCHANGED <<qmcKey, skips>>
      BY <2>1, <3>1, <3>2, DecryptIs DEF DecryptPiece
    <3>4. Masks(n, 0) \o Masks(length, n) = Masks(n + length, 0) /\ n + length \in Nat
      <4>1. 0 + n = n /\ 0 \in Nat /\ n + length \in Nat
        BY <3>2
      <4>2. Masks(n, 0) \o Masks(length, 0 + n) = Masks(n + length, 0)
        BY <3>2, <4>1, MasksJoin
      <4>3. QED
        BY <4>1, <4>2
    <3>5. decrypted' = Masks(n + length, 0)
      BY <3>3, <3>4
    <3>6. Masks(n + length, 0)' = Masks(n + length, 0)
      BY <3>3, MasksStay
    <3>7. QED
      BY <3>4, <3>5, <3>6 DEF WholeInv
  <2>2. CASE UNCHANGED qmc
    <3>1. PICK n \in Nat : decrypted = Masks(n, 0)
      BY DEF WholeInv
    <3>2. Masks(n, 0)' = Masks(n, 0) /\ decrypted' = decrypted
      BY <2>2, MasksStay DEF qmc
    <3>3. QED
      BY <3>1, <3>2 DEF WholeInv
  <2>3. QED
    BY <2>1, <2>2 DEF QmcNext
<1>3. WholeInv => PiecesMakeWhole
  BY MasksLength, DecryptIs DEF WholeInv, PiecesMakeWhole
<1>4. QED
  BY <1>1, <1>2, <1>3, PTL DEF QmcSpec

-----------------------------------------------------------------------------
\* Variable length integers

\* A digit of a number.
LEMMA Digits ==
    ASSUME NEW n \in Nat
    PROVE  /\ Radix \in Nat /\ Radix > 1
           /\ n % Radix \in 0 .. Radix - 1 /\ n \div Radix \in Nat
           /\ n = Radix * (n \div Radix) + (n % Radix)
           /\ n >= Radix => n \div Radix \in 0 .. n - 1
           /\ Radix + (n % Radix) \in Byte /\ Radix + (n % Radix) >= Radix
           /\ (Radix + (n % Radix)) % Radix = n % Radix
           /\ n < Radix => n \in Byte /\ n % Radix = n
<1>1. /\ Radix \in Nat /\ Radix > 1
      /\ n % Radix \in 0 .. Radix - 1 /\ n \div Radix \in Nat
      /\ n = Radix * (n \div Radix) + (n % Radix)
  BY PacketsAssumption
<1>2. n >= Radix => n \div Radix \in 0 .. n - 1
  BY <1>1
<1>3. Radix + (n % Radix) \in Byte /\ Radix + (n % Radix) >= Radix
  BY <1>1 DEF Byte
<1>4. (Radix + (n % Radix)) % Radix = n % Radix
  BY <1>1
<1>5. n < Radix => n \in Byte /\ n % Radix = n
  BY <1>1 DEF Byte
<1>6. QED
  BY <1>1, <1>2, <1>3, <1>4, <1>5

\* encode_varint is defined by its equation.
LEMMA EncodeEquation ==
    /\ EncodeVarint \in [Nat -> Seq(Byte)]
    /\ \A n \in Nat :
          EncodeVarint[n] = IF n < Radix THEN <<n>>
                            ELSE <<Radix + (n % Radix)>> \o EncodeVarint[n \div Radix]
<1> DEFINE A == Seq(Byte)
           step == [x \in Nat \X [Nat -> A] |->
                       IF x[1] < Radix THEN <<x[1]>>
                       ELSE <<Radix + (x[1] % Radix)>> \o x[2][x[1] \div Radix]]
<1>1. ASSUME NEW n \in Nat, NEW g \in [Nat -> A]
      PROVE  /\ step[<<n, g>>] = IF n < Radix THEN <<n>>
                                 ELSE <<Radix + (n % Radix)>> \o g[n \div Radix]
             /\ step[<<n, g>>] \in A
  <2>1. step[<<n, g>>] = IF n < Radix THEN <<n>> ELSE <<Radix + (n % Radix)>> \o g[n \div Radix]
    OBVIOUS
  <2> HIDE DEF step
  <2>2. CASE n < Radix
    BY <2>1, <2>2, Digits
  <2>3. CASE ~ (n < Radix)
    <3>1. <<Radix + (n % Radix)>> \in Seq(Byte) /\ g[n \div Radix] \in Seq(Byte)
      BY Digits
    <3>2. QED
      BY <2>1, <2>3, <3>1, ConcatProperties
  <2>4. QED
    BY <2>1, <2>2, <2>3
<1>2. step \in [Nat \X [Nat -> A] -> A]
  <2>1. ASSUME NEW x \in Nat \X [Nat -> A] PROVE step[x] \in A
    <3>1. x[1] \in Nat /\ x[2] \in [Nat -> A] /\ x = <<x[1], x[2]>>
      OBVIOUS
    <3> HIDE DEF step
    <3>2. step[<<x[1], x[2]>>] \in A
      BY <1>1, <3>1
    <3>3. QED
      BY <3>1, <3>2
  <2>2. QED
    BY <2>1
<1>3. A # {}
  <2>1. <<>> \in A
    OBVIOUS
  <2>2. QED
    BY <2>1
<1>4. ASSUME NEW n \in Nat, NEW g \in [Nat -> A], NEW h \in [Nat -> A],
             \A m \in 0 .. n - 1 : g[m] = h[m]
      PROVE  step[<<n, g>>] = step[<<n, h>>]
  <2>1. n < Radix \/ g[n \div Radix] = h[n \div Radix]
    <3>1. n < Radix \/ n >= Radix
      BY PacketsAssumption
    <3>2. QED
      BY <1>4, <3>1, Digits
  <2>2. QED
    BY <1>1, <2>1
<1> HIDE DEF step, A
<1>5. PICK f \in [Nat -> A] : \A n \in Nat : f[n] = step[<<n, f>>]
  <2>1. \A n \in Nat : \A g, h \in [Nat -> A] :
            (\A m \in 0 .. n - 1 : g[m] = h[m]) => step[<<n, g>>] = step[<<n, h>>]
    BY <1>4
  <2>2. QED
    BY <1>2, <1>3, <2>1, Recursion, ZenonT(60)
<1>6. \A n \in Nat : f[n] = IF n < Radix THEN <<n>> ELSE <<Radix + (n % Radix)>> \o f[n \div Radix]
  BY <1>1, <1>5
<1>7. f = [n \in Nat |-> IF n < Radix THEN <<n>> ELSE <<Radix + (n % Radix)>> \o f[n \div Radix]]
  BY <1>5, <1>6
<1>8. EncodeVarint = [n \in Nat |-> IF n < Radix THEN <<n>>
                                    ELSE <<Radix + (n % Radix)>> \o EncodeVarint[n \div Radix]]
  BY <1>7, Zenon DEF EncodeVarint
<1>9. \A n \in Nat : EncodeVarint[n] = IF n < Radix THEN <<n>>
                                       ELSE <<Radix + (n % Radix)>> \o EncodeVarint[n \div Radix]
  BY <1>8, Zenon
<1> DEFINE Typed == {n \in Nat : EncodeVarint[n] \in Seq(Byte)}
<1>10. ASSUME NEW n \in Nat, \A m \in 0 .. n - 1 : m \in Typed PROVE n \in Typed
  <2>1. CASE n < Radix
    <3>1. EncodeVarint[n] = <<n>> /\ n \in Byte
      BY <1>9, <2>1, Digits
    <3>2. <<n>> \in Seq(Byte)
      BY <3>1
    <3>3. EncodeVarint[n] \in Seq(Byte)
      BY <3>1, <3>2, Zenon
    <3>4. QED
      BY <3>3
  <2>2. CASE ~ (n < Radix)
    <3>1. n \div Radix \in 0 .. n - 1 /\ <<Radix + (n % Radix)>> \in Seq(Byte)
      <4>1. n >= Radix
        BY <2>2, PacketsAssumption
      <4>2. QED
        BY <4>1, Digits
    <3>2. EncodeVarint[n \div Radix] \in Seq(Byte)
      BY <1>10, <3>1
    <3>3. EncodeVarint[n] = <<Radix + (n % Radix)>> \o EncodeVarint[n \div Radix]
      BY <1>9, <2>2
    <3>4. QED
      BY <3>1, <3>2, <3>3, ConcatProperties
  <2>3. QED
    BY <2>1, <2>2
<1>11. Typed = Nat
  <2>1. Typed \subseteq Nat
    OBVIOUS
  <2> HIDE DEF Typed
  <2>2. QED
    BY <1>10, <2>1, FromZero
<1>12. EncodeVarint \in [Nat -> Seq(Byte)]
  <2>1. \A n \in Nat : EncodeVarint[n] \in Seq(Byte)
    BY <1>11
  <2>2. QED
    BY <1>8, <2>1, Zenon
<1>13. QED
  BY <1>9, <1>12

\* Value is defined by its equation.
LEMMA ValueEquation ==
    \A count \in Nat, data \in Seq(Byte) :
        /\ Value[count][data] = IF count = 0 \/ data = <<>> THEN 0
                                ELSE (data[1] % Radix) + Radix * Value[count - 1][Tail(data)]
        /\ Value[count][data] \in Nat
<1> DEFINE A == [Seq(Byte) -> Nat]
           zero == [data \in Seq(Byte) |-> 0]
           Turn(v) == [data \in Seq(Byte) |->
                         IF data = <<>> THEN 0 ELSE (data[1] % Radix) + Radix * v[Tail(data)]]
           step == [x \in Nat \X [Nat -> A] |-> IF x[1] = 0 THEN zero ELSE Turn(x[2][x[1] - 1])]
<1>1. ASSUME NEW v \in A PROVE Turn(v) \in A
  <2>1. ASSUME NEW data \in Seq(Byte), data # <<>>
        PROVE  (data[1] % Radix) + Radix * v[Tail(data)] \in Nat
    <3>1. data[1] \in Byte /\ Tail(data) \in Seq(Byte)
      BY <2>1
    <3>2. Radix \in Nat \ {0} /\ v[Tail(data)] \in Nat
      <4>1. Radix \in Nat \ {0}
        BY PacketsAssumption
      <4>2. v[Tail(data)] \in Nat
        BY <3>1
      <4>3. QED
        BY <4>1, <4>2
    <3>3. data[1] % Radix \in Nat
      BY <3>1, <3>2 DEF Byte
    <3> DEFINE y == v[Tail(data)]
    <3>4. y \in Nat
      BY <3>2
    <3> HIDE DEF y
    <3>5. Radix * y \in Nat
      BY <3>2, <3>4
    <3>6. (data[1] % Radix) + Radix * y \in Nat
      BY <3>3, <3>5
    <3>7. QED
      BY <3>6 DEF y
  <2>2. QED
    BY <2>1
<1>2. zero \in A
  OBVIOUS
<1> HIDE DEF Turn, zero, A
<1>3. ASSUME NEW n \in Nat, NEW g \in [Nat -> A]
      PROVE  /\ step[<<n, g>>] = IF n = 0 THEN zero ELSE Turn(g[n - 1])
             /\ step[<<n, g>>] \in A
  <2>1. step[<<n, g>>] = IF n = 0 THEN zero ELSE Turn(g[n - 1])
    OBVIOUS
  <2> HIDE DEF step
  <2>2. n # 0 => g[n - 1] \in A
    OBVIOUS
  <2>3. QED
    BY <1>1, <1>2, <2>1, <2>2
<1>4. step \in [Nat \X [Nat -> A] -> A]
  <2>1. ASSUME NEW x \in Nat \X [Nat -> A] PROVE step[x] \in A
    <3>1. x[1] \in Nat /\ x[2] \in [Nat -> A] /\ x = <<x[1], x[2]>>
      OBVIOUS
    <3> HIDE DEF step
    <3>2. step[<<x[1], x[2]>>] \in A
      BY <1>3, <3>1
    <3>3. QED
      BY <3>1, <3>2
  <2>2. QED
    BY <2>1
<1> HIDE DEF step
<1>5. \A n \in Nat : \A g, h \in [Nat -> A] :
          (\A m \in 0 .. n - 1 : g[m] = h[m]) => step[<<n, g>>] = step[<<n, h>>]
  <2> SUFFICES ASSUME NEW n \in Nat, NEW g \in [Nat -> A], NEW h \in [Nat -> A],
                      \A m \in 0 .. n - 1 : g[m] = h[m]
               PROVE  step[<<n, g>>] = step[<<n, h>>]
    OBVIOUS
  <2>1. n = 0 \/ g[n - 1] = h[n - 1]
    OBVIOUS
  <2>2. QED
    BY <1>3, <2>1
<1>6. PICK f \in [Nat -> A] : \A n \in Nat : f[n] = step[<<n, f>>]
  <2>1. A # {}
    BY <1>2
  <2>2. QED
    BY <1>4, <1>5, <2>1, Recursion, ZenonT(60)
<1>7. \A n \in Nat : f[n] = IF n = 0 THEN zero ELSE Turn(f[n - 1])
  BY <1>3, <1>6
<1> DEFINE Body(g) == [n \in Nat |->
               [data \in Seq(Byte) |->
                   IF n = 0 \/ data = <<>> THEN 0
                   ELSE (data[1] % Radix) + Radix * g[n - 1][Tail(data)]]]
<1>8. f = Body(f)
  <2>1. ASSUME NEW n \in Nat
        PROVE  f[n] = [data \in Seq(Byte) |->
                          IF n = 0 \/ data = <<>> THEN 0
                          ELSE (data[1] % Radix) + Radix * f[n - 1][Tail(data)]]
    <3>1. CASE n = 0
      BY <1>7, <3>1 DEF zero
    <3>2. CASE n # 0
      BY <1>7, <3>2 DEF Turn
    <3>3. QED
      BY <3>1, <3>2
  <2>2. QED
    BY <1>6, <2>1
<1>9. Value = Body(Value)
  BY <1>8, Zenon DEF Value
<1>10. ASSUME NEW count \in Nat, NEW data \in Seq(Byte)
       PROVE  Value[count][data] = IF count = 0 \/ data = <<>> THEN 0
                                   ELSE (data[1] % Radix) + Radix * Value[count - 1][Tail(data)]
  <2>1. Body(Value)[count][data] = IF count = 0 \/ data = <<>> THEN 0
                                   ELSE (data[1] % Radix) + Radix * Value[count - 1][Tail(data)]
    OBVIOUS
  <2> HIDE DEF Body
  <2>2. QED
    BY <1>9, <2>1, Zenon
<1> DEFINE Typed == {n \in Nat : \A data \in Seq(Byte) : Value[n][data] \in Nat}
<1>11. ASSUME NEW n \in Nat, \A m \in 0 .. n - 1 : m \in Typed PROVE n \in Typed
  <2> SUFFICES ASSUME NEW data \in Seq(Byte) PROVE Value[n][data] \in Nat
    OBVIOUS
  <2>1. CASE n = 0 \/ data = <<>>
    BY <1>10, <2>1
  <2>2. CASE n # 0 /\ data # <<>>
    <3>1. data[1] \in Byte /\ Tail(data) \in Seq(Byte) /\ n - 1 \in 0 .. n - 1
      BY <2>2
    <3> DEFINE y == Value[n - 1][Tail(data)]
    <3>2. Radix \in Nat \ {0} /\ y \in Nat
      <4>1. Radix \in Nat \ {0}
        BY PacketsAssumption
      <4>2. n - 1 \in Typed
        BY <1>11, <3>1
      <4>3. y \in Nat
        BY <3>1, <4>2
      <4>4. QED
        BY <4>1, <4>3
    <3>3. data[1] % Radix \in Nat
      BY <3>1, <3>2 DEF Byte
    <3>4. Value[n][data] = (data[1] % Radix) + Radix * y
      BY <1>10, <2>2
    <3> HIDE DEF y
    <3>5. Radix * y \in Nat
      BY <3>2
    <3>6. QED
      BY <3>3, <3>4, <3>5
  <2>3. QED
    BY <2>1, <2>2
<1>12. Typed = Nat
  <2>1. Typed \subseteq Nat
    OBVIOUS
  <2> HIDE DEF Typed
  <2>2. QED
    BY <1>11, <2>1, FromZero
<1>13. QED
  BY <1>10, <1>12

\* One digit of a value.
LEMMA ValueStep ==
    ASSUME NEW k \in Nat, NEW data \in Seq(Byte), data # <<>>
    PROVE  Value[k + 1][data] = (data[1] % Radix) + Radix * Value[k][Tail(data)]
<1>1. k + 1 \in Nat /\ k + 1 # 0 /\ (k + 1) - 1 = k
  OBVIOUS
<1>2. Value[k + 1][data] = IF k + 1 = 0 \/ data = <<>> THEN 0
                           ELSE (data[1] % Radix) + Radix * Value[(k + 1) - 1][Tail(data)]
  BY <1>1, ValueEquation
<1>3. QED
  BY <1>1, <1>2, Zenon

\* What encode_varint writes of n, and what read_varint makes of it.
Coded(n) ==
    /\ EncodeVarint[n] \in Seq(Byte) /\ Len(EncodeVarint[n]) \in Nat \ {0}
    /\ \A i \in 1 .. Len(EncodeVarint[n]) - 1 : EncodeVarint[n][i] >= Radix
    /\ EncodeVarint[n][Len(EncodeVarint[n])] < Radix
    /\ \A rest \in Seq(Byte) : Value[Len(EncodeVarint[n])][EncodeVarint[n] \o rest] = n

\* All bytes but the last are marked, and they are read back, whatever follows.
LEMMA Coding == \A n \in Nat : Coded(n)
<1> DEFINE Good == {n \in Nat : Coded(n)}
<1>1. ASSUME NEW n \in Nat, \A m \in 0 .. n - 1 : m \in Good PROVE Coded(n)
  <2>1. CASE n < Radix
    <3>1. EncodeVarint[n] = <<n>> /\ n \in Byte /\ n % Radix = n
      BY <2>1, EncodeEquation, Digits
    <3> DEFINE e == <<n>>
    <3>2. e \in Seq(Byte) /\ Len(e) = 1 /\ e[1] = n
      BY <3>1
    <3>3. ASSUME NEW rest \in Seq(Byte) PROVE Value[1][e \o rest] = n
      <4> DEFINE data == e \o rest
      <4>1. data \in Seq(Byte) /\ data # <<>> /\ data[1] = n /\ Tail(data) = rest
        <5>1. data \in Seq(Byte) /\ Len(data) = 1 + Len(rest)
              /\ \A i \in 1 .. Len(data) : data[i] = IF i <= 1 THEN e[i] ELSE rest[i - 1]
          BY <3>2, ConcatProperties
        <5>2. Len(rest) \in Nat
          OBVIOUS
        <5> HIDE DEF data, e
        <5>3. data # <<>> /\ data[1] = n
          BY <3>2, <5>1, <5>2
        <5>4. Tail(data) \in Seq(Byte) /\ Len(Tail(data)) = Len(rest)
              /\ \A i \in 1 .. Len(Tail(data)) : Tail(data)[i] = data[i + 1]
          BY <5>1, <5>2, <5>3, HeadTailProperties
        <5>5. \A i \in 1 .. Len(rest) : data[i + 1] = rest[i]
          BY <5>1, <5>2
        <5>6. Tail(data) = rest
          BY <5>4, <5>5, SeqEqual
        <5>7. QED
          BY <5>1, <5>3, <5>6
      <4> HIDE DEF data
      <4>2. Value[1][data] = (data[1] % Radix) + Radix * Value[0][rest]
        <5>1. 0 \in Nat /\ 0 + 1 = 1
          OBVIOUS
        <5>2. Value[0 + 1][data] = (data[1] % Radix) + Radix * Value[0][Tail(data)]
          BY <4>1, <5>1, ValueStep
        <5>3. QED
          BY <4>1, <5>1, <5>2, Zenon
      <4>3. Value[0][rest] = 0
        BY ValueEquation
      <4>4. n + Radix * 0 = n
        BY PacketsAssumption
      <4>5. QED
        BY <3>1, <4>1, <4>2, <4>3, <4>4 DEF data
    <3>4. QED
      BY <2>1, <3>1, <3>2, <3>3 DEF Coded
  <2>2. CASE n >= Radix
    <3> DEFINE q == n \div Radix
               b == Radix + (n % Radix)
               e == EncodeVarint[q]
    <3>1. /\ q \in 0 .. n - 1 /\ q \in Nat /\ Radix \in Nat /\ Radix > 1
          /\ b \in Byte /\ b >= Radix /\ b % Radix = n % Radix
          /\ n = Radix * q + (n % Radix) /\ n % Radix \in Nat
      BY <2>2, Digits
    <3>2. EncodeVarint[n] = <<b>> \o e
      <4>1. ~ (n < Radix)
        BY <2>2, <3>1
      <4>2. QED
        BY <4>1, EncodeEquation, Zenon
    <3>3. Coded(q)
      BY <1>1, <3>1
    <3> HIDE DEF q, b
    <3>4. /\ e \in Seq(Byte) /\ Len(e) \in Nat \ {0}
          /\ \A i \in 1 .. Len(e) - 1 : e[i] >= Radix
          /\ e[Len(e)] < Radix
          /\ \A rest \in Seq(Byte) : Value[Len(e)][e \o rest] = q
      BY <3>3 DEF Coded
    <3> HIDE DEF e
    <3> DEFINE w == <<b>> \o e
    <3>5. /\ w \in Seq(Byte) /\ Len(w) = Len(e) + 1
          /\ \A i \in 1 .. Len(w) : w[i] = IF i <= 1 THEN b ELSE e[i - 1]
      <4> DEFINE s == <<b>>
      <4>1. s \in Seq(Byte) /\ Len(s) = 1 /\ s[1] = b
        BY <3>1
      <4> HIDE DEF s
      <4>2. /\ s \o e \in Seq(Byte) /\ Len(s \o e) = 1 + Len(e)
            /\ \A i \in 1 .. 1 + Len(e) : (s \o e)[i] = IF i <= 1 THEN s[i] ELSE e[i - 1]
        <5>1. /\ s \o e \in Seq(Byte) /\ Len(s \o e) = Len(s) + Len(e)
              /\ \A i \in 1 .. Len(s) + Len(e) :
                    (s \o e)[i] = IF i <= Len(s) THEN s[i] ELSE e[i - Len(s)]
          BY <3>4, <4>1, ConcatProperties
        <5>2. QED
          BY <4>1, <5>1, Zenon
      <4>3. \A i \in 1 .. 1 + Len(e) : (s \o e)[i] = IF i <= 1 THEN b ELSE e[i - 1]
        BY <4>1, <4>2
      <4>4. QED
        BY <3>4, <4>2, <4>3 DEF s
    <3>6. ASSUME NEW rest \in Seq(Byte)
          PROVE  /\ w \o rest \in Seq(Byte) /\ w \o rest # <<>>
                 /\ (w \o rest)[1] = b /\ Tail(w \o rest) = e \o rest
      <4> DEFINE r == e \o rest
      <4>1. w \o rest = <<b>> \o r /\ r \in Seq(Byte)
        BY <3>1, <3>4, ConcatAssociative, ConcatProperties
      <4> HIDE DEF w, r
      <4>2. <<b>> \o r \in Seq(Byte) /\ <<b>> \o r # <<>> /\ (<<b>> \o r)[1] = b /\ Tail(<<b>> \o r) = r
        BY <3>1, <4>1
      <4>3. QED
        BY <4>1, <4>2 DEF r
    <3>7. ASSUME NEW rest \in Seq(Byte) PROVE Value[Len(w)][w \o rest] = n
      <4> HIDE DEF w
      <4>1. Len(w) = Len(e) + 1 /\ Len(e) \in Nat
        BY <3>4, <3>5
      <4>2. Value[Len(w)][w \o rest] = (b % Radix) + Radix * Value[Len(e)][e \o rest]
        <5>1. Value[Len(e) + 1][w \o rest] = ((w \o rest)[1] % Radix) + Radix * Value[Len(e)][Tail(w \o rest)]
          BY <3>6, <4>1, ValueStep
        <5>2. QED
          BY <3>6, <4>1, <5>1, Zenon
      <4>3. Value[Len(e)][e \o rest] = q
        BY <3>4
      <4>4. (n % Radix) + Radix * q = n
        BY <3>1
      <4>5. QED
        BY <3>1, <4>2, <4>3, <4>4
    <3>8. QED
      <4>1. EncodeVarint[n] = w
        BY <3>2
      <4> HIDE DEF w
      <4>2. \A i \in 1 .. Len(w) - 1 : w[i] >= Radix
        <5>1. ASSUME NEW i \in 1 .. Len(w) - 1 PROVE w[i] >= Radix
          <6>1. Len(w) - 1 = Len(e) /\ Len(e) \in Nat /\ i \in 1 .. Len(w)
            BY <3>4, <3>5
          <6>2. CASE i <= 1
            BY <3>1, <3>5, <6>1, <6>2
          <6>3. CASE ~ (i <= 1)
            <7>1. i - 1 \in 1 .. Len(e) - 1
              BY <6>1, <6>3
            <7>2. w[i] = e[i - 1]
              BY <3>5, <6>1, <6>3
            <7>3. QED
              BY <3>4, <7>1, <7>2
          <6>4. QED
            BY <6>2, <6>3
        <5>2. QED
          BY <5>1
      <4>3. w[Len(w)] < Radix
        BY <3>4, <3>5
      <4>4. QED
        BY <3>4, <3>5, <3>7, <4>1, <4>2, <4>3 DEF Coded
  <2>3. QED
    BY <2>1, <2>2, PacketsAssumption
<1>2. Good = Nat
  <2>1. Good \subseteq Nat
    OBVIOUS
  <2>2. \A n \in Nat : (\A m \in 0 .. n - 1 : m \in Good) => n \in Good
    BY <1>1
  <2> HIDE DEF Good
  <2>3. QED
    BY <2>1, <2>2, FromZero
<1>3. QED
  BY <1>2

-----------------------------------------------------------------------------
\* Packets

\* The bytes of a packet.
LEMMA EncodeBytes ==
    ASSUME NEW body \in Seq(Byte)
    PROVE  LET e == EncodeVarint[Len(body)]
               k == Len(e)
           IN  /\ Encode(body) \in Seq(Byte)
               /\ Len(body) \in Nat /\ k \in Nat \ {0} /\ e \in Seq(Byte)
               /\ Len(Encode(body)) = 1 + k + Len(body)
               /\ \A i \in 1 .. k : Encode(body)[1 + i] = e[i]
               /\ \A i \in 1 .. Len(body) : Encode(body)[1 + k + i] = body[i]
<1> DEFINE e == EncodeVarint[Len(body)]
           k == Len(e)
           f == <<FirstByte>>
<1>1. Len(body) \in Nat /\ k \in Nat \ {0} /\ e \in Seq(Byte)
  BY Coding DEF Coded
<1>2. f \in Seq(Byte) /\ Len(f) = 1
  BY PacketsAssumption
<1>3. Encode(body) = (f \o e) \o body
  BY DEF Encode
<1> HIDE DEF e, f
<1>4. /\ f \o e \in Seq(Byte) /\ Len(f \o e) = 1 + k
      /\ \A i \in 1 .. 1 + k : (f \o e)[i] = IF i <= 1 THEN f[i] ELSE e[i - 1]
  <2>1. /\ f \o e \in Seq(Byte) /\ Len(f \o e) = Len(f) + Len(e)
        /\ \A i \in 1 .. Len(f) + Len(e) : (f \o e)[i] = IF i <= Len(f) THEN f[i] ELSE e[i - Len(f)]
    BY <1>1, <1>2, ConcatProperties
  <2>2. QED
    BY <1>2, <2>1, Zenon
<1> DEFINE h == f \o e
<1>5. h \in Seq(Byte) /\ Len(h) = 1 + k /\ \A i \in 1 .. k : h[1 + i] = e[i]
  <2>1. ASSUME NEW i \in 1 .. k PROVE h[1 + i] = e[i]
    <3>1. 1 + i \in 1 .. 1 + k /\ ~ (1 + i <= 1) /\ (1 + i) - 1 = i
      BY <1>1
    <3>2. h[1 + i] = e[(1 + i) - 1]
      BY <1>4, <3>1
    <3>3. QED
      BY <3>1, <3>2
  <2>2. QED
    BY <1>4, <2>1
<1> HIDE DEF h
<1>6. /\ h \o body \in Seq(Byte) /\ Len(h \o body) = 1 + k + Len(body)
      /\ \A i \in 1 .. 1 + k + Len(body) : (h \o body)[i] = IF i <= 1 + k THEN h[i] ELSE body[i - (1 + k)]
  <2>1. /\ h \o body \in Seq(Byte) /\ Len(h \o body) = Len(h) + Len(body)
        /\ \A i \in 1 .. Len(h) + Len(body) :
              (h \o body)[i] = IF i <= Len(h) THEN h[i] ELSE body[i - Len(h)]
    <3>1. h \in Seq(Byte)
      BY <1>5
    <3>2. QED
      BY <3>1, ConcatProperties
  <2>2. QED
    BY <1>5, <2>1, Zenon
<1> HIDE DEF k
<1>7. \A i \in 1 .. k : (h \o body)[1 + i] = e[i]
  <2> SUFFICES ASSUME NEW i \in 1 .. k PROVE (h \o body)[1 + i] = e[i]
    OBVIOUS
  <2>1. 1 + i \in 1 .. 1 + k + Len(body) /\ 1 + i <= 1 + k
    BY <1>1
  <2>2. QED
    BY <1>5, <1>6, <2>1
<1>8. \A i \in 1 .. Len(body) : (h \o body)[1 + k + i] = body[i]
  <2> SUFFICES ASSUME NEW i \in 1 .. Len(body) PROVE (h \o body)[1 + k + i] = body[i]
    OBVIOUS
  <2>1. 1 + k + i \in 1 .. 1 + k + Len(body) /\ ~ (1 + k + i <= 1 + k) /\ (1 + k + i) - (1 + k) = i
    BY <1>1
  <2>2. (h \o body)[1 + k + i] = body[(1 + k + i) - (1 + k)]
    BY <1>6, <2>1
  <2>3. QED
    BY <2>1, <2>2
<1>9. Encode(body) = h \o body
  BY <1>3 DEF h
<1>10. QED
  BY <1>1, <1>6, <1>7, <1>8, <1>9 DEF e, k

\* A packet is never empty.
LEMMA PacketSize ==
    ASSUME NEW body \in Seq(Byte)
    PROVE  Encode(body) \in Seq(Byte) /\ Len(Encode(body)) \in Nat \ {0}
<1> DEFINE k == Len(EncodeVarint[Len(body)])
           n == Len(body)
<1>1. Encode(body) \in Seq(Byte) /\ n \in Nat /\ k \in Nat \ {0} /\ Len(Encode(body)) = 1 + k + n
  BY EncodeBytes
<1> HIDE DEF k, n
<1>2. 1 + k + n \in Nat \ {0}
  BY <1>1
<1>3. QED
  BY <1>1, <1>2

\* The bytes at hand are those of the packet, as far as they go.
Begins(buf, body) ==
    \A j \in 1 .. Len(buf) : j <= Len(Encode(body)) => buf[j] = Encode(body)[j]

\* What read_varint finds in the bytes at hand: nothing until the length is
\* there, then the length.
LEMMA HeadRead ==
    ASSUME NEW body \in Seq(Byte), NEW buf \in Seq(Byte), Begins(buf, body)
    PROVE  LET k == Len(EncodeVarint[Len(body)])
           IN  ReadVarint(buf, 2) = IF k <= MaxVarint /\ Len(buf) >= 1 + k
                                    THEN [value |-> Len(body), next |-> 2 + k]
                                    ELSE NoVarint
<1> DEFINE n == Len(body)
           e == EncodeVarint[n]
           k == Len(e)
           ends == {x \in 0 .. MaxVarint - 1 : 2 + x <= Len(buf) /\ buf[2 + x] < Radix}
<1>1. /\ n \in Nat /\ k \in Nat \ {0} /\ e \in Seq(Byte) /\ Len(Encode(body)) = 1 + k + n
      /\ \A i \in 1 .. k : Encode(body)[1 + i] = e[i]
      /\ Len(buf) \in Nat /\ MaxVarint \in Nat
  BY EncodeBytes, PacketsAssumption
<1>2. /\ \A i \in 1 .. k - 1 : e[i] >= Radix
      /\ e[k] < Radix
      /\ \A rest \in Seq(Byte) : Value[k][e \o rest] = n
  BY <1>1, Coding DEF Coded
<1> HIDE DEF n, e, k
<1>3. ASSUME NEW x \in 0 .. k - 1, 2 + x <= Len(buf)
      PROVE  buf[2 + x] = e[x + 1] /\ x + 1 \in 1 .. k
  <2>1. x + 1 \in 1 .. k /\ 2 + x \in 1 .. Len(buf) /\ 2 + x <= 1 + k + n /\ 1 + (x + 1) = 2 + x
    BY <1>1, <1>3
  <2>2. buf[2 + x] = Encode(body)[2 + x]
    BY <1>1, <2>1 DEF Begins
  <2>3. Encode(body)[1 + (x + 1)] = e[x + 1]
    BY <1>1, <2>1
  <2>4. QED
    BY <2>1, <2>2, <2>3
<1>4. \A x \in ends : x >= k - 1
  <2> SUFFICES ASSUME NEW x \in ends, x < k - 1 PROVE FALSE
    BY <1>1
  <2>1. x \in 0 .. k - 1 /\ 2 + x <= Len(buf) /\ buf[2 + x] < Radix /\ x + 1 \in 1 .. k - 1
    BY <1>1
  <2>2. e[x + 1] >= Radix
    BY <1>2, <2>1
  <2>3. buf[2 + x] = e[x + 1] /\ x + 1 \in 1 .. k
    BY <1>3, <2>1
  <2>4. e[x + 1] \in Byte
    BY <1>1, <2>3
  <2>5. e[x + 1] \in Nat /\ Radix \in Nat
    BY <2>4, PacketsAssumption DEF Byte
  <2>6. QED
    BY <2>1, <2>2, <2>3, <2>5
<1>5. k - 1 \in ends <=> k <= MaxVarint /\ Len(buf) >= 1 + k
  <2>1. k - 1 \in 0 .. k - 1 /\ 2 + (k - 1) = 1 + k /\ (k - 1) + 1 = k
    BY <1>1
  <2>2. CASE k <= MaxVarint /\ Len(buf) >= 1 + k
    <3>1. buf[2 + (k - 1)] < Radix
      BY <1>2, <1>3, <2>1, <2>2
    <3>2. QED
      BY <1>1, <2>1, <2>2, <3>1
  <2>3. CASE ~ (k <= MaxVarint /\ Len(buf) >= 1 + k)
    BY <1>1, <2>3
  <2>4. QED
    BY <2>2, <2>3
<1>6. CASE ~ (k <= MaxVarint /\ Len(buf) >= 1 + k)
  <2>1. ASSUME NEW x \in ends PROVE FALSE
    <3>1. x \in 0 .. MaxVarint - 1 /\ 2 + x <= Len(buf) /\ x >= k - 1
      BY <1>4
    <3>2. QED
      BY <1>1, <1>6, <3>1
  <2>2. ends = {}
    BY <2>1
  <2>3. QED
    BY <1>6, <2>2 DEF ReadVarint, n, e, k
<1>7. CASE k <= MaxVarint /\ Len(buf) >= 1 + k
  <2>1. k - 1 \in ends /\ ends \subseteq Nat /\ ends # {}
    <3>1. k - 1 \in ends
      BY <1>5, <1>7
    <3>2. ends \subseteq Nat
      BY <1>1
    <3>3. QED
      BY <3>1, <3>2
  <2>2. Min(ends) = k - 1
    <3>1. Min(ends) \in ends /\ \A y \in ends : Min(ends) <= y
      BY <2>1, MinIsLeast
    <3>2. Min(ends) >= k - 1 /\ Min(ends) <= k - 1 /\ Min(ends) \in Nat
      BY <1>4, <2>1, <3>1
    <3>3. QED
      BY <1>1, <3>2
  <2>3. ReadVarint(buf, 2) = [value |-> Value[Min(ends) + 1][SubSeq(buf, 2, Len(buf))],
                              next |-> 2 + Min(ends) + 1]
    BY <2>1 DEF ReadVarint
  <2> HIDE DEF ends
  <2>4. (k - 1) + 1 = k /\ 2 + (k - 1) + 1 = 2 + k
    BY <1>1
  <2>5. ReadVarint(buf, 2) = [value |-> Value[k][SubSeq(buf, 2, Len(buf))], next |-> 2 + k]
    BY <2>2, <2>3, <2>4
  <2> DEFINE rest == SubSeq(buf, 2 + k, Len(buf))
             all == SubSeq(buf, 2, Len(buf))
  <2>6. /\ rest \in Seq(Byte) /\ Len(rest) = Len(buf) - (1 + k)
        /\ \A i \in 1 .. Len(buf) - (1 + k) : rest[i] = buf[1 + k + i]
    <3>1. \A i \in 2 + k .. Len(buf) : buf[i] \in Byte
      BY <1>1
    <3>2. /\ rest \in Seq(Byte)
          /\ Len(rest) = IF 2 + k <= Len(buf) THEN Len(buf) - (2 + k) + 1 ELSE 0
          /\ \A i \in 1 .. Len(buf) - (2 + k) + 1 : rest[i] = buf[(2 + k) + i - 1]
      BY <1>1, <3>1, SubSeqProperties
    <3>3. /\ Len(buf) - (2 + k) + 1 = Len(buf) - (1 + k)
          /\ \A i \in Nat : (2 + k) + i - 1 = 1 + k + i
          /\ ~ (2 + k <= Len(buf)) => Len(buf) - (1 + k) = 0
      BY <1>1, <1>7
    <3> HIDE DEF rest
    <3>4. ASSUME NEW i \in 1 .. Len(buf) - (1 + k) PROVE rest[i] = buf[1 + k + i]
      <4>1. Len(buf) \in Nat /\ k \in Nat
        BY <1>1
      <4>2. i \in Nat /\ i \in 1 .. Len(buf) - (2 + k) + 1
        BY <4>1
      <4>3. QED
        BY <3>2, <3>3, <4>2
    <3>5. Len(rest) = Len(buf) - (1 + k)
      BY <3>2, <3>3
    <3>6. QED
      BY <3>2, <3>4, <3>5
  <2>7. /\ all \in Seq(Byte) /\ Len(all) = Len(buf) - 1
        /\ \A i \in 1 .. Len(buf) - 1 : all[i] = buf[1 + i]
    <3>1. \A i \in 2 .. Len(buf) : buf[i] \in Byte
      BY <1>1
    <3>2. /\ all \in Seq(Byte)
          /\ Len(all) = IF 2 <= Len(buf) THEN Len(buf) - 2 + 1 ELSE 0
          /\ \A i \in 1 .. Len(buf) - 2 + 1 : all[i] = buf[2 + i - 1]
      BY <1>1, <3>1, SubSeqProperties
    <3> HIDE DEF all
    <3>3. Len(all) = Len(buf) - 1
      BY <1>1, <1>7, <3>2
    <3>4. ASSUME NEW i \in 1 .. Len(buf) - 1 PROVE all[i] = buf[1 + i]
      <4>1. i \in 1 .. Len(buf) - 2 + 1 /\ 2 + i - 1 = 1 + i
        BY <1>1
      <4>2. QED
        BY <3>2, <4>1
    <3>5. QED
      BY <3>2, <3>3, <3>4
  <2> HIDE DEF all, rest
  <2>8. all = e \o rest
    <3>1. /\ e \o rest \in Seq(Byte) /\ Len(e \o rest) = k + Len(rest)
          /\ \A i \in 1 .. k + Len(rest) : (e \o rest)[i] = IF i <= k THEN e[i] ELSE rest[i - k]
      <4>1. /\ e \o rest \in Seq(Byte) /\ Len(e \o rest) = Len(e) + Len(rest)
            /\ \A i \in 1 .. Len(e) + Len(rest) :
                  (e \o rest)[i] = IF i <= Len(e) THEN e[i] ELSE rest[i - Len(e)]
        BY <1>1, <2>6, ConcatProperties
      <4>2. QED
        BY <4>1, Zenon DEF k
    <3>2. k + Len(rest) = Len(buf) - 1
      BY <1>1, <2>6
    <3>3. ASSUME NEW i \in 1 .. Len(buf) - 1 PROVE all[i] = (e \o rest)[i]
      <4>1. all[i] = buf[1 + i]
        BY <2>7
      <4>2. CASE i <= k
        <5>1. i - 1 \in 0 .. k - 1 /\ 2 + (i - 1) = 1 + i /\ (i - 1) + 1 = i /\ 2 + (i - 1) <= Len(buf)
          BY <1>1, <4>2
        <5>2. buf[2 + (i - 1)] = e[(i - 1) + 1]
          BY <1>3, <5>1
        <5>3. buf[1 + i] = e[i]
          BY <5>1, <5>2
        <5>4. (e \o rest)[i] = e[i]
          BY <3>1, <3>2, <4>2
        <5>5. QED
          BY <4>1, <5>3, <5>4
      <4>3. CASE ~ (i <= k)
        <5>1. i - k \in 1 .. Len(buf) - (1 + k) /\ 1 + k + (i - k) = 1 + i
          BY <1>1, <4>3
        <5>2. rest[i - k] = buf[1 + k + (i - k)]
          BY <2>6, <5>1
        <5>3. (e \o rest)[i] = rest[i - k]
          BY <3>1, <3>2, <4>3
        <5>4. QED
          BY <4>1, <5>1, <5>2, <5>3
      <4>4. QED
        BY <4>2, <4>3
    <3>4. QED
      BY <2>7, <3>1, <3>2, <3>3, SeqEqual
  <2>9. Value[k][all] = n
    BY <1>2, <2>6, <2>8
  <2>10. ReadVarint(buf, 2) = [value |-> n, next |-> 2 + k]
    BY <2>5, <2>9 DEF all
  <2>11. QED
    BY <1>7, <2>10 DEF n, e, k
<1>8. QED
  BY <1>6, <1>7

-----------------------------------------------------------------------------
\* The stream of packets

\* Where the packets behind the first "from" of a queue end in the bytes on
\* their way.
Cuts(cut, data, queue, from) ==
    /\ cut \in [Nat -> Nat] /\ from \in 0 .. Len(queue)
    /\ cut[from] = 0 /\ cut[Len(queue)] = Len(data)
    /\ \A i, j \in from .. Len(queue) : i <= j => cut[i] <= cut[j]
    /\ \A i \in from .. Len(queue) - 1 :
          /\ cut[i + 1] = cut[i] + Len(Encode(queue[i + 1]))
          /\ \A j \in 1 .. Len(Encode(queue[i + 1])) :
                data[cut[i] + j] = Encode(queue[i + 1])[j]

\* The bytes are those packets, one after the other.
Framed(data, queue, from) == \E cut : Cuts(cut, data, queue, from)

\* One more packet at the end.
LEMMA FramedMore ==
    ASSUME NEW data \in Seq(Byte), NEW queue \in Seq(Seq(Byte)), NEW body \in Seq(Byte),
           NEW from \in Nat, Framed(data, queue, from)
    PROVE  Framed(data \o Encode(body), Append(queue, body), from)
<1> DEFINE s == Len(queue)
           q == Append(queue, body)
           d == data \o Encode(body)
           w == Len(Encode(body))
<1>1. PICK cut : Cuts(cut, data, queue, from)
  BY DEF Framed
<1>2. /\ s \in Nat /\ Len(q) = s + 1 /\ q[s + 1] = body /\ \A i \in 1 .. s : q[i] = queue[i]
  BY AppendProperties
<1>3. Encode(body) \in Seq(Byte) /\ w \in Nat /\ Len(data) \in Nat
  <2>1. Encode(body) \in Seq(Byte)
    BY EncodeBytes
  <2>2. QED
    BY <2>1
<1>4. /\ Len(d) = Len(data) + w
      /\ \A i \in 1 .. Len(data) + w : d[i] = IF i <= Len(data) THEN data[i] ELSE Encode(body)[i - Len(data)]
  BY <1>3, ConcatProperties
<1>5. /\ cut \in [Nat -> Nat] /\ from \in 0 .. s
      /\ cut[from] = 0 /\ cut[s] = Len(data)
      /\ \A i, j \in from .. s : i <= j => cut[i] <= cut[j]
      /\ \A i \in from .. s - 1 :
            /\ cut[i + 1] = cut[i] + Len(Encode(queue[i + 1]))
            /\ \A j \in 1 .. Len(Encode(queue[i + 1])) :
                  data[cut[i] + j] = Encode(queue[i + 1])[j]
  BY <1>1 DEF Cuts
<1> DEFINE end == Len(data) + w
           more == [cut EXCEPT ![s + 1] = end]
<1> HIDE DEF s, q, d, w
<1>6. end \in Nat /\ end >= Len(data)
  BY <1>3
<1>7. /\ more \in [Nat -> Nat] /\ more[s + 1] = end
      /\ \A i \in from .. s : more[i] = cut[i]
  <2> HIDE DEF end
  <2>1. \A i \in from .. s : i \in Nat /\ i # s + 1
    <3>1. s \in Nat
      BY <1>2
    <3>2. QED
      BY <3>1
  <2>2. s + 1 \in Nat
    BY <1>2
  <2>3. QED
    BY <1>5, <1>6, <2>1, <2>2
<1> HIDE DEF more, end
<1>8. \A x \in from .. s : x \in Nat /\ cut[x] \in Nat /\ cut[x] <= Len(data)
  <2> SUFFICES ASSUME NEW x \in from .. s PROVE x \in Nat /\ cut[x] \in Nat /\ cut[x] <= Len(data)
    OBVIOUS
  <2>1. s \in Nat
    BY <1>2
  <2>2. x \in Nat /\ s \in from .. s /\ x <= s
    BY <2>1
  <2>3. cut[x] <= cut[s]
    BY <1>5, <2>2
  <2>4. QED
    BY <1>5, <2>2, <2>3
<1>9. ASSUME NEW i \in from .. s + 1, NEW j \in from .. s + 1, i <= j PROVE more[i] <= more[j]
  <2>2. CASE j = s + 1 /\ i = s + 1
    BY <1>6, <1>7, <2>2
  <2>3. CASE j = s + 1 /\ i # s + 1
    <3>1. i \in from .. s
      BY <1>2, <1>5, <2>3
    <3>2. cut[i] \in Nat /\ cut[i] <= Len(data) /\ more[i] = cut[i] /\ more[j] = end
      BY <1>7, <1>8, <2>3, <3>1
    <3>3. QED
      BY <1>3, <1>6, <3>2
  <2>4. CASE j # s + 1
    <3>1. i \in from .. s /\ j \in from .. s
      BY <1>2, <1>5, <1>9, <2>4
    <3>2. QED
      BY <1>5, <1>7, <1>9, <3>1
  <2>5. QED
    BY <2>2, <2>3, <2>4
<1>10. ASSUME NEW i \in from .. s
      PROVE  /\ more[i + 1] = more[i] + Len(Encode(q[i + 1]))
             /\ \A j \in 1 .. Len(Encode(q[i + 1])) : d[more[i] + j] = Encode(q[i + 1])[j]
  <2>1. CASE i = s
    <3>1. more[i + 1] = end /\ more[i] = Len(data) /\ q[i + 1] = body
      BY <1>2, <1>5, <1>7, <2>1
    <3>2. ASSUME NEW j \in 1 .. w PROVE d[Len(data) + j] = Encode(body)[j]
      <4>1. /\ Len(data) + j \in 1 .. Len(data) + w /\ ~ (Len(data) + j <= Len(data))
            /\ (Len(data) + j) - Len(data) = j
        BY <1>3
      <4>2. d[Len(data) + j] = Encode(body)[(Len(data) + j) - Len(data)]
        BY <1>4, <4>1
      <4>3. QED
        BY <4>1, <4>2
    <3>3. QED
      BY <3>1, <3>2 DEF w, end
  <2>2. CASE i # s
    <3>1. i \in from .. s - 1 /\ i + 1 \in from .. s /\ i + 1 \in 1 .. s /\ i \in Nat
      BY <1>2, <1>5, <2>2
    <3>2. q[i + 1] = queue[i + 1] /\ more[i + 1] = cut[i + 1] /\ more[i] = cut[i]
      BY <1>2, <1>7, <3>1
    <3> DEFINE v == Len(Encode(queue[i + 1]))
    <3>3. cut[i + 1] = cut[i] + v /\ \A j \in 1 .. v : data[cut[i] + j] = Encode(queue[i + 1])[j]
      BY <1>5, <3>1
    <3>4. Encode(queue[i + 1]) \in Seq(Byte) /\ v \in Nat
      <4>1. queue[i + 1] \in Seq(Byte)
        BY <3>1 DEF s
      <4>2. QED
        BY <4>1, EncodeBytes
    <3> HIDE DEF v
    <3>5. cut[i] \in Nat /\ cut[i + 1] <= Len(data) /\ cut[i] + v <= Len(data)
      BY <1>8, <3>1, <3>3
    <3>6. ASSUME NEW j \in 1 .. v PROVE d[cut[i] + j] = Encode(queue[i + 1])[j]
      <4>1. cut[i] + j \in 1 .. Len(data) + w /\ cut[i] + j <= Len(data)
        <5>1. Len(data) \in Nat /\ w \in Nat /\ cut[i] \in Nat /\ v \in Nat /\ cut[i] + v <= Len(data)
          BY <1>3, <3>4, <3>5
        <5>2. QED
          BY <5>1
      <4>2. d[cut[i] + j] = data[cut[i] + j]
        BY <1>4, <4>1
      <4>3. QED
        BY <3>3, <4>2
    <3>7. QED
      BY <3>2, <3>3, <3>6 DEF v
  <2>3. QED
    BY <2>1, <2>2
<1>11. Cuts(more, d, q, from)
  <2>1. from \in 0 .. s + 1 /\ (s + 1) - 1 = s /\ from \in from .. s
    BY <1>2, <1>5
  <2>2. more[from] = 0 /\ more[s + 1] = Len(d)
    <3>1. more[from] = cut[from]
      BY <1>7, <2>1
    <3>2. Len(d) = end
      BY <1>4 DEF end
    <3>3. QED
      BY <1>5, <1>7, <3>1, <3>2
  <2>3. \A i, j \in from .. s + 1 : i <= j => more[i] <= more[j]
    BY <1>9
  <2>4. \A i \in from .. (s + 1) - 1 :
           /\ more[i + 1] = more[i] + Len(Encode(q[i + 1]))
           /\ \A j \in 1 .. Len(Encode(q[i + 1])) : d[more[i] + j] = Encode(q[i + 1])[j]
    BY <1>10, <2>1, Zenon
  <2>5. Len(q) = s + 1 /\ more \in [Nat -> Nat]
    BY <1>2, <1>7
  <2>6. QED
    BY <2>1, <2>2, <2>3, <2>4, <2>5, Zenon DEF Cuts
<1>12. QED
  BY <1>11 DEF Framed, q, d

\* The packet at the head of the bytes.
LEMMA FramedHead ==
    ASSUME NEW data \in Seq(Byte), NEW queue \in Seq(Seq(Byte)), NEW from \in Nat,
           Framed(data, queue, from), from < Len(queue)
    PROVE  LET body == queue[from + 1]
               w == Len(Encode(body))
           IN  /\ body \in Seq(Byte) /\ w \in 1 .. Len(data)
               /\ \A j \in 1 .. w : data[j] = Encode(body)[j]
               /\ Framed(SubSeq(data, w + 1, Len(data)), queue, from + 1)
<1> DEFINE s == Len(queue)
           body == queue[from + 1]
           w == Len(Encode(body))
           d == SubSeq(data, w + 1, Len(data))
<1>1. PICK cut : Cuts(cut, data, queue, from)
  BY DEF Framed
<1>2. /\ cut \in [Nat -> Nat] /\ from \in 0 .. s
      /\ cut[from] = 0 /\ cut[s] = Len(data)
      /\ \A i, j \in from .. s : i <= j => cut[i] <= cut[j]
      /\ \A i \in from .. s - 1 :
            /\ cut[i + 1] = cut[i] + Len(Encode(queue[i + 1]))
            /\ \A j \in 1 .. Len(Encode(queue[i + 1])) :
                  data[cut[i] + j] = Encode(queue[i + 1])[j]
  BY <1>1 DEF Cuts
<1>3. s \in Nat /\ Len(data) \in Nat /\ body \in Seq(Byte)
  OBVIOUS
<1>4. w \in Nat \ {0}
  BY <1>3, PacketSize
<1> HIDE DEF s, body, w
<1>5. cut[from + 1] = w /\ \A j \in 1 .. w : data[j] = Encode(body)[j]
  <2>1. from \in from .. s - 1
    BY <1>3 DEF s
  <2>2. /\ cut[from + 1] = cut[from] + w
        /\ \A j \in 1 .. w : data[cut[from] + j] = Encode(body)[j]
    BY <1>2, <2>1, Zenon DEF w, body
  <2>3. cut[from] + w = w /\ \A j \in 1 .. w : cut[from] + j = j
    BY <1>2, <1>4
  <2>4. QED
    BY <2>2, <2>3
<1>6. \A i \in from + 1 .. s : i \in Nat /\ i \in from .. s /\ cut[i] \in Nat /\ w <= cut[i] /\ cut[i] <= Len(data)
  <2> SUFFICES ASSUME NEW i \in from + 1 .. s
               PROVE  i \in Nat /\ i \in from .. s /\ cut[i] \in Nat /\ w <= cut[i] /\ cut[i] <= Len(data)
    OBVIOUS
  <2>1. /\ i \in Nat /\ i \in from .. s /\ s \in from .. s /\ from + 1 \in from .. s
        /\ from + 1 <= i /\ i <= s
    BY <1>3
  <2>2. cut[from + 1] <= cut[i] /\ cut[i] <= cut[s]
    BY <1>2, <2>1
  <2>3. QED
    BY <1>2, <1>5, <2>1, <2>2
<1>7. from + 1 \in from + 1 .. s /\ s \in from + 1 .. s
  BY <1>3 DEF s
<1>8. w \in 1 .. Len(data)
  <2>1. w <= Len(data)
    BY <1>5, <1>6, <1>7
  <2>2. Len(data) \in Nat
    BY <1>3
  <2>3. QED
    BY <1>4, <2>1, <2>2
<1>9. Len(d) = Len(data) - w /\ \A i \in 1 .. Len(data) - w : d[i] = data[w + i]
  <2>1. \A i \in w + 1 .. Len(data) : data[i] \in Byte
    BY <1>4
  <2>2. /\ Len(d) = IF w + 1 <= Len(data) THEN Len(data) - (w + 1) + 1 ELSE 0
        /\ \A i \in 1 .. Len(data) - (w + 1) + 1 : d[i] = data[(w + 1) + i - 1]
    <3>1. w + 1 \in Int /\ Len(data) \in Int
      BY <1>3, <1>4
    <3>2. QED
      BY <2>1, <3>1, SubSeqProperties
  <2> HIDE DEF d
  <2>3. Len(d) = Len(data) - w
    BY <1>3, <1>8, <2>2
  <2>4. ASSUME NEW i \in 1 .. Len(data) - w PROVE d[i] = data[w + i]
    <3>1. i \in 1 .. Len(data) - (w + 1) + 1 /\ (w + 1) + i - 1 = w + i
      BY <1>3, <1>4
    <3>2. QED
      BY <2>2, <3>1
  <2>5. QED
    BY <2>3, <2>4
<1> DEFINE less == [i \in Nat |-> IF i \in from + 1 .. s THEN cut[i] - w ELSE 0]
<1>10. less \in [Nat -> Nat] /\ \A i \in from + 1 .. s : less[i] = cut[i] - w
  BY <1>4, <1>6
<1> HIDE DEF less, d
<1>11. Cuts(less, d, queue, from + 1)
  <2>1. from + 1 \in 0 .. s
    BY <1>3 DEF s
  <2>2. less[from + 1] = 0 /\ less[s] = Len(d)
    <3>1. less[from + 1] = w - w /\ less[s] = Len(data) - w
      BY <1>2, <1>5, <1>7, <1>10
    <3>2. w - w = 0
      BY <1>4
    <3>3. QED
      BY <1>9, <3>1, <3>2
  <2>3. ASSUME NEW i \in from + 1 .. s, NEW j \in from + 1 .. s, i <= j PROVE less[i] <= less[j]
    <3>1. cut[i] <= cut[j]
      BY <1>2, <1>6, <2>3
    <3>2. cut[i] \in Nat /\ cut[j] \in Nat /\ less[i] = cut[i] - w /\ less[j] = cut[j] - w
      BY <1>6, <1>10
    <3>3. QED
      BY <1>4, <3>1, <3>2
  <2>4. ASSUME NEW i \in from + 1 .. s - 1
        PROVE  /\ less[i + 1] = less[i] + Len(Encode(queue[i + 1]))
               /\ \A j \in 1 .. Len(Encode(queue[i + 1])) : d[less[i] + j] = Encode(queue[i + 1])[j]
    <3> DEFINE v == Len(Encode(queue[i + 1]))
    <3>1. i \in from .. s - 1 /\ i \in from + 1 .. s /\ i + 1 \in from + 1 .. s /\ i + 1 \in 1 .. s
      BY <1>3
    <3>2. cut[i + 1] = cut[i] + v /\ \A j \in 1 .. v : data[cut[i] + j] = Encode(queue[i + 1])[j]
      BY <1>2, <3>1
    <3>3. Encode(queue[i + 1]) \in Seq(Byte) /\ v \in Nat
      <4>1. queue[i + 1] \in Seq(Byte)
        BY <3>1 DEF s
      <4>2. QED
        BY <4>1, EncodeBytes
    <3> HIDE DEF v
    <3>4. /\ cut[i] \in Nat /\ cut[i + 1] \in Nat /\ w <= cut[i] /\ cut[i + 1] <= Len(data)
          /\ less[i] = cut[i] - w /\ less[i + 1] = cut[i + 1] - w
      BY <1>6, <1>10, <3>1
    <3>5. less[i + 1] = less[i] + v
      BY <1>4, <3>2, <3>3, <3>4
    <3>6. ASSUME NEW j \in 1 .. v PROVE d[less[i] + j] = Encode(queue[i + 1])[j]
      <4>1. w \in Nat /\ Len(data) \in Nat /\ cut[i] + v <= Len(data)
        BY <1>3, <1>4, <3>2, <3>4
      <4>2. less[i] + j \in 1 .. Len(data) - w /\ w + (less[i] + j) = cut[i] + j
        <5>1. cut[i] \in Nat /\ w <= cut[i] /\ less[i] = cut[i] - w /\ v \in Nat
          BY <3>3, <3>4
        <5> DEFINE c == cut[i]
                   m == Len(data)
        <5>2. c \in Nat /\ w <= c /\ v \in Nat /\ w \in Nat /\ m \in Nat /\ c + v <= m
          BY <4>1, <5>1
        <5> HIDE DEF c, m
        <5>3. (c - w) + j \in 1 .. m - w /\ w + ((c - w) + j) = c + j
          BY <5>2
        <5>4. QED
          BY <5>1, <5>3, Zenon DEF c, m
      <4>3. d[less[i] + j] = data[w + (less[i] + j)]
        BY <1>9, <4>2
      <4>4. QED
        BY <3>2, <4>2, <4>3
    <3>7. QED
      BY <3>5, <3>6 DEF v
  <2>5. \A i, j \in from + 1 .. s : i <= j => less[i] <= less[j]
    BY <2>3
  <2>6. QED
    BY <1>10, <2>1, <2>2, <2>4, <2>5, Zenon DEF Cuts, s
<1>12. QED
  BY <1>3, <1>5, <1>8, <1>11 DEF Framed, body, w, d

\* No bytes are left when no packet is.
LEMMA FramedEnd ==
    ASSUME NEW data \in Seq(Byte), NEW queue \in Seq(Seq(Byte)), NEW from \in Nat,
           Framed(data, queue, from)
    PROVE  from <= Len(queue) /\ (from = Len(queue) => Len(data) = 0)
  BY DEF Framed, Cuts

\* If it is one packet, it is its bytes.
LEMMA FramedOne ==
    ASSUME NEW data \in Seq(Byte), NEW queue \in Seq(Seq(Byte)), NEW from \in Nat,
           Framed(data, queue, from), Len(queue) = from + 1
    PROVE  Len(data) = Len(Encode(queue[from + 1]))
<1>1. PICK cut : Cuts(cut, data, queue, from)
  BY DEF Framed
<1>2. cut[from] = 0 /\ cut[from + 1] = Len(data)
  BY <1>1 DEF Cuts
<1>3. from \in from .. Len(queue) - 1
  OBVIOUS
<1>4. cut[from + 1] = cut[from] + Len(Encode(queue[from + 1]))
  BY <1>1, <1>3 DEF Cuts
<1>5. queue[from + 1] \in Seq(Byte)
  OBVIOUS
<1>6. Len(Encode(queue[from + 1])) \in Nat
  BY <1>5, PacketSize
<1>7. QED
  BY <1>2, <1>4, <1>6

-----------------------------------------------------------------------------
\* The inductive invariant of the stream

\* What was read is what was sent so far, what is on its way are the packets
\* behind it; a length that is too large is that of a packet.
FrameInv ==
    /\ sent \in Seq(Seq(Byte)) /\ wire \in Seq(Byte) /\ recvBuf \in Seq(Byte)
    /\ Len(readBack) <= Len(sent) /\ readBack \in Seq(Seq(Byte))
    /\ \A i \in 1 .. Len(readBack) : readBack[i] = sent[i]
    /\ broken # "buffer" => Framed(recvBuf \o wire, sent, Len(readBack))
    /\ broken = "length" => \E i \in DOMAIN sent : Len(sent[i]) > MaxPacket

\* What the client knows of the packet at the head.
LEMMA HeadKnown ==
    ASSUME FrameInv, broken # "buffer", Len(readBack) < Len(sent)
    PROVE  LET body == sent[Len(readBack) + 1]
               k == Len(EncodeVarint[Len(body)])
           IN  /\ body \in Seq(Byte) /\ k \in Nat \ {0} /\ Len(body) \in Nat
               /\ Len(Encode(body)) = 1 + k + Len(body)
               /\ Len(Encode(body)) <= Len(recvBuf) + Len(wire)
               /\ \A j \in 1 .. Len(Encode(body)) : j <= Len(recvBuf) => recvBuf[j] = Encode(body)[j]
               /\ Length = IF Len(recvBuf) >= 2 /\ k <= MaxVarint /\ Len(recvBuf) >= 1 + k
                           THEN [value |-> Len(body), next |-> 2 + k] ELSE NoVarint
<1> DEFINE r == Len(readBack)
           body == sent[r + 1]
           k == Len(EncodeVarint[Len(body)])
           data == recvBuf \o wire
<1>1. /\ sent \in Seq(Seq(Byte)) /\ wire \in Seq(Byte) /\ recvBuf \in Seq(Byte)
      /\ r \in Nat /\ Framed(data, sent, r) /\ r < Len(sent)
  BY DEF FrameInv
<1>2. /\ data \in Seq(Byte) /\ Len(data) = Len(recvBuf) + Len(wire)
      /\ \A i \in 1 .. Len(recvBuf) + Len(wire) :
            data[i] = IF i <= Len(recvBuf) THEN recvBuf[i] ELSE wire[i - Len(recvBuf)]
  BY <1>1, ConcatProperties
<1> HIDE DEF r, data
<1>3. /\ body \in Seq(Byte) /\ Len(Encode(body)) \in 1 .. Len(data)
      /\ \A j \in 1 .. Len(Encode(body)) : data[j] = Encode(body)[j]
  BY <1>1, <1>2, FramedHead
<1> HIDE DEF body
<1>4. Len(recvBuf) \in Nat /\ Len(wire) \in Nat
  BY <1>1
<1>5. \A j \in 1 .. Len(Encode(body)) : j <= Len(recvBuf) => recvBuf[j] = Encode(body)[j]
  <2> SUFFICES ASSUME NEW j \in 1 .. Len(Encode(body)), j <= Len(recvBuf)
               PROVE  recvBuf[j] = Encode(body)[j]
    OBVIOUS
  <2>1. j \in 1 .. Len(recvBuf) + Len(wire)
    BY <1>4
  <2>2. QED
    BY <1>2, <1>3, <2>1
<1>6. Begins(recvBuf, body)
  <2> SUFFICES ASSUME NEW j \in 1 .. Len(recvBuf), j <= Len(Encode(body))
               PROVE  recvBuf[j] = Encode(body)[j]
    BY DEF Begins
  <2>1. j \in 1 .. Len(Encode(body)) /\ j <= Len(recvBuf)
    BY <1>2, <1>3, <1>4
  <2>2. QED
    BY <1>5, <2>1
<1>7. ReadVarint(recvBuf, 2) = IF k <= MaxVarint /\ Len(recvBuf) >= 1 + k
                               THEN [value |-> Len(body), next |-> 2 + k] ELSE NoVarint
  BY <1>1, <1>3, <1>6, HeadRead
<1>8. k \in Nat \ {0} /\ Len(body) \in Nat /\ Len(Encode(body)) = 1 + k + Len(body)
  BY <1>3, EncodeBytes
<1>9. Length = IF Len(recvBuf) >= 2 /\ k <= MaxVarint /\ Len(recvBuf) >= 1 + k
               THEN [value |-> Len(body), next |-> 2 + k] ELSE NoVarint
  BY <1>7, Zenon DEF Length
<1>10. Len(Encode(body)) <= Len(recvBuf) + Len(wire)
  BY <1>2, <1>3, <1>4
<1>11. QED
  BY <1>3, <1>5, <1>8, <1>9, <1>10 DEF body, r

\* A length was read: there is a packet, and it is its length.
LEMMA LengthKnown ==
    ASSUME FrameInv, broken # "buffer", Length # NoVarint
    PROVE  LET body == sent[Len(readBack) + 1]
               k == Len(EncodeVarint[Len(body)])
           IN  /\ Len(readBack) < Len(sent)
               /\ Length = [value |-> Len(body), next |-> 2 + k]
<1>1. Len(recvBuf) >= 2
  BY DEF Length
<1>2. Len(readBack) < Len(sent)
  <2>1. /\ sent \in Seq(Seq(Byte)) /\ wire \in Seq(Byte) /\ recvBuf \in Seq(Byte)
        /\ Len(readBack) \in Nat /\ Framed(recvBuf \o wire, sent, Len(readBack))
    BY DEF FrameInv
  <2>2. recvBuf \o wire \in Seq(Byte) /\ Len(recvBuf \o wire) = Len(recvBuf) + Len(wire)
    BY <2>1, ConcatProperties
  <2>3. Len(readBack) <= Len(sent) /\ (Len(readBack) = Len(sent) => Len(recvBuf \o wire) = 0)
    BY <2>1, <2>2, FramedEnd
  <2>4. Len(recvBuf) \in Nat /\ Len(wire) \in Nat /\ Len(sent) \in Nat
    BY <2>1
  <2>5. QED
    BY <1>1, <2>1, <2>2, <2>3, <2>4
<1>3. QED
  BY <1>2, HeadKnown

\* The end of a sequence, from behind its n-th element.
LEMMA Rest ==
    ASSUME NEW s \in Seq(Byte), NEW n \in 0 .. Len(s)
    PROVE  /\ SubSeq(s, n + 1, Len(s)) \in Seq(Byte)
           /\ Len(SubSeq(s, n + 1, Len(s))) = Len(s) - n
           /\ \A i \in 1 .. Len(s) - n : SubSeq(s, n + 1, Len(s))[i] = s[n + i]
<1> DEFINE t == SubSeq(s, n + 1, Len(s))
<1>1. Len(s) \in Nat /\ n \in Nat /\ n + 1 \in Int /\ Len(s) \in Int
  OBVIOUS
<1>2. \A i \in n + 1 .. Len(s) : s[i] \in Byte
  BY <1>1
<1>3. /\ t \in Seq(Byte)
      /\ Len(t) = IF n + 1 <= Len(s) THEN Len(s) - (n + 1) + 1 ELSE 0
      /\ \A i \in 1 .. Len(s) - (n + 1) + 1 : t[i] = s[(n + 1) + i - 1]
  BY <1>1, <1>2, SubSeqProperties
<1> HIDE DEF t
<1>4. Len(t) = Len(s) - n
  BY <1>1, <1>3
<1>5. ASSUME NEW i \in 1 .. Len(s) - n PROVE t[i] = s[n + i]
  <2>1. i \in 1 .. Len(s) - (n + 1) + 1 /\ (n + 1) + i - 1 = n + i
    BY <1>1
  <2>2. QED
    BY <1>3, <2>1
<1>6. QED
  BY <1>3, <1>4, <1>5 DEF t

\* A sequence is what it begins with and the rest.
LEMMA Parted ==
    ASSUME NEW s \in Seq(Byte), NEW n \in 1 .. Len(s)
    PROVE  /\ SubSeq(s, 1, n) \in Seq(Byte) /\ SubSeq(s, n + 1, Len(s)) \in Seq(Byte)
           /\ SubSeq(s, 1, n) \o SubSeq(s, n + 1, Len(s)) = s
<1> DEFINE a == SubSeq(s, 1, n)
           b == SubSeq(s, n + 1, Len(s))
<1>1. Len(s) \in Nat /\ n \in Nat /\ n \in 0 .. Len(s)
  OBVIOUS
<1>2. b \in Seq(Byte) /\ Len(b) = Len(s) - n /\ \A i \in 1 .. Len(s) - n : b[i] = s[n + i]
  BY <1>1, Rest
<1>3. a \in Seq(Byte) /\ Len(a) = n /\ \A i \in 1 .. n : a[i] = s[i]
  <2>1. \A i \in 1 .. n : s[i] \in Byte
    BY <1>1
  <2>2. /\ a \in Seq(Byte)
        /\ Len(a) = IF 1 <= n THEN n - 1 + 1 ELSE 0
        /\ \A i \in 1 .. n - 1 + 1 : a[i] = s[1 + i - 1]
    BY <1>1, <2>1, SubSeqProperties
  <2> HIDE DEF a
  <2>3. ASSUME NEW i \in 1 .. n PROVE a[i] = s[i]
    <3>1. i \in 1 .. n - 1 + 1 /\ 1 + i - 1 = i
      BY <1>1
    <3>2. QED
      BY <2>2, <3>1
  <2>4. QED
    BY <1>1, <2>2, <2>3
<1> HIDE DEF a, b
<1>4. /\ a \o b \in Seq(Byte) /\ Len(a \o b) = Len(a) + Len(b)
      /\ \A i \in 1 .. Len(a) + Len(b) : (a \o b)[i] = IF i <= Len(a) THEN a[i] ELSE b[i - Len(a)]
  BY <1>2, <1>3, ConcatProperties
<1>5. Len(a) + Len(b) = Len(s)
  BY <1>1, <1>2, <1>3
<1>6. ASSUME NEW i \in 1 .. Len(s) PROVE (a \o b)[i] = s[i]
  <2>1. CASE i <= n
    BY <1>1, <1>3, <1>4, <1>5, <2>1
  <2>2. CASE ~ (i <= n)
    <3>1. i - n \in 1 .. Len(s) - n /\ n + (i - n) = i
      BY <1>1, <2>2
    <3>2. (a \o b)[i] = b[i - n]
      BY <1>3, <1>4, <1>5, <2>2
    <3>3. QED
      BY <1>2, <3>1, <3>2
  <2>3. QED
    BY <2>1, <2>2
<1>7. a \o b = s
  BY <1>4, <1>5, <1>6, SeqEqual
<1>8. QED
  BY <1>2, <1>3, <1>7 DEF a, b

\* Taking bytes off the buffer takes them off the stream.
LEMMA RestJoined ==
    ASSUME NEW s \in Seq(Byte), NEW t \in Seq(Byte), NEW n \in 0 .. Len(s)
    PROVE  SubSeq(s, n + 1, Len(s)) \o t = SubSeq(s \o t, n + 1, Len(s \o t))
<1> DEFINE a == SubSeq(s, n + 1, Len(s))
           u == s \o t
           b == SubSeq(u, n + 1, Len(u))
<1>1. Len(s) \in Nat /\ Len(t) \in Nat /\ n \in Nat /\ n <= Len(s)
  OBVIOUS
<1>2. a \in Seq(Byte) /\ Len(a) = Len(s) - n /\ \A i \in 1 .. Len(s) - n : a[i] = s[n + i]
  BY Rest
<1>3. /\ u \in Seq(Byte) /\ Len(u) = Len(s) + Len(t)
      /\ \A i \in 1 .. Len(s) + Len(t) : u[i] = IF i <= Len(s) THEN s[i] ELSE t[i - Len(s)]
  BY ConcatProperties
<1> HIDE DEF a, u
<1>4. n \in 0 .. Len(u)
  BY <1>1, <1>3
<1>5. b \in Seq(Byte) /\ Len(b) = Len(u) - n /\ \A i \in 1 .. Len(u) - n : b[i] = u[n + i]
  BY <1>3, <1>4, Rest
<1> HIDE DEF b
<1>6. /\ a \o t \in Seq(Byte) /\ Len(a \o t) = Len(a) + Len(t)
      /\ \A i \in 1 .. Len(a) + Len(t) : (a \o t)[i] = IF i <= Len(a) THEN a[i] ELSE t[i - Len(a)]
  BY <1>2, ConcatProperties
<1>7. Len(a) + Len(t) = Len(u) - n
  BY <1>1, <1>2, <1>3
<1>8. ASSUME NEW i \in 1 .. Len(u) - n PROVE (a \o t)[i] = b[i]
  <2>1. b[i] = u[n + i] /\ n + i \in 1 .. Len(s) + Len(t)
    BY <1>1, <1>3, <1>5
  <2>2. CASE i <= Len(s) - n
    <3>1. n + i <= Len(s) /\ i \in 1 .. Len(s) - n /\ i <= Len(a)
      BY <1>1, <1>2, <2>2
    <3>2. (a \o t)[i] = a[i]
      BY <1>6, <1>7, <3>1
    <3>3. QED
      BY <1>2, <1>3, <2>1, <3>1, <3>2
  <2>3. CASE ~ (i <= Len(s) - n)
    <3>1. ~ (n + i <= Len(s)) /\ ~ (i <= Len(a)) /\ i - Len(a) = (n + i) - Len(s)
      BY <1>1, <1>2, <1>3, <2>3
    <3>2. (a \o t)[i] = t[i - Len(a)]
      BY <1>6, <1>7, <3>1
    <3>3. u[n + i] = t[(n + i) - Len(s)]
      BY <1>3, <2>1, <3>1
    <3>4. QED
      BY <2>1, <3>1, <3>2, <3>3
  <2>4. QED
    BY <2>2, <2>3
<1>9. a \o t = b
  BY <1>5, <1>6, <1>7, <1>8, SeqEqual
<1>10. QED
  BY <1>9 DEF a, b, u

-----------------------------------------------------------------------------
\* The steps of the stream


\* The stream stays framed when its bytes move from the wire to the buffer.
LEMMA MessageStep ==
    ASSUME FrameInv, NEW n \in 1 .. Len(wire), ReadMessage(n)
    PROVE  FrameInv'
<1> DEFINE r == Len(readBack)
<1>1. /\ sent \in Seq(Seq(Byte)) /\ wire \in Seq(Byte) /\ recvBuf \in Seq(Byte)
      /\ broken = "" /\ Framed(recvBuf \o wire, sent, r)
  BY DEF FrameInv, ReadMessage
<1>2. /\ SubSeq(wire, 1, n) \in Seq(Byte) /\ SubSeq(wire, n + 1, Len(wire)) \in Seq(Byte)
      /\ SubSeq(wire, 1, n) \o SubSeq(wire, n + 1, Len(wire)) = wire
  BY <1>1, Parted
<1>3. /\ sent' = sent /\ readBack' = readBack /\ wire' = SubSeq(wire, n + 1, Len(wire))
      /\ \/ broken' = "buffer" /\ recvBuf' = recvBuf
         \/ broken' = broken /\ recvBuf' = recvBuf \o SubSeq(wire, 1, n)
  BY DEF ReadMessage
<1>4. recvBuf' \in Seq(Byte) /\ wire' \in Seq(Byte)
  BY <1>1, <1>2, <1>3, ConcatProperties
<1>5. broken' # "buffer" => recvBuf' \o wire' = recvBuf \o wire
  <2> SUFFICES ASSUME broken' # "buffer" PROVE recvBuf' \o wire' = recvBuf \o wire
    OBVIOUS
  <2> DEFINE a == SubSeq(wire, 1, n)
             b == SubSeq(wire, n + 1, Len(wire))
  <2>1. recvBuf' = recvBuf \o a /\ wire' = b /\ a \o b = wire /\ a \in Seq(Byte) /\ b \in Seq(Byte)
    BY <1>2, <1>3
  <2> HIDE DEF a, b
  <2>2. (recvBuf \o a) \o b = recvBuf \o (a \o b)
    <3>1. recvBuf \in Seq(Byte) /\ a \in Seq(Byte) /\ b \in Seq(Byte)
      BY <1>1, <2>1
    <3>2. QED
      BY <3>1, ConcatAssociative
  <2>3. QED
    BY <2>1, <2>2, Zenon
<1>6. broken' # "buffer" => Framed(recvBuf' \o wire', sent, r)
  BY <1>1, <1>5, Zenon
<1>7. broken' # "length"
  BY <1>1, <1>3
<1>8. QED
  <2>1. /\ sent' \in Seq(Seq(Byte)) /\ Len(readBack') <= Len(sent') /\ readBack' \in Seq(Seq(Byte))
        /\ \A i \in 1 .. Len(readBack') : readBack'[i] = sent'[i]
    BY <1>3 DEF FrameInv
  <2>2. broken' # "buffer" => Framed(recvBuf' \o wire', sent', Len(readBack'))
    BY <1>3, <1>6
  <2>3. QED
    BY <1>4, <1>7, <2>1, <2>2, Zenon DEF FrameInv

\* One more packet at the end of the stream.
LEMMA SendStep ==
    ASSUME FrameInv, NEW body \in Bodies, SendPacket(body)
    PROVE  FrameInv'
<1> DEFINE r == Len(readBack)
<1>1. /\ sent \in Seq(Seq(Byte)) /\ wire \in Seq(Byte) /\ recvBuf \in Seq(Byte)
      /\ readBack \in Seq(Seq(Byte)) /\ r \in Nat /\ r <= Len(sent)
      /\ \A i \in 1 .. r : readBack[i] = sent[i]
      /\ broken # "buffer" => Framed(recvBuf \o wire, sent, r)
      /\ broken = "length" => \E i \in DOMAIN sent : Len(sent[i]) > MaxPacket
  BY DEF FrameInv
<1>2. /\ sent' = Append(sent, body) /\ wire' = wire \o Encode(body)
      /\ recvBuf' = recvBuf /\ readBack' = readBack /\ broken' = broken
  BY DEF SendPacket
<1>3. body \in Seq(Byte) /\ Encode(body) \in Seq(Byte)
  <2>1. body \in Seq(Byte)
    BY PacketsAssumption
  <2>2. QED
    BY <2>1, EncodeBytes
<1>4. /\ sent' \in Seq(Seq(Byte)) /\ Len(sent') = Len(sent) + 1
      /\ \A i \in 1 .. Len(sent) : sent'[i] = sent[i]
  BY <1>1, <1>2, <1>3, AppendProperties
<1>5. wire' \in Seq(Byte) /\ recvBuf' \o wire' = (recvBuf \o wire) \o Encode(body)
  <2> DEFINE e == Encode(body)
  <2>1. e \in Seq(Byte) /\ wire' = wire \o e
    BY <1>2, <1>3
  <2> HIDE DEF e
  <2>2. (recvBuf \o wire) \o e = recvBuf \o (wire \o e) /\ wire \o e \in Seq(Byte)
    <3>1. recvBuf \in Seq(Byte) /\ wire \in Seq(Byte) /\ e \in Seq(Byte)
      BY <1>1, <2>1
    <3>2. (recvBuf \o wire) \o e = recvBuf \o (wire \o e)
      BY <3>1, ConcatAssociative
    <3>3. wire \o e \in Seq(Byte)
      BY <3>1, ConcatProperties
    <3>4. QED
      BY <3>2, <3>3
  <2>3. QED
    BY <1>2, <2>1, <2>2, Zenon DEF e
<1>6. broken' # "buffer" => Framed(recvBuf' \o wire', sent', Len(readBack'))
  <2> SUFFICES ASSUME broken' # "buffer" PROVE Framed(recvBuf' \o wire', sent', Len(readBack'))
    OBVIOUS
  <2>1. Framed(recvBuf \o wire, sent, r)
    BY <1>1, <1>2
  <2>2. recvBuf \o wire \in Seq(Byte)
    BY <1>1, ConcatProperties
  <2> HIDE DEF r
  <2>3. Framed((recvBuf \o wire) \o Encode(body), Append(sent, body), r)
    BY <1>1, <1>3, <2>1, <2>2, FramedMore
  <2>4. QED
    BY <1>2, <1>5, <2>3, Zenon DEF r
<1>7. ASSUME broken' = "length" PROVE \E i \in DOMAIN sent' : Len(sent'[i]) > MaxPacket
  <2>1. PICK i \in DOMAIN sent : Len(sent[i]) > MaxPacket
    BY <1>1, <1>2, <1>7
  <2>2. i \in 1 .. Len(sent) /\ i \in DOMAIN sent'
    BY <1>1, <1>4
  <2>3. QED
    BY <1>4, <2>1, <2>2
<1>8. /\ Len(readBack') <= Len(sent') /\ readBack' \in Seq(Seq(Byte)) /\ recvBuf' \in Seq(Byte)
      /\ \A i \in 1 .. Len(readBack') : readBack'[i] = sent'[i]
  <2>1. Len(sent) \in Nat /\ r \in Nat
    BY <1>1
  <2>2. ASSUME NEW i \in 1 .. r PROVE readBack[i] = sent'[i]
    <3>1. i \in 1 .. Len(sent)
      BY <1>1, <2>1
    <3>2. QED
      BY <1>1, <1>4, <3>1
  <2>3. QED
    BY <1>1, <1>2, <1>4, <2>1, <2>2
<1>9. QED
  BY <1>4, <1>5, <1>6, <1>7, <1>8, Zenon DEF FrameInv

\* A length that is too large is the length of a packet.
LEMMA TooLongStep ==
    ASSUME FrameInv, PacketTooLong
    PROVE  FrameInv'
<1>1. /\ broken = "" /\ Length # NoVarint /\ Length.value > MaxPacket
      /\ sent' = sent /\ wire' = wire /\ recvBuf' = recvBuf /\ readBack' = readBack
  BY DEF PacketTooLong
<1>2. \E i \in DOMAIN sent : Len(sent[i]) > MaxPacket
  <2> DEFINE k == Len(EncodeVarint[Len(sent[Len(readBack) + 1])])
  <2>1. /\ Len(readBack) < Len(sent)
        /\ Length = [value |-> Len(sent[Len(readBack) + 1]), next |-> 2 + k]
    BY <1>1, LengthKnown
  <2> HIDE DEF k
  <2>2. Len(readBack) + 1 \in DOMAIN sent
    <3>1. readBack \in Seq(Seq(Byte)) /\ sent \in Seq(Seq(Byte))
      BY DEF FrameInv
    <3>2. QED
      BY <2>1, <3>1
  <2>3. Len(sent[Len(readBack) + 1]) > MaxPacket
    BY <1>1, <2>1
  <2>4. QED
    BY <2>2, <2>3
<1>3. broken # "buffer"
  BY <1>1
<1>4. QED
  BY <1>1, <1>2, <1>3 DEF FrameInv

\* What is taken off the buffer is the body of the packet at the head.
LEMMA Taken ==
    ASSUME FrameInv, ReadPacket
    PROVE  LET body == sent[Len(readBack) + 1]
               w == Len(Encode(body))
           IN  /\ Len(readBack) < Len(sent) /\ body \in Seq(Byte) /\ w \in 0 .. Len(recvBuf)
               /\ recvBuf' = SubSeq(recvBuf, w + 1, Len(recvBuf))
               /\ readBack' = Append(readBack, body)
<1> DEFINE body == sent[Len(readBack) + 1]
           k == Len(EncodeVarint[Len(body)])
           w == Len(Encode(body))
           m == Len(recvBuf)
           taken == SubSeq(recvBuf, 2 + k, w)
<1>1. /\ broken = "" /\ Length # NoVarint /\ Len(recvBuf) >= Total(recvBuf, Length)
      /\ readBack' = Append(readBack, SubSeq(recvBuf, Length.next, Total(recvBuf, Length)))
      /\ recvBuf' = SubSeq(recvBuf, Total(recvBuf, Length) + 1, Len(recvBuf))
  BY DEF ReadPacket, Complete
<1>2. broken # "buffer"
  BY <1>1
<1>3. Len(readBack) < Len(sent) /\ Length = [value |-> Len(body), next |-> 2 + k]
  BY <1>1, <1>2, LengthKnown
<1>4. /\ body \in Seq(Byte) /\ k \in Nat \ {0} /\ Len(body) \in Nat /\ w = 1 + k + Len(body)
      /\ \A j \in 1 .. w : j <= m => recvBuf[j] = Encode(body)[j]
  BY <1>2, <1>3, HeadKnown
<1>5. \A i \in 1 .. Len(body) : Encode(body)[1 + k + i] = body[i]
  BY <1>4, EncodeBytes
<1>6. m \in Nat /\ recvBuf \in Seq(Byte)
  BY DEF FrameInv
<1> HIDE DEF body, k, w, m
<1>7. Total(recvBuf, Length) = w /\ Length.next = 2 + k
  <2>1. Length.next = 2 + k /\ Length.value = Len(body)
    BY <1>3
  <2>2. Total(recvBuf, Length) = Length.next - 1 + Length.value
    BY DEF Total
  <2>3. (2 + k) - 1 + Len(body) = w
    BY <1>4
  <2>4. QED
    BY <2>1, <2>2, <2>3, Zenon
<1>8. w \in 0 .. m
  <2>1. m >= w
    BY <1>1, <1>7 DEF m
  <2>2. QED
    BY <1>4, <1>6, <2>1
<1>9. taken = body
  <2>1. \A i \in 2 + k .. w : recvBuf[i] \in Byte
    <3>1. \A i \in 2 + k .. w : i \in 1 .. m
      BY <1>4, <1>6, <1>8
    <3>2. QED
      BY <1>6, <3>1 DEF m
  <2>2. /\ taken \in Seq(Byte)
        /\ Len(taken) = IF 2 + k <= w THEN w - (2 + k) + 1 ELSE 0
        /\ \A i \in 1 .. w - (2 + k) + 1 : taken[i] = recvBuf[(2 + k) + i - 1]
    <3>1. 2 + k \in Int /\ w \in Int
      BY <1>4
    <3>2. QED
      BY <2>1, <3>1, SubSeqProperties
  <2> HIDE DEF taken
  <2>3. Len(taken) = Len(body)
    BY <1>4, <2>2
  <2>4. ASSUME NEW i \in 1 .. Len(taken) PROVE taken[i] = body[i]
    <3>1. /\ i \in 1 .. Len(body) /\ i \in 1 .. w - (2 + k) + 1 /\ (2 + k) + i - 1 = 1 + k + i
          /\ 1 + k + i \in 1 .. w /\ 1 + k + i <= m
      <4>1. i \in 1 .. Len(body) /\ Len(body) \in Nat /\ k \in Nat /\ w = 1 + k + Len(body) /\ w <= m
        BY <1>4, <1>6, <1>8, <2>3
      <4> DEFINE l == Len(body)
      <4>2. i \in 1 .. l /\ l \in Nat /\ k \in Nat /\ w = 1 + k + l /\ w <= m /\ m \in Nat
        BY <1>6, <4>1
      <4> HIDE DEF l
      <4>3. /\ i \in 1 .. l /\ i \in 1 .. w - (2 + k) + 1 /\ (2 + k) + i - 1 = 1 + k + i
            /\ 1 + k + i \in 1 .. w /\ 1 + k + i <= m
        BY <4>2
      <4>4. QED
        BY <4>3, Zenon DEF l
    <3>2. taken[i] = recvBuf[1 + k + i]
      BY <2>2, <3>1
    <3>3. recvBuf[1 + k + i] = Encode(body)[1 + k + i]
      BY <1>4, <3>1
    <3>4. QED
      BY <1>5, <3>1, <3>2, <3>3
  <2>5. QED
    BY <1>4, <2>2, <2>3, <2>4, SeqEqual
<1>10. recvBuf' = SubSeq(recvBuf, w + 1, m) /\ readBack' = Append(readBack, body)
  BY <1>1, <1>7, <1>9, Zenon DEF m, taken
<1>11. QED
  BY <1>3, <1>4, <1>8, <1>10, Zenon DEF body, w, m

\* A packet is taken off, whole.
LEMMA ReadStep ==
    ASSUME FrameInv, ReadPacket
    PROVE  FrameInv'
<1> DEFINE r == Len(readBack)
           body == sent[r + 1]
           w == Len(Encode(body))
<1>1. /\ sent' = sent /\ wire' = wire /\ broken' = broken /\ broken = ""
  BY DEF ReadPacket
<1>2. /\ r < Len(sent) /\ body \in Seq(Byte) /\ w \in 0 .. Len(recvBuf)
      /\ recvBuf' = SubSeq(recvBuf, w + 1, Len(recvBuf))
      /\ readBack' = Append(readBack, body)
  BY Taken
<1>3. /\ sent \in Seq(Seq(Byte)) /\ wire \in Seq(Byte) /\ recvBuf \in Seq(Byte)
      /\ readBack \in Seq(Seq(Byte)) /\ r \in Nat
      /\ \A i \in 1 .. r : readBack[i] = sent[i]
  BY DEF FrameInv
<1>4. Framed(recvBuf \o wire, sent, r)
  BY <1>1 DEF FrameInv
<1>5. recvBuf \o wire \in Seq(Byte)
  BY <1>3, ConcatProperties
<1>6. /\ readBack' \in Seq(Seq(Byte)) /\ Len(readBack') = r + 1
      /\ readBack'[r + 1] = body /\ \A i \in 1 .. r : readBack'[i] = readBack[i]
  BY <1>2, <1>3, AppendProperties
<1>7. Framed(SubSeq(recvBuf \o wire, w + 1, Len(recvBuf \o wire)), sent, r + 1)
  <2> DEFINE data == recvBuf \o wire
  <2>1. data \in Seq(Byte) /\ Framed(data, sent, r)
    BY <1>4, <1>5
  <2> HIDE DEF data
  <2>2. sent \in Seq(Seq(Byte)) /\ r \in Nat /\ r < Len(sent)
    BY <1>2, <1>3
  <2> HIDE DEF r
  <2>3. Framed(SubSeq(data, w + 1, Len(data)), sent, r + 1)
    BY <2>1, <2>2, FramedHead
  <2>4. QED
    BY <2>3 DEF data
<1>8. /\ recvBuf' \in Seq(Byte)
      /\ recvBuf' \o wire = SubSeq(recvBuf \o wire, w + 1, Len(recvBuf \o wire))
  <2>1. w \in 0 .. Len(recvBuf) /\ recvBuf' = SubSeq(recvBuf, w + 1, Len(recvBuf))
    BY <1>2
  <2> HIDE DEF w
  <2>2. SubSeq(recvBuf, w + 1, Len(recvBuf)) \in Seq(Byte)
    BY <1>3, <2>1, Rest
  <2>3. SubSeq(recvBuf, w + 1, Len(recvBuf)) \o wire
            = SubSeq(recvBuf \o wire, w + 1, Len(recvBuf \o wire))
    BY <1>3, <2>1, RestJoined
  <2>4. QED
    BY <2>1, <2>2, <2>3, Zenon
<1>9. Framed(recvBuf' \o wire', sent', Len(readBack'))
  BY <1>1, <1>6, <1>7, <1>8, Zenon
<1>10. \A i \in 1 .. Len(readBack') : readBack'[i] = sent'[i]
  <2> SUFFICES ASSUME NEW i \in 1 .. r + 1 PROVE readBack'[i] = sent[i]
    BY <1>1, <1>6
  <2>1. CASE i = r + 1
    BY <1>6, <2>1
  <2>2. CASE i # r + 1
    <3>1. i \in 1 .. r
      BY <1>3, <2>2
    <3>2. QED
      BY <1>3, <1>6, <3>1
  <2>3. QED
    BY <2>1, <2>2
<1>11. Len(readBack') <= Len(sent')
  <2>1. Len(sent) \in Nat /\ r \in Nat /\ r < Len(sent)
    BY <1>2, <1>3
  <2> HIDE DEF r
  <2>2. r + 1 <= Len(sent)
    BY <2>1
  <2>3. QED
    BY <1>1, <1>6, <2>2, Zenon
<1>12. broken' # "length"
  BY <1>1
<1>13. sent' \in Seq(Seq(Byte)) /\ wire' \in Seq(Byte)
  BY <1>1, <1>3
<1>14. QED
  BY <1>6, <1>8, <1>9, <1>10, <1>11, <1>12, <1>13, Zenon DEF FrameInv

\* Nothing was sent: no bytes, no packets.
LEMMA FrameInit ==
    ASSUME PacketsInit
    PROVE  FrameInv
<1>1. /\ sent = <<>> /\ wire = <<>> /\ recvBuf = <<>> /\ readBack = <<>> /\ broken = ""
  BY DEF PacketsInit
<1>2. Cuts([i \in Nat |-> 0], <<>>, <<>>, 0)
  <2>1. Len(<<>>) = 0 /\ 0 .. 0 - 1 = {}
    OBVIOUS
  <2>2. QED
    BY <2>1 DEF Cuts
<1>3. <<>> \o <<>> = <<>>
  OBVIOUS
<1>4. Framed(recvBuf \o wire, sent, Len(readBack))
  <2>1. Framed(<<>>, <<>>, 0)
    BY <1>2 DEF Framed
  <2>2. recvBuf \o wire = <<>> /\ Len(readBack) = 0
    BY <1>1, <1>3
  <2>3. QED
    BY <1>1, <2>1, <2>2, Zenon
<1>5. /\ sent \in Seq(Seq(Byte)) /\ wire \in Seq(Byte) /\ recvBuf \in Seq(Byte)
      /\ readBack \in Seq(Seq(Byte))
  <2>1. <<>> \in Seq(Seq(Byte)) /\ <<>> \in Seq(Byte)
    OBVIOUS
  <2>2. QED
    BY <1>1, <2>1, Zenon
<1>6. Len(readBack) <= Len(sent) /\ \A i \in 1 .. Len(readBack) : readBack[i] = sent[i]
  <2>1. readBack = sent /\ sent = <<>>
    BY <1>1, Zenon
  <2>2. Len(<<>>) <= Len(<<>>)
    OBVIOUS
  <2>3. QED
    BY <2>1, <2>2, Zenon
<1>7. broken # "length"
  BY <1>1
<1>8. QED
  BY <1>4, <1>5, <1>6, <1>7, Zenon DEF FrameInv

\* Every step keeps the invariant.
LEMMA FrameStep ==
    ASSUME FrameInv, [PacketsNext]_packets
    PROVE  FrameInv'
<1>1. CASE UNCHANGED packets
  BY <1>1 DEF packets, FrameInv
<1>2. CASE PacketTooLong
  BY <1>2, TooLongStep
<1>3. CASE ReadPacket
  BY <1>3, ReadStep
<1>4. ASSUME NEW n \in 1 .. Len(wire), ReadMessage(n) PROVE FrameInv'
  BY <1>4, MessageStep
<1>5. ASSUME NEW body \in Bodies, SendPacket(body) PROVE FrameInv'
  BY <1>5, SendStep
<1>6. QED
  BY <1>1, <1>2, <1>3, <1>4, <1>5 DEF PacketsNext

\* A packet that is small enough fits into the buffer.
LEMMA Fits ==
    ASSUME NEW body \in Seq(Byte), Len(body) <= MaxPacket
    PROVE  Len(Encode(body)) \in Nat /\ Len(Encode(body)) <= MaxPacket + 1 + MaxVarint
<1> DEFINE k == Len(EncodeVarint[Len(body)])
           l == Len(body)
<1>1. k \in Nat \ {0} /\ l \in Nat /\ Len(Encode(body)) = 1 + k + l
  BY EncodeBytes
<1>2. k <= MaxVarint
  <2>1. l \in 0 .. MaxPacket
    BY <1>1, PacketsAssumption
  <2>2. QED
    BY <2>1, VarintsSuffice
<1> HIDE DEF k
<1>3. l <= MaxPacket
  OBVIOUS
<1> HIDE DEF l
<1>4. QED
  BY <1>1, <1>2, <1>3, PacketsAssumption

\* The buffer is full before the bytes of a packet behind it come.
Overfull ==
    Len(sent) > Len(readBack) + 1 \/ \E i \in DOMAIN sent : Len(sent[i]) > MaxPacket

BufferInv == broken = "buffer" => Overfull

\* A message that does not fit has bytes of a second packet.
LEMMA TooMuch ==
    ASSUME FrameInv, NEW n \in 1 .. Len(wire), broken # "buffer",
           Len(recvBuf) + n > MaxPacket + 1 + MaxVarint
    PROVE  Overfull
<1> SUFFICES ASSUME ~Overfull PROVE FALSE
  OBVIOUS
<1> DEFINE r == Len(readBack)
           data == recvBuf \o wire
           w == Len(Encode(sent[r + 1]))
<1>1. /\ sent \in Seq(Seq(Byte)) /\ wire \in Seq(Byte) /\ recvBuf \in Seq(Byte)
      /\ r \in Nat /\ r <= Len(sent) /\ Framed(data, sent, r)
  BY DEF FrameInv
<1>2. data \in Seq(Byte) /\ Len(data) = Len(recvBuf) + Len(wire)
  BY <1>1, ConcatProperties
<1>3. Len(recvBuf) \in Nat /\ Len(wire) \in Nat /\ Len(sent) \in Nat
  BY <1>1
<1>4. ~(Len(sent) > r + 1) /\ \A i \in DOMAIN sent : ~(Len(sent[i]) > MaxPacket)
  BY DEF Overfull
<1> HIDE DEF r, data
<1>5. CASE Len(sent) = r
  <2>1. Len(data) = 0
    BY <1>1, <1>2, <1>5, FramedEnd
  <2>2. QED
    BY <1>2, <1>3, <2>1
<1>6. CASE Len(sent) = r + 1
  <2>1. Len(data) = w
    BY <1>1, <1>2, <1>6, FramedOne
  <2>2. sent[r + 1] \in Seq(Byte) /\ Len(sent[r + 1]) <= MaxPacket
    <3>1. r + 1 \in DOMAIN sent
      BY <1>1, <1>6
    <3>2. sent[r + 1] \in Seq(Byte) /\ ~(Len(sent[r + 1]) > MaxPacket)
      BY <1>1, <1>4, <3>1
    <3>3. QED
      BY <3>2, PacketsAssumption
  <2>3. w \in Nat /\ w <= MaxPacket + 1 + MaxVarint
    BY <2>2, Fits
  <2> HIDE DEF w
  <2>4. n <= Len(wire) /\ n \in Nat
    BY <1>3
  <2>5. QED
    BY <1>2, <1>3, <2>1, <2>3, <2>4, PacketsAssumption
<1>7. QED
  BY <1>1, <1>3, <1>4, <1>5, <1>6

\* And it stays so: nothing is read any more.
LEMMA BufferStep ==
    ASSUME FrameInv, BufferInv, [PacketsNext]_packets
    PROVE  BufferInv'
<1>1. CASE UNCHANGED packets
  BY <1>1 DEF packets, BufferInv, Overfull
<1>2. CASE PacketTooLong
  BY <1>2 DEF PacketTooLong, BufferInv
<1>3. CASE ReadPacket
  BY <1>3 DEF ReadPacket, BufferInv
<1>4. ASSUME NEW n \in 1 .. Len(wire), ReadMessage(n) PROVE BufferInv'
  <2>1. broken # "buffer" /\ sent' = sent /\ readBack' = readBack
    BY <1>4 DEF ReadMessage
  <2>2. CASE Len(recvBuf) + n > MaxPacket + 1 + MaxVarint
    <3>1. Overfull
      BY <2>1, <2>2, TooMuch
    <3>2. QED
      BY <2>1, <3>1, Zenon DEF BufferInv, Overfull
  <2>3. CASE ~(Len(recvBuf) + n > MaxPacket + 1 + MaxVarint)
    <3>1. broken' = broken
      BY <1>4, <2>3, Zenon DEF ReadMessage
    <3>2. QED
      BY <2>1, <3>1 DEF BufferInv
  <2>4. QED
    BY <2>2, <2>3
<1>5. ASSUME NEW body \in Bodies, SendPacket(body) PROVE BufferInv'
  <2>1. sent' = Append(sent, body) /\ readBack' = readBack /\ broken' = broken
    BY <1>5 DEF SendPacket
  <2>2. sent \in Seq(Seq(Byte)) /\ body \in Seq(Byte) /\ Len(readBack) \in Nat
    BY PacketsAssumption DEF FrameInv
  <2>3. /\ Len(sent') = Len(sent) + 1 /\ Len(sent) \in Nat
        /\ \A i \in DOMAIN sent : i \in DOMAIN sent' /\ sent'[i] = sent[i]
    BY <2>1, <2>2, AppendProperties
  <2>4. Overfull => Overfull'
    BY <2>1, <2>2, <2>3 DEF Overfull
  <2>5. QED
    BY <2>1, <2>4, Zenon DEF BufferInv
<1>6. QED
  BY <1>1, <1>2, <1>3, <1>4, <1>5 DEF PacketsNext

\* When all bytes are there a packet that was not read is complete.
LEMMA Whole ==
    ASSUME FrameInv, broken # "buffer", Len(wire) = 0, Len(readBack) < Len(sent),
           \A i \in DOMAIN sent : Len(sent[i]) <= MaxPacket
    PROVE  Complete
<1> DEFINE r == Len(readBack)
           body == sent[r + 1]
           k == Len(EncodeVarint[Len(body)])
           m == Len(recvBuf)
           l == Len(body)
<1>1. /\ r \in Nat /\ Len(sent) \in Nat /\ m \in Nat /\ sent \in Seq(Seq(Byte))
  BY DEF FrameInv
<1>2. /\ k \in Nat \ {0} /\ l \in Nat /\ Len(Encode(body)) = 1 + k + l
      /\ Len(Encode(body)) <= m + Len(wire)
      /\ Length = IF m >= 2 /\ k <= MaxVarint /\ m >= 1 + k
                  THEN [value |-> l, next |-> 2 + k] ELSE NoVarint
  BY HeadKnown
<1>3. l <= MaxPacket
  <2>1. r + 1 \in DOMAIN sent
    BY <1>1
  <2>2. QED
    BY <2>1
<1> HIDE DEF body
<1>4. k <= MaxVarint
  <2>1. l \in 0 .. MaxPacket
    <3>1. l \in Nat
      BY <1>2
    <3>2. QED
      BY <1>3, <3>1, PacketsAssumption
  <2>2. QED
    BY <2>1, VarintsSuffice
<1> HIDE DEF r, k, m, l
<1>5. 1 + k + l <= m
  BY <1>1, <1>2
<1>6. m >= 2 /\ m >= 1 + k
  BY <1>1, <1>2, <1>5
<1>7. Length = [value |-> l, next |-> 2 + k]
  BY <1>2, <1>4, <1>6
<1>8. Length # NoVarint
  <2>1. 2 + k \in Nat
    BY <1>2
  <2>2. Length \in [value : Nat, next : Nat]
    BY <1>2, <1>7, <2>1
  <2>3. QED
    BY <2>2, PacketsAssumption
<1>9. Total(recvBuf, Length) = 1 + k + l
  <2>1. Length.value = l /\ Length.next = 2 + k
    BY <1>7
  <2>2. Total(recvBuf, Length) = (2 + k) - 1 + l
    BY <2>1, Zenon DEF Total
  <2>3. (2 + k) - 1 + l = 1 + k + l
    BY <1>2
  <2>4. QED
    BY <2>2, <2>3, Zenon
<1>10. m >= Total(recvBuf, Length)
  BY <1>1, <1>2, <1>5, <1>9
<1>11. QED
  BY <1>8, <1>10, Zenon DEF Complete, m

\* When all bytes are there and it waits for more, all were read.
LEMMA AllRead ==
    ASSUME FrameInv, broken # "buffer", Len(wire) = 0, ~Complete,
           \A i \in DOMAIN sent : Len(sent[i]) <= MaxPacket
    PROVE  readBack = sent
<1>1. /\ sent \in Seq(Seq(Byte)) /\ readBack \in Seq(Seq(Byte))
      /\ Len(readBack) <= Len(sent)
      /\ \A i \in 1 .. Len(readBack) : readBack[i] = sent[i]
  BY DEF FrameInv
<1>2. ~ (Len(readBack) < Len(sent))
  BY Whole
<1>3. Len(readBack) = Len(sent)
  BY <1>1, <1>2
<1>4. QED
  BY <1>1, <1>3, SeqEqual

\* The invariants are more than FramesExact asks.
LEMMA FrameMeans ==
    ASSUME FrameInv, BufferInv
    PROVE  FramesExact
<1> DEFINE r == Len(readBack)
<1>1. /\ sent \in Seq(Seq(Byte)) /\ readBack \in Seq(Seq(Byte)) /\ r \in Nat
      /\ r <= Len(sent) /\ Len(sent) \in Nat
      /\ \A i \in 1 .. r : readBack[i] = sent[i]
  BY DEF FrameInv
<1>2. SubSeq(readBack, 1, r) = SubSeq(sent, 1, r)
  <2>1. \A i \in 1 .. r : readBack[i] \in Seq(Byte) /\ sent[i] \in Seq(Byte)
    BY <1>1
  <2> DEFINE a == SubSeq(readBack, 1, r)
             b == SubSeq(sent, 1, r)
  <2> HIDE DEF r
  <2>2. /\ a \in Seq(Seq(Byte)) /\ Len(a) = IF 1 <= r THEN r - 1 + 1 ELSE 0
        /\ \A i \in 1 .. r - 1 + 1 : a[i] = readBack[1 + i - 1]
    BY <1>1, <2>1, SubSeqProperties
  <2>3. /\ b \in Seq(Seq(Byte)) /\ Len(b) = IF 1 <= r THEN r - 1 + 1 ELSE 0
        /\ \A i \in 1 .. r - 1 + 1 : b[i] = sent[1 + i - 1]
    BY <1>1, <2>1, SubSeqProperties
  <2> HIDE DEF a, b
  <2>4. ASSUME NEW i \in 1 .. Len(a) PROVE a[i] = b[i]
    <3>1. i \in 1 .. r - 1 + 1 /\ 1 + i - 1 = i /\ i \in 1 .. r
      BY <1>1, <2>2
    <3>2. QED
      BY <1>1, <2>2, <2>3, <3>1
  <2>5. a = b
    BY <2>2, <2>3, <2>4, SeqEqual
  <2>6. QED
    BY <2>5 DEF a, b
<1>3. IsPrefix(readBack, sent)
  BY <1>1, <1>2, Zenon DEF IsPrefix
<1>4. broken = "length" => \E i \in DOMAIN sent : Len(sent[i]) > MaxPacket
  BY DEF FrameInv
<1>5. ASSUME broken = "", wire = <<>>, ~Complete, \A i \in DOMAIN sent : Len(sent[i]) <= MaxPacket
      PROVE  readBack = sent
  <2>1. broken # "buffer"
    BY <1>5
  <2>2. Len(wire) = 0
    BY <1>5
  <2>3. QED
    BY <1>5, <2>1, <2>2, AllRead, Zenon
<1>6. broken = "buffer" =>
         Len(sent) > Len(readBack) + 1 \/ \E i \in DOMAIN sent : Len(sent[i]) > MaxPacket
  BY Zenon DEF BufferInv, Overfull
<1>7. QED
  BY <1>3, <1>4, <1>5, <1>6, Zenon DEF FramesExact

\* However the bytes are cut into messages, read_packet returns the packets that
\* were sent, whole and in order; a length error blames a packet that is too
\* large, and the buffer overflows only if one is, or if more than one packet is
\* not yet read.
THEOREM FramesExactHolds == PacketsSpec => []FramesExact
<1>1. PacketsInit => FrameInv /\ BufferInv
  BY FrameInit DEF PacketsInit, BufferInv
<1>2. FrameInv /\ BufferInv /\ [PacketsNext]_packets => FrameInv' /\ BufferInv'
  BY FrameStep, BufferStep
<1>3. FrameInv /\ BufferInv => FramesExact
  BY FrameMeans
<1>4. QED
  BY <1>1, <1>2, <1>3, PTL DEF PacketsSpec

-----------------------------------------------------------------------------
\* Lyrics

\* A loop whose turns stay within a set ends in it.
LEMMA LoopKeeps ==
    ASSUME NEW n \in Nat, NEW A, NEW T, T \subseteq A, NEW start \in T,
           NEW turn \in [1 .. n -> [A -> A]], \A i \in 1 .. n : \A t \in T : turn[i][t] \in T
    PROVE  Loop(n, start, turn) \in T
<1> DEFINE after[i \in 0 .. n] == IF i = 0 THEN start ELSE turn[i][after[i - 1]]
           Turn(x) == IF x[1] = 0 THEN start ELSE turn[x[1]][x[2][x[1] - 1]]
           step == [x \in Nat \X [Nat -> A] |-> IF x[1] <= n THEN Turn(x) ELSE start]
<1>1. step \in [Nat \X [Nat -> A] -> A]
  <2>1. ASSUME NEW x \in Nat \X [Nat -> A], x[1] <= n PROVE Turn(x) \in A
    <3>1. CASE x[1] = 0
      BY <3>1
    <3>2. CASE x[1] # 0
      <4>1. x[1] \in 1 .. n /\ x[1] - 1 \in Nat
        BY <2>1, <3>2
      <4>2. x[2][x[1] - 1] \in A /\ turn[x[1]] \in [A -> A]
        BY <4>1
      <4>3. QED
        BY <3>2, <4>2
    <3>3. QED
      BY <3>1, <3>2
  <2>2. start \in A
    OBVIOUS
  <2> HIDE DEF Turn
  <2>3. QED
    BY <2>1, <2>2
<1>2. \A m \in Nat : \A g, h \in [Nat -> A] :
          (\A i \in 0 .. m - 1 : g[i] = h[i]) => step[<<m, g>>] = step[<<m, h>>]
  <2> SUFFICES ASSUME NEW m \in Nat, NEW g \in [Nat -> A], NEW h \in [Nat -> A],
                      \A i \in 0 .. m - 1 : g[i] = h[i]
               PROVE  step[<<m, g>>] = step[<<m, h>>]
    OBVIOUS
  <2>1. m = 0 \/ g[m - 1] = h[m - 1]
    OBVIOUS
  <2>2. QED
    BY <2>1
<1>3. \A m \in Nat : \A g \in [Nat -> A] :
          step[<<m, g>>] = IF m <= n THEN IF m = 0 THEN start ELSE turn[m][g[m - 1]] ELSE start
  OBVIOUS
<1> HIDE DEF step
<1>4. PICK f \in [Nat -> A] : \A m \in Nat : f[m] = step[<<m, f>>]
  <2>1. A # {}
    OBVIOUS
  <2>2. QED
    BY <1>1, <1>2, <2>1, Recursion, ZenonT(60)
<1> DEFINE Body(g) == [i \in 0 .. n |-> IF i = 0 THEN start ELSE turn[i][g[i - 1]]]
           part == [i \in 0 .. n |-> f[i]]
<1>5. part = Body(part)
  <2>1. ASSUME NEW i \in 0 .. n PROVE part[i] = IF i = 0 THEN start ELSE turn[i][part[i - 1]]
    <3>1. f[i] = IF i = 0 THEN start ELSE turn[i][f[i - 1]]
      <4>1. i \in Nat /\ i <= n
        OBVIOUS
      <4>2. f[i] = step[<<i, f>>]
        BY <1>4, <4>1
      <4>3. step[<<i, f>>] = IF i = 0 THEN start ELSE turn[i][f[i - 1]]
        BY <1>3, <1>4, <4>1
      <4>4. QED
        BY <4>2, <4>3
    <3>2. i # 0 => part[i - 1] = f[i - 1]
      OBVIOUS
    <3>3. QED
      BY <3>1, <3>2
  <2>2. QED
    BY <2>1
<1> HIDE DEF part
<1>6. after = Body(after)
  BY <1>5, Zenon
<1> HIDE DEF after
<1>7. \A i \in 0 .. n : after[i] = IF i = 0 THEN start ELSE turn[i][after[i - 1]]
  BY <1>6
<1> DEFINE Good == {i \in Nat : i <= n => after[i] \in T}
<1>8. ASSUME NEW i \in Nat, \A m \in 0 .. i - 1 : m \in Good PROVE i \in Good
  <2> SUFFICES ASSUME i <= n PROVE after[i] \in T
    OBVIOUS
  <2>1. CASE i = 0
    BY <1>7, <2>1
  <2>2. CASE i # 0
    <3>1. i \in 1 .. n /\ i - 1 \in 0 .. i - 1 /\ i - 1 \in Nat /\ i - 1 <= n /\ i \in 0 .. n
      BY <2>2
    <3>2. after[i - 1] \in T
      BY <1>8, <3>1
    <3>3. after[i] = turn[i][after[i - 1]]
      BY <1>7, <2>2, <3>1
    <3>4. QED
      BY <3>1, <3>2, <3>3
  <2>3. QED
    BY <2>1, <2>2
<1> HIDE DEF Good
<1>9. Good = Nat
  <2>1. Good \subseteq Nat
    BY DEF Good
  <2>2. QED
    BY <1>8, <2>1, FromZero
<1>10. after[n] \in T
  BY <1>9 DEF Good
<1>11. Loop(n, start, turn) = after[n]
  BY Zenon DEF Loop, after
<1>12. QED
  BY <1>10, <1>11

\* What the loops of parse_lrc and parse_timed_lrc build are lines.
LEMMA TagRead ==
    ASSUME NEW acc \in Reader, NEW tag \in Tag, NEW text \in Texts
    PROVE  ReadTag(acc, tag, text) \in Reader
<1> DEFINE line == [time |-> tag.ms - acc.offset, text |-> text]
<1>1. /\ acc.lines \in Seq(Line) /\ acc.offset \in Int /\ tag.ms \in Int
      /\ tag.ms - acc.offset \in Int /\ {tag.ms} \in SUBSET Int
  BY DEF Reader, Tag
<1>2. line \in Line
  BY <1>1 DEF Line
<1>3. Append(acc.lines, line) \in Seq(Line)
  BY <1>1, <1>2, AppendProperties
<1>4. CASE tag.kind = "offset"
  BY <1>1, <1>4 DEF ReadTag, Reader
<1>5. CASE tag.kind # "offset" /\ text = Empty
  BY <1>5 DEF ReadTag
<1>6. CASE tag.kind # "offset" /\ text # Empty
  <2>1. ReadTag(acc, tag, text) = [acc EXCEPT !.lines = Append(acc.lines, line),
                                              !.last = tag.ms - acc.offset, !.found = TRUE]
    BY <1>6 DEF ReadTag
  <2> HIDE DEF line
  <2>2. QED
    BY <1>1, <1>3, <2>1 DEF Reader
<1>7. QED
  BY <1>4, <1>5, <1>6

\* A row leaves the variables of parse_lrc of their types.
LEMMA RowRead ==
    ASSUME NEW acc \in Reader, NEW row \in Row
    PROVE  ReadRow(acc, row) \in Reader
<1> DEFINE n == Len(row.tags)
           start == [acc EXCEPT !.found = FALSE]
           turn == [i \in 1 .. n |-> [a \in Reader |-> ReadTag(a, row.tags[n + 1 - i], row.text)]]
           read == Loop(n, start, turn)
<1>1. row.tags \in Seq(Tag) /\ row.text \in Texts /\ n \in Nat
  BY DEF Row
<1>2. start \in Reader
  BY DEF Reader
<1>3. \A i \in 1 .. n : \A a \in Reader : ReadTag(a, row.tags[n + 1 - i], row.text) \in Reader
  <2> SUFFICES ASSUME NEW i \in 1 .. n, NEW a \in Reader
               PROVE  ReadTag(a, row.tags[n + 1 - i], row.text) \in Reader
    OBVIOUS
  <2>1. row.tags[n + 1 - i] \in Tag
    <3>1. n + 1 - i \in 1 .. n
      BY <1>1
    <3>2. QED
      BY <1>1, <3>1
  <2>2. QED
    BY <1>1, <2>1, TagRead
<1>4. turn \in [1 .. n -> [Reader -> Reader]] /\ \A i \in 1 .. n : \A a \in Reader : turn[i][a] \in Reader
  BY <1>3
<1> HIDE DEF n, start, turn
<1>5. read \in Reader
  BY <1>1, <1>2, <1>4, LoopKeeps
<1>6. ReadRow(acc, row) = IF read.found \/ row.text = Empty THEN read
                          ELSE [read EXCEPT !.lines = Append(read.lines, [time |-> read.last, text |-> row.text])]
  BY DEF ReadRow, n, start, turn
<1> HIDE DEF read
<1>7. Append(read.lines, [time |-> read.last, text |-> row.text]) \in Seq(Line)
  <2>1. read.lines \in Seq(Line) /\ [time |-> read.last, text |-> row.text] \in Line
    BY <1>1, <1>5 DEF Reader, Line
  <2>2. QED
    BY <2>1, AppendProperties
<1>8. QED
  BY <1>5, <1>6, <1>7 DEF Reader

\* So does a text.
LEMMA RowsRead ==
    ASSUME NEW rows \in Seq(Row)
    PROVE  ReadRows(rows).lines \in Seq(Line)
<1> DEFINE n == Len(rows)
           start == [lines |-> <<>>, offset |-> 0, last |-> 0, found |-> FALSE, meta |-> {}]
           turn == [i \in DOMAIN rows |-> [acc \in Reader |-> ReadRow(acc, rows[i])]]
<1>1. n \in Nat /\ DOMAIN rows = 1 .. n
  OBVIOUS
<1>2. start \in Reader
  BY DEF Reader
<1>3. turn \in [1 .. n -> [Reader -> Reader]] /\ \A i \in 1 .. n : \A a \in Reader : turn[i][a] \in Reader
  BY <1>1, RowRead
<1> HIDE DEF n, start, turn
<1>4. Loop(n, start, turn) \in Reader
  BY <1>1, <1>2, <1>3, LoopKeeps
<1>5. QED
  BY <1>4 DEF ReadRows, Reader, n, start, turn

\* A row adds lines, and nothing else, to those of parse_timed_lrc.
LEMMA RowTimed ==
    ASSUME NEW lines \in Seq(Line), NEW row \in Row
    PROVE  TimedRow(lines, row) \in Seq(Line)
<1> DEFINE n == Len(row.tags)
           S == Seq(Line)
           turn == [i \in DOMAIN row.tags |-> [l \in S |-> TimedTag(l, row.tags[i], row.text)]]
<1>1. row.tags \in Seq(Tag) /\ row.text \in Texts /\ n \in Nat /\ DOMAIN row.tags = 1 .. n
  BY DEF Row
<1>2. ASSUME NEW l \in S, NEW i \in 1 .. n PROVE TimedTag(l, row.tags[i], row.text) \in S
  <2>1. [time |-> row.tags[i].ms, text |-> row.text] \in Line
    <3>1. row.tags[i] \in Tag
      BY <1>1
    <3>2. QED
      BY <1>1, <3>1 DEF Line, Tag
  <2>2. Append(l, [time |-> row.tags[i].ms, text |-> row.text]) \in S
    BY <2>1, AppendProperties
  <2>3. QED
    BY <2>2 DEF TimedTag
<1>3. turn \in [1 .. n -> [S -> S]] /\ \A i \in 1 .. n : \A l \in S : turn[i][l] \in S
  BY <1>1, <1>2
<1>4. lines \in S
  OBVIOUS
<1> HIDE DEF n, turn, S
<1>5. Loop(n, lines, turn) \in S
  BY <1>1, <1>3, <1>4, LoopKeeps
<1>6. QED
  BY <1>5 DEF TimedRow, n, turn, S

-----------------------------------------------------------------------------
\* Sorting

\* Lines in the order of their times.
Ordered == {s \in Seq(Line) : \A i, j \in 1 .. Len(s) : i <= j => s[i].time <= s[j].time}

\* line_at stops at the first line that is later.
LEMMA LineAtStops ==
    ASSUME NEW s \in Seq(Line), NEW ms \in Int
    PROVE  LET at == LineAt(s, ms)
           IN  /\ at \in 0 .. Len(s)
               /\ \A i \in 1 .. at : s[i].time <= ms
               /\ at < Len(s) => s[at + 1].time > ms
<1> DEFINE late == {i \in 1 .. Len(s) : s[i].time > ms}
           at == LineAt(s, ms)
<1>1. Len(s) \in Nat /\ \A i \in 1 .. Len(s) : s[i].time \in Int
  <2>1. \A i \in 1 .. Len(s) : s[i] \in Line
    OBVIOUS
  <2>2. QED
    BY <2>1 DEF Line
<1>2. at = IF (IF late # {} THEN Min(late) ELSE 0) = 0 THEN Len(s)
           ELSE (IF late # {} THEN Min(late) ELSE 0) - 1
  BY DEF LineAt, SelectInSeq
<1>3. \A i \in 1 .. Len(s) : i \notin late => s[i].time <= ms
  BY <1>1
<1>4. late \subseteq Nat /\ \A i \in late : i \in 1 .. Len(s) /\ s[i].time > ms
  OBVIOUS
<1> HIDE DEF late, at
<1>5. CASE late = {}
  BY <1>1, <1>2, <1>3, <1>5 DEF at
<1>6. CASE late # {}
  <2>1. Min(late) \in late /\ \A i \in late : Min(late) <= i
    BY <1>4, <1>6, MinIsLeast
  <2>2. Min(late) \in 1 .. Len(s) /\ s[Min(late)].time > ms
    BY <1>4, <2>1
  <2>3. at = Min(late) - 1
    BY <1>2, <1>6, <2>2
  <2>4. at \in 0 .. Len(s) /\ at + 1 = Min(late)
    BY <1>1, <2>2, <2>3
  <2>5. \A i \in 1 .. at : s[i].time <= ms
    <3> SUFFICES ASSUME NEW i \in 1 .. at PROVE s[i].time <= ms
      OBVIOUS
    <3>1. i \in 1 .. Len(s) /\ ~ (Min(late) <= i)
      BY <1>1, <2>2, <2>3
    <3>2. QED
      BY <1>3, <2>1, <3>1
  <2>6. QED
    BY <2>2, <2>4, <2>5 DEF at
<1>7. QED
  BY <1>5, <1>6

\* An ordered text stays ordered when a line is put behind those not later.
LEMMA InsertOrdered ==
    ASSUME NEW s \in Ordered, NEW line \in Line
    PROVE  Insert(s, line) \in Ordered
<1> DEFINE at == LineAt(s, line.time)
           n == Len(s)
           a == SubSeq(s, 1, at)
           b == SubSeq(s, at + 1, n)
           c == a \o <<line>>
           t == c \o b
           time(i) == s[i].time
<1>1. s \in Seq(Line) /\ n \in Nat /\ line.time \in Int
  BY DEF Ordered, Line
<1>2. /\ at \in 0 .. n
      /\ \A i \in 1 .. at : time(i) <= line.time
      /\ at < n => time(at + 1) > line.time
  BY <1>1, LineAtStops
<1>3. \A i \in 1 .. n : s[i] \in Line /\ time(i) \in Int
  <2>1. \A i \in 1 .. n : s[i] \in Line
    BY <1>1
  <2>2. QED
    BY <2>1 DEF Line
<1>4. \A i, j \in 1 .. n : i <= j => time(i) <= time(j)
  BY DEF Ordered
<1> HIDE DEF at, n, time
<1>5. \A i \in at + 1 .. n : line.time < time(i)
  <2> SUFFICES ASSUME NEW i \in at + 1 .. n PROVE line.time < time(i)
    OBVIOUS
  <2>1. at + 1 \in 1 .. n /\ i \in 1 .. n /\ at + 1 <= i /\ at < n
    BY <1>1, <1>2
  <2>2. time(at + 1) <= time(i) /\ time(at + 1) > line.time /\ time(at + 1) \in Int /\ time(i) \in Int
    BY <1>2, <1>3, <1>4, <2>1
  <2>3. QED
    BY <1>1, <2>2
<1>6. a \in Seq(Line) /\ Len(a) = at /\ \A i \in 1 .. at : a[i] = s[i]
  <2>1. \A i \in 1 .. at : s[i] \in Line
    BY <1>1, <1>2, <1>3
  <2>2. /\ a \in Seq(Line) /\ Len(a) = IF 1 <= at THEN at - 1 + 1 ELSE 0
        /\ \A i \in 1 .. at - 1 + 1 : a[i] = s[1 + i - 1]
    <3>1. at \in Int
      BY <1>2
    <3>2. QED
      BY <2>1, <3>1, SubSeqProperties
  <2> HIDE DEF a
  <2>3. ASSUME NEW i \in 1 .. at PROVE a[i] = s[i]
    <3>1. i \in 1 .. at - 1 + 1 /\ 1 + i - 1 = i
      BY <1>2
    <3>2. QED
      BY <2>2, <3>1
  <2>4. QED
    BY <1>1, <1>2, <2>2, <2>3
<1>7. b \in Seq(Line) /\ Len(b) = n - at /\ \A i \in 1 .. n - at : b[i] = s[at + i]
  <2>1. \A i \in at + 1 .. n : s[i] \in Line
    BY <1>1, <1>2, <1>3
  <2>2. /\ b \in Seq(Line) /\ Len(b) = IF at + 1 <= n THEN n - (at + 1) + 1 ELSE 0
        /\ \A i \in 1 .. n - (at + 1) + 1 : b[i] = s[(at + 1) + i - 1]
    <3>1. at + 1 \in Int /\ n \in Int
      BY <1>1, <1>2
    <3>2. QED
      BY <2>1, <3>1, SubSeqProperties
  <2> HIDE DEF b
  <2>3. ASSUME NEW i \in 1 .. n - at PROVE b[i] = s[at + i]
    <3>1. i \in 1 .. n - (at + 1) + 1 /\ (at + 1) + i - 1 = at + i
      BY <1>1, <1>2
    <3>2. QED
      BY <2>2, <3>1
  <2>4. QED
    BY <1>1, <1>2, <2>2, <2>3
<1> HIDE DEF a, b
<1>8. c \in Seq(Line) /\ Len(c) = at + 1 /\ c[at + 1] = line /\ \A i \in 1 .. at : c[i] = s[i]
  <2>1. c = Append(a, line)
    BY <1>6, AppendIsConcat
  <2> HIDE DEF c
  <2>2. /\ c \in Seq(Line) /\ Len(c) = Len(a) + 1 /\ c[Len(a) + 1] = line
        /\ \A i \in 1 .. Len(a) : c[i] = a[i]
    BY <1>6, <2>1, AppendProperties
  <2>3. QED
    BY <1>6, <2>2
<1> HIDE DEF c
<1>9. /\ t \in Seq(Line) /\ Len(t) = Len(c) + Len(b)
      /\ \A i \in 1 .. Len(c) + Len(b) : t[i] = IF i <= Len(c) THEN c[i] ELSE b[i - Len(c)]
  BY <1>7, <1>8, ConcatProperties
<1> HIDE DEF t
<1>10. Len(t) = n + 1
  BY <1>1, <1>2, <1>7, <1>8, <1>9
<1>11. ASSUME NEW i \in 1 .. n + 1
       PROVE  /\ i <= at => i \in 1 .. n /\ t[i].time = time(i)
              /\ i = at + 1 => t[i].time = line.time
              /\ i > at + 1 => i - 1 \in at + 1 .. n /\ t[i].time = time(i - 1)
  <2>1. t[i] = IF i <= at + 1 THEN c[i] ELSE b[i - (at + 1)]
    BY <1>7, <1>8, <1>9, <1>10
  <2>2. CASE i <= at
    <3>1. i \in 1 .. at /\ i <= at + 1 /\ i \in 1 .. n /\ ~ (i = at + 1) /\ ~ (i > at + 1)
      BY <1>1, <1>2, <2>2
    <3>2. QED
      BY <1>8, <2>1, <3>1 DEF time
  <2>3. CASE i = at + 1
    <3>1. i <= at + 1 /\ ~ (i <= at) /\ ~ (i > at + 1)
      BY <1>2, <2>3
    <3>2. QED
      BY <1>8, <2>1, <2>3, <3>1
  <2>4. CASE i > at + 1
    <3>1. /\ ~ (i <= at + 1) /\ ~ (i <= at) /\ ~ (i = at + 1)
          /\ i - 1 \in at + 1 .. n /\ i - (at + 1) \in 1 .. n - at /\ at + (i - (at + 1)) = i - 1
      BY <1>1, <1>2, <2>4
    <3>2. t[i] = s[i - 1]
      BY <1>7, <2>1, <3>1
    <3>3. QED
      BY <3>1, <3>2 DEF time
  <2>5. QED
    BY <1>2, <2>2, <2>3, <2>4
<1>12. ASSUME NEW i \in 1 .. n + 1, NEW j \in 1 .. n + 1, i <= j PROVE t[i].time <= t[j].time
  <2> DEFINE v == line.time
  <2>1. v \in Int /\ at \in Nat /\ n \in Nat /\ at <= n
    BY <1>1, <1>2
  <2> HIDE DEF v
  <2>2. CASE i <= at /\ j <= at
    BY <1>4, <1>11, <1>12, <2>2
  <2>3. CASE i <= at /\ j = at + 1
    <3>1. i \in 1 .. at
      BY <2>1, <2>3
    <3>2. QED
      BY <1>2, <1>11, <2>3, <3>1
  <2>4. CASE i <= at /\ j > at + 1
    <3>1. /\ t[i].time = time(i) /\ t[j].time = time(j - 1) /\ i \in 1 .. n /\ j - 1 \in 1 .. n
          /\ i <= j - 1
      BY <1>11, <2>1, <2>4
    <3>2. QED
      BY <1>4, <3>1
  <2>5. CASE i = at + 1 /\ j = at + 1
    <3>1. t[i].time = v /\ t[j].time = v
      BY <1>11, <2>5 DEF v
    <3>2. QED
      BY <2>1, <3>1
  <2>6. CASE i = at + 1 /\ j > at + 1
    <3>1. t[i].time = v /\ t[j].time = time(j - 1) /\ j - 1 \in at + 1 .. n
      BY <1>11, <2>6 DEF v
    <3>2. v < time(j - 1) /\ time(j - 1) \in Int
      <4>1. j - 1 \in 1 .. n
        BY <2>1, <3>1
      <4>2. QED
        BY <1>3, <1>5, <3>1, <4>1 DEF v
    <3>3. QED
      BY <2>1, <3>1, <3>2
  <2>7. CASE i > at + 1 /\ j > at + 1
    <3>1. /\ t[i].time = time(i - 1) /\ t[j].time = time(j - 1)
          /\ i - 1 \in 1 .. n /\ j - 1 \in 1 .. n /\ i - 1 <= j - 1
      BY <1>11, <1>12, <2>1, <2>7
    <3>2. QED
      BY <1>4, <3>1
  <2>8. QED
    <3>1. i \in Int /\ j \in Int /\ i <= j
      BY <1>12
    <3>2. \/ i <= at /\ j <= at
          \/ i <= at /\ j = at + 1
          \/ i <= at /\ j > at + 1
          \/ i = at + 1 /\ j = at + 1
          \/ i = at + 1 /\ j > at + 1
          \/ i > at + 1 /\ j > at + 1
      BY <2>1, <3>1
    <3>3. QED
      BY <3>2, <2>2, <2>3, <2>4, <2>5, <2>6, <2>7
<1>13. t \in Ordered
  BY <1>9, <1>10, <1>12 DEF Ordered
<1>14. Insert(s, line) = t
  BY Zenon DEF Insert, a, b, c, at, n, t
<1>15. QED
  BY <1>13, <1>14

\* sort_by_key orders lines.
LEMMA ByTimeOrdered ==
    ASSUME NEW lines \in Seq(Line)
    PROVE  ByTime(lines) \in Ordered
<1> DEFINE n == Len(lines)
           S == Seq(Line)
           turn == [i \in DOMAIN lines |-> [sorted \in Seq(Line) |-> Insert(sorted, lines[i])]]
<1>1. n \in Nat /\ DOMAIN lines = 1 .. n /\ \A i \in 1 .. n : lines[i] \in Line
  OBVIOUS
<1>2. <<>> \in Ordered /\ Ordered \subseteq S
  BY DEF Ordered
<1>3. turn \in [1 .. n -> [S -> S]]
  <2>1. ASSUME NEW s \in S, NEW line \in Line PROVE Insert(s, line) \in S
    <3> DEFINE at == LineAt(s, line.time)
               a == SubSeq(s, 1, at)
               b == SubSeq(s, at + 1, Len(s))
    <3>1. at \in 0 .. Len(s) /\ Len(s) \in Nat
      <4>1. line.time \in Int /\ s \in Seq(Line)
        BY DEF Line
      <4>2. at \in 0 .. Len(s)
        BY <4>1, LineAtStops
      <4>3. QED
        BY <4>1, <4>2
    <3> HIDE DEF at
    <3>2. a \in S
      <4>1. \A i \in 1 .. at : s[i] \in Line
        BY <3>1
      <4>2. at \in Int
        BY <3>1
      <4>3. QED
        BY <4>1, <4>2, SubSeqProperties
    <3>3. b \in S
      <4>1. \A i \in at + 1 .. Len(s) : s[i] \in Line
        BY <3>1
      <4>2. at + 1 \in Int /\ Len(s) \in Int
        BY <3>1
      <4>3. QED
        BY <4>1, <4>2, SubSeqProperties
    <3>4. Insert(s, line) = (a \o <<line>>) \o b
      BY Zenon DEF Insert, at
    <3> HIDE DEF a, b
    <3>5. a \o <<line>> \in S
      <4>1. <<line>> \in Seq(Line)
        OBVIOUS
      <4>2. QED
        BY <3>2, <4>1, ConcatProperties
    <3>6. QED
      BY <3>3, <3>4, <3>5, ConcatProperties
  <2>2. QED
    BY <1>1, <2>1
<1>4. \A i \in 1 .. n : \A s \in Ordered : turn[i][s] \in Ordered
  <2> SUFFICES ASSUME NEW i \in 1 .. n, NEW s \in Ordered PROVE turn[i][s] \in Ordered
    OBVIOUS
  <2>1. turn[i][s] = Insert(s, lines[i])
    BY <1>1, <1>2
  <2>2. QED
    BY <1>1, <2>1, InsertOrdered
<1> HIDE DEF n, turn, S
<1>5. Loop(n, <<>>, turn) \in Ordered
  BY <1>1, <1>2, <1>3, <1>4, LoopKeeps
<1>6. QED
  BY <1>5 DEF ByTime, n, turn

-----------------------------------------------------------------------------
\* What is shown

\* The lines of parse_timed_lrc are in order.
LEMMA TimedLines ==
    ASSUME NEW rows \in Seq(Row)
    PROVE  ParseTimed(rows) \in Ordered
<1> DEFINE n == Len(rows)
           S == Seq(Line)
           turn == [i \in DOMAIN rows |-> [lines \in Seq(Line) |-> TimedRow(lines, rows[i])]]
<1>1. n \in Nat /\ DOMAIN rows = 1 .. n /\ <<>> \in S
  OBVIOUS
<1>2. turn \in [1 .. n -> [S -> S]] /\ \A i \in 1 .. n : \A l \in S : turn[i][l] \in S
  BY <1>1, RowTimed
<1> HIDE DEF n, turn, S
<1>3. Loop(n, <<>>, turn) \in S
  BY <1>1, <1>2, LoopKeeps
<1>4. ByTime(Loop(n, <<>>, turn)) \in Ordered
  BY <1>3, ByTimeOrdered DEF S
<1>5. QED
  BY <1>4 DEF ParseTimed, n, turn

\* The line that line_at answers is the last of those that have begun.
LEMMA LastBegun ==
    ASSUME NEW s \in Ordered, NEW ms \in Int, NEW i \in DOMAIN s, s[i].time <= ms
    PROVE  LineAt(s, ms) >= i /\ s[LineAt(s, ms)].time >= s[i].time
<1> DEFINE at == LineAt(s, ms)
           n == Len(s)
<1>1. s \in Seq(Line) /\ n \in Nat /\ i \in 1 .. n
  BY DEF Ordered
<1>2. /\ at \in 0 .. n
      /\ at < n => s[at + 1].time > ms
  BY <1>1, LineAtStops
<1>3. \A j, k \in 1 .. n : j <= k => s[j].time <= s[k].time
  BY DEF Ordered
<1>4. \A j \in 1 .. n : s[j].time \in Int
  <2>1. \A j \in 1 .. n : s[j] \in Line
    BY <1>1
  <2>2. QED
    BY <2>1 DEF Line
<1> HIDE DEF at, n
<1>5. at >= i
  <2> SUFFICES ASSUME ~ (at >= i) PROVE FALSE
    OBVIOUS
  <2>1. at < n /\ at + 1 \in 1 .. n /\ at + 1 <= i
    BY <1>1, <1>2
  <2>2. s[at + 1].time > ms /\ s[at + 1].time <= s[i].time /\ s[at + 1].time \in Int /\ s[i].time \in Int
    BY <1>1, <1>2, <1>3, <1>4, <2>1
  <2>3. QED
    BY <2>2
<1>6. at \in 1 .. n /\ i <= at
  BY <1>1, <1>2, <1>5
<1>7. s[i].time <= s[at].time /\ s[i].time \in Int /\ s[at].time \in Int
  BY <1>1, <1>3, <1>4, <1>6
<1>8. s[at].time >= s[i].time
  BY <1>7
<1>9. QED
  BY <1>5, <1>8 DEF at

\* Of two lines of the player the earlier one ends where another one begins.
LEMMA EarlierEnded ==
    ASSUME NEW rows \in Seq(Row), NEW ms \in Int,
           NEW l \in PlaybackLines(rows), NEW m \in PlaybackLines(rows),
           l.index < m.index, m.start <= ms
    PROVE  Ended(l, ms)
<1> DEFINE timed == ParseTimed(rows)
           n == Len(timed)
           line(i) == [index |-> i, start |-> timed[i].time,
                       end |-> {timed[j].time : j \in DOMAIN timed \cap {i + 1}}]
<1>1. timed \in Ordered
  BY TimedLines
<1>2. PlaybackLines(rows) = {line(i) : i \in {j \in DOMAIN timed : timed[j].text # Empty}}
  BY DEF PlaybackLines
<1> HIDE DEF timed
<1>3. timed \in Seq(Line) /\ n \in Nat /\ DOMAIN timed = 1 .. n
  BY <1>1 DEF Ordered
<1>4. PICK i \in 1 .. n : l = line(i)
  BY <1>2, <1>3
<1>5. PICK k \in 1 .. n : m = line(k)
  BY <1>2, <1>3
<1>6. l.index = i /\ m.index = k /\ m.start = timed[k].time
  BY <1>4, <1>5
<1>7. \A a, b \in 1 .. n : a <= b => timed[a].time <= timed[b].time
  BY <1>1 DEF Ordered
<1>8. \A a \in 1 .. n : timed[a].time \in Int
  <2>1. \A a \in 1 .. n : timed[a] \in Line
    BY <1>3
  <2>2. QED
    BY <2>1 DEF Line
<1>9. i + 1 \in 1 .. n /\ i + 1 <= k
  BY <1>3, <1>6
<1>10. timed[i + 1].time \in l.end
  BY <1>3, <1>4, <1>9
<1>11. ms >= timed[i + 1].time
  <2>1. /\ timed[i + 1].time <= timed[k].time /\ timed[k].time <= ms
        /\ timed[i + 1].time \in Int /\ timed[k].time \in Int
    BY <1>6, <1>7, <1>8, <1>9
  <2>2. QED
    BY <2>1
<1>12. QED
  BY <1>10, <1>11 DEF Ended

\* Lines of the player differ in their index.
LEMMA IndexTells ==
    ASSUME NEW rows \in Seq(Row), NEW l \in PlaybackLines(rows), NEW m \in PlaybackLines(rows), l # m
    PROVE  l.index \in Nat /\ m.index \in Nat /\ (l.index < m.index \/ m.index < l.index)
<1> DEFINE timed == ParseTimed(rows)
           n == Len(timed)
           line(i) == [index |-> i, start |-> timed[i].time,
                       end |-> {timed[j].time : j \in DOMAIN timed \cap {i + 1}}]
<1>1. timed \in Ordered
  BY TimedLines
<1>2. PlaybackLines(rows) = {line(i) : i \in {j \in DOMAIN timed : timed[j].text # Empty}}
  BY DEF PlaybackLines
<1> HIDE DEF timed
<1>3. n \in Nat /\ DOMAIN timed = 1 .. n
  BY <1>1 DEF Ordered
<1>4. PICK i \in 1 .. n : l = line(i)
  BY <1>2, <1>3
<1>5. PICK k \in 1 .. n : m = line(k)
  BY <1>2, <1>3
<1>6. l.index = i /\ m.index = k
  BY <1>4, <1>5
<1>7. i # k
  BY <1>4, <1>5
<1>8. QED
  BY <1>3, <1>6, <1>7

\* A text is made of rows.
TextInv == lrc \in Seq(Row)

\* Of every text the lines shown are the right ones.
LEMMA TextMeans ==
    ASSUME lrc \in Seq(Row)
    PROVE  OneLineAtATime
<1> DEFINE shown == ParseLrc(lrc).lines
<1>1. shown \in Ordered
  <2>1. ReadRows(lrc).lines \in Seq(Line)
    BY RowsRead
  <2>2. ByTime(ReadRows(lrc).lines) \in Ordered
    BY <2>1, ByTimeOrdered
  <2>3. QED
    BY <2>2 DEF ParseLrc
<1>2. \A ms \in Probes : ms \in Int
  BY LyricsAssumption
<1>3. ASSUME NEW ms \in Probes, NEW i \in DOMAIN shown, shown[i].time <= ms
      PROVE  LineAt(shown, ms) >= i /\ shown[LineAt(shown, ms)].time >= shown[i].time
  <2> HIDE DEF shown
  <2>1. QED
    BY <1>1, <1>2, <1>3, LastBegun
<1>4. ASSUME NEW ms \in Probes, NEW l \in PlaybackLines(lrc), NEW m \in PlaybackLines(lrc),
             l # m, l.start <= ms, m.start <= ms
      PROVE  Ended(l, ms) \/ Ended(m, ms)
  <2>1. ms \in Int
    BY <1>2
  <2>2. l.index < m.index \/ m.index < l.index
    BY <1>4, IndexTells
  <2>3. CASE l.index < m.index
    BY <1>4, <2>1, <2>3, EarlierEnded
  <2>4. CASE m.index < l.index
    BY <1>4, <2>1, <2>4, EarlierEnded
  <2>5. QED
    BY <2>2, <2>3, <2>4
<1> HIDE DEF shown
<1>5. QED
  BY <1>3, <1>4 DEF OneLineAtATime, shown

\* Whatever the rows and tags of a text: the line that is shown is the last that
\* has begun, and of two lines of the player the earlier one ends no later than
\* the other begins.
THEOREM OneLineAtATimeHolds == LyricsSpec => []OneLineAtATime
<1>1. LyricsInit => TextInv
  BY DEF LyricsInit, TextInv
<1>2. TextInv /\ [LyricsNext]_lrc => TextInv'
  <2> SUFFICES ASSUME lrc \in Seq(Row), [LyricsNext]_lrc PROVE lrc' \in Seq(Row)
    BY DEF TextInv
  <2>1. ASSUME NEW row \in Rows, AddRow(row) PROVE lrc' \in Seq(Row)
    <3>1. row \in Row /\ lrc' = Append(lrc, row)
      BY <2>1, LyricsAssumption DEF AddRow
    <3>2. QED
      BY <3>1, AppendProperties
  <2>2. QED
    BY <2>1 DEF LyricsNext
<1>3. TextInv => OneLineAtATime
  BY TextMeans DEF TextInv
<1>4. QED
  BY <1>1, <1>2, <1>3, PTL DEF LyricsSpec
=============================================================================
