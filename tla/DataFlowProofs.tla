--------------------------- MODULE DataFlowProofs ---------------------------
(***************************************************************************)
(* Proofs about DataFlow: for all programs, word sizes, memories, depths of *)
(* calls and sources, the mirror keeps the EVM's shape, loses no dependence *)
(* and invents none, but for the cases the model names.                     *)
(*                                                                          *)
(* FlowInv pairs every place of the mirror with the truth beside it.  There *)
(* is one lemma per flow function; what they share are facts about units    *)
(* and words (division), about stores to and loads from a mirrored memory,  *)
(* and about a step of the topmost call that leaves the others alone.       *)
(***************************************************************************)
EXTENDS DataFlow, TLAPS

-----------------------------------------------------------------------------
(* Units and words.                                                        *)

LEMMA Sizes ==
  /\ Granularity \in Nat /\ Granularity > 0 /\ Words \in Nat
  /\ Size \in Nat /\ Size = Words * Granularity
BY FlowAssumption DEF Size

LEMMA Multiples ==
  ASSUME NEW x \in Int, NEW y \in Int, NEW g \in Nat, g > 0
  PROVE  /\ x * g \in Int
         /\ x < y => x * g + g <= y * g
         /\ x <= y => x * g <= y * g
         /\ (x + y) * g = x * g + y * g
         /\ (x - y) * g = x * g - y * g
<1>1. x * g \in Int /\ y * g \in Int
  OBVIOUS
<1>2. x <= y => x * g <= y * g
  OBVIOUS
<1>3. ASSUME x < y PROVE x * g + g <= y * g
  <2>1. (x + 1) * g <= y * g
    BY <1>3
  <2> QED
    BY <2>1
<1> QED
  BY <1>1, <1>2, <1>3

\* The word of a unit, and the only one that contains it.
LEMMA Division ==
  ASSUME NEW u \in Int, NEW g \in Nat, g > 0
  PROVE  /\ u \div g \in Int
         /\ (u \div g) * g <= u
         /\ u < (u \div g) * g + g
         /\ u % g = u - (u \div g) * g
OBVIOUS

LEMMA TheWord ==
  ASSUME NEW u \in Int, NEW w \in Int, NEW g \in Nat, g > 0, w * g <= u, u < w * g + g
  PROVE  u \div g = w
<1> DEFINE v == u \div g
<1>1. v \in Int /\ v * g <= u /\ u < v * g + g
  BY Division
<1> HIDE DEF v
<1>2. w * g \in Int /\ v * g \in Int
  BY <1>1
<1>3. ~ (v < w)
  <2>1. v < w => v * g + g <= w * g
    BY <1>1, Multiples
  <2> QED
    BY <1>1, <1>2, <2>1
<1>4. ~ (w < v)
  <2>1. w < v => w * g + g <= v * g
    BY <1>1, Multiples
  <2> QED
    BY <1>1, <1>2, <2>1
<1>5. v = w
  BY <1>1, <1>3, <1>4
<1> QED
  BY <1>5 DEF v

LEMMA Ordered ==
  ASSUME NEW u \in Int, NEW v \in Int, NEW g \in Nat, g > 0, u <= v
  PROVE  u \div g <= v \div g
<1> DEFINE p == u \div g
           q == v \div g
<1>1. /\ p \in Int /\ p * g <= u /\ u < p * g + g
      /\ q \in Int /\ q * g <= v /\ v < q * g + g
  BY Division
<1> HIDE DEF p, q
<1>2. q < p => q * g + g <= p * g
  BY <1>1, Multiples
<1>3. p * g \in Int /\ q * g \in Int
  BY <1>1
<1>4. p <= q
  BY <1>1, <1>2, <1>3
<1> QED
  BY <1>4 DEF p, q

\* Units that are as far from the start of their words move by whole words.
LEMMA InPhase ==
  ASSUME NEW u \in Int, NEW x \in Int, NEW y \in Int, NEW g \in Nat, g > 0, x % g = y % g
  PROVE  (y + (u - x)) \div g = u \div g - x \div g + y \div g
<1> DEFINE p == u \div g
           q == x \div g
           r == y \div g
<1>1. /\ p \in Int /\ p * g <= u /\ u < p * g + g
      /\ q \in Int /\ x % g = x - q * g
      /\ r \in Int /\ y % g = y - r * g
  BY Division
<1> HIDE DEF p, q, r
<1>2. p * g \in Int /\ q * g \in Int /\ r * g \in Int
  BY <1>1
<1>3. (p - q + r) * g = p * g - q * g + r * g
  <2>1. p - q \in Int /\ (p - q) * g = p * g - q * g
    BY <1>1, Multiples
  <2>2. (p - q + r) * g = (p - q) * g + r * g
    BY <1>1, <2>1, Multiples
  <2> QED
    BY <2>1, <2>2
<1>4. x - q * g = y - r * g
  BY <1>1
<1>5. (p - q + r) * g <= y + (u - x) /\ y + (u - x) < (p - q + r) * g + g
  BY <1>1, <1>2, <1>3, <1>4
<1>6. p - q + r \in Int /\ y + (u - x) \in Int
  BY <1>1
<1>7. (y + (u - x)) \div g = p - q + r
  BY <1>5, <1>6, TheWord
<1> QED
  BY <1>7 DEF p, q, r

LEMMA UnitWord ==
  ASSUME NEW u \in Units
  PROVE  u \div Granularity \in 0 .. Words - 1
<1> DEFINE g == Granularity
           w == u \div g
<1>1. u \in Int /\ 0 <= u /\ u < Words * g
  BY Sizes DEF Units
<1>2. w \in Int /\ w * g <= u /\ u < w * g + g
  BY <1>1, Sizes, Division
<1> HIDE DEF w
<1>3. w * g \in Int /\ Words * g \in Int
  BY <1>2, Sizes
<1>4. Words <= w => Words * g <= w * g
  BY <1>2, Sizes, Multiples
<1>5. w < 0 => w * g + g <= 0 * g
  BY <1>2, Sizes, Multiples
<1>6. 0 * g = 0
  BY Sizes
<1>7. w \in 0 .. Words - 1
  BY <1>1, <1>2, <1>3, <1>4, <1>5, <1>6, Sizes
<1> QED
  BY <1>7 DEF w

\* Every word has a first unit.
LEMMA FirstUnit ==
  ASSUME NEW w \in 0 .. Words - 1
  PROVE  /\ w * Granularity \in Units
         /\ (w * Granularity) \div Granularity = w
<1> DEFINE g == Granularity
           u == w * g
<1>1. w \in Int /\ u \in Int /\ Words * g \in Int
  BY Sizes
<1>2. u + g <= Words * g
  BY <1>1, Sizes, Multiples
<1>3. 0 * g <= u /\ 0 * g = 0
  BY Sizes, Multiples
<1>4. u \in Units
  BY <1>1, <1>2, <1>3, Sizes DEF Units
<1>5. u \div g = w
  BY <1>1, Sizes, TheWord
<1> QED
  BY <1>4, <1>5

-----------------------------------------------------------------------------
(* Spans.                                                                  *)

LEMMA SpanTyped ==
  ASSUME NEW s \in Spans
  PROVE  /\ s[1] \in Nat /\ s[2] \in Nat /\ s[1] + s[2] <= Size
         /\ s = <<s[1], s[2]>>
BY Sizes DEF Spans

\* The words of a span are words of the memory.
LEMMA TouchedWords ==
  ASSUME NEW s \in Spans
  PROVE  Touched(s) \subseteq 0 .. Words - 1 /\ WordsOf(s) \subseteq Touched(s)
<1> DEFINE g == Granularity
           last == s[1] + s[2] - 1
<1>1. s[1] \in Int /\ last \in Int /\ 0 <= s[1] /\ last <= Size - 1
  BY SpanTyped, Sizes
<1>2. 0 \div g = 0
  <2>1. 0 * g <= 0 /\ 0 < 0 * g + g
    BY Sizes
  <2> QED
    BY <2>1, Sizes, TheWord
<1>3. 0 <= s[1] \div g
  BY <1>1, <1>2, Sizes, Ordered
<1>4. last \div g <= (Size - 1) \div g
  BY <1>1, Sizes, Ordered
<1>5. (Size - 1) \div g = Words - 1
  <2>1. (Words - 1) * g = Words * g - g
    <3>1. 1 * g = g
      BY Sizes
    <3>2. (Words - 1) * g = Words * g - 1 * g
      BY Sizes, Multiples
    <3> QED
      BY <3>1, <3>2
  <2>2. (Words - 1) * g <= Size - 1 /\ Size - 1 < (Words - 1) * g + g
    BY <2>1, Sizes
  <2> QED
    BY <2>2, Sizes, TheWord
<1>6. s[1] \div g \in Int /\ last \div g \in Int
  BY <1>1, Sizes, Division
<1>7. Touched(s) = s[1] \div g .. last \div g
  BY DEF Touched
<1> HIDE DEF last, g
<1>8. Touched(s) \subseteq 0 .. Words - 1
  BY <1>3, <1>4, <1>5, <1>6, <1>7, Sizes
<1> QED
  BY <1>8 DEF WordsOf

\* A unit of the span is a unit of the memory, and in one of its words.
LEMMA UnitOfSpan ==
  ASSUME NEW s \in Spans, NEW u \in Int, Within(u, s)
  PROVE  /\ u \in Units
         /\ u \div Granularity \in WordsOf(s)
         /\ WordsOf(s) = Touched(s)
<1>1. /\ s[1] \in Int /\ s[1] + s[2] - 1 \in Int
      /\ s[1] <= u /\ u <= s[1] + s[2] - 1 /\ s[2] # 0
  BY SpanTyped DEF Within
<1>2. u \in Units
  BY <1>1, SpanTyped, Sizes DEF Units
<1>3. /\ s[1] \div Granularity <= u \div Granularity
      /\ u \div Granularity <= (s[1] + s[2] - 1) \div Granularity
  BY <1>1, Sizes, Ordered
<1>4. /\ s[1] \div Granularity \in Int /\ u \div Granularity \in Int
      /\ (s[1] + s[2] - 1) \div Granularity \in Int
  BY <1>1, Sizes, Division
<1> QED
  BY <1>1, <1>2, <1>3, <1>4 DEF WordsOf, Touched

\* If a word lies in the span as a whole, so do its units.
LEMMA UnitOfWhole ==
  ASSUME NEW s \in Spans, NEW w \in Int, NEW u \in Int, u \div Granularity = w, Whole(w, s)
  PROVE  Within(u, s)
<1>1. w * Granularity <= u /\ u < w * Granularity + Granularity
  BY Sizes, Division
<1>2. (w + 1) * Granularity = w * Granularity + Granularity /\ w * Granularity \in Int
  BY Sizes
<1> QED
  BY <1>1, <1>2, SpanTyped, Sizes DEF Whole, Within

\* The words of an aligned span lie in it as a whole.
LEMMA AlignedWhole ==
  ASSUME NEW s \in Spans, Aligned(s), NEW w \in Touched(s)
  PROVE  Whole(w, s) /\ w \in WordsOf(s)
<1> DEFINE g == Granularity
           p == s[1] \div g
           n == s[2] \div g
           last == s[1] + s[2] - 1
           q == last \div g
<1>1. s[1] \in Int /\ s[2] \in Int /\ s[2] >= 0 /\ last \in Int
  BY SpanTyped
<1>2. /\ p \in Int /\ s[1] = p * g
      /\ n \in Int /\ s[2] = n * g
      /\ q \in Int /\ q * g <= last /\ last < q * g + g
  <2> DEFINE pg == p * g
             ng == n * g
  <2>1. s[1] % g = 0 /\ s[2] % g = 0
    BY DEF Aligned
  <2>2. p \in Int /\ s[1] % g = s[1] - pg
    BY <1>1, Sizes, Division
  <2>3. n \in Int /\ s[2] % g = s[2] - ng
    BY <1>1, Sizes, Division
  <2>4. q \in Int /\ q * g <= last /\ last < q * g + g
    BY <1>1, Sizes, Division
  <2>5. pg \in Int /\ ng \in Int
    BY <2>2, <2>3, Sizes, Multiples
  <2> HIDE DEF p, n, pg, ng, q
  <2>6. s[1] = pg
    BY <1>1, <2>1, <2>2, <2>5
  <2>7. s[2] = ng
    BY <1>1, <2>1, <2>3, <2>5
  <2>8. s[1] = p * g /\ s[2] = n * g
    BY <2>6, <2>7, Zenon DEF pg, ng
  <2> QED
    BY <2>2, <2>3, <2>4, <2>8, Zenon
<1>3. w \in Int /\ p <= w /\ w <= q
  BY <1>2 DEF Touched
<1> HIDE DEF p, n, q
<1>4. (p + n) * g = p * g + n * g
  BY <1>2, Sizes, Multiples
<1>5. q < p + n
  <2>1. p + n <= q => (p + n) * g <= q * g
    BY <1>2, Sizes, Multiples
  <2> QED
    BY <1>1, <1>2, <1>4, <2>1, Sizes
<1>6. p * g <= w * g /\ w * g + g <= (p + n) * g
  BY <1>2, <1>3, <1>5, Sizes, Multiples
<1>7. (w + 1) * g = w * g + g
  BY <1>3, Sizes
<1>8. Whole(w, s)
  BY <1>2, <1>4, <1>6, <1>7 DEF Whole
<1>9. s[2] # 0
  BY <1>2, <1>3, <1>4, <1>5, <1>6, Sizes
<1> QED
  BY <1>8, <1>9 DEF WordsOf

-----------------------------------------------------------------------------
(* Nodes.                                                                  *)

LEMMA NewNodeIs ==
  ASSUME NEW upstream, NEW source \in BOOLEAN
  PROVE  /\ NewNode(upstream, source) \in Node
         /\ NewNode(upstream, source) # UntaintedValue
         /\ NewNode(upstream, source) \in {"blank", "loaded"}
         /\ source \/ "loaded" \in upstream => NewNode(upstream, source) = "loaded"
BY DEF NewNode, Node, UntaintedValue

LEMMA ProducedIs ==
  ASSUME NEW inputs, NEW source \in BOOLEAN
  PROVE  /\ Produced(inputs, source) \in Node
         /\ source \/ "loaded" \in inputs => Produced(inputs, source) = "loaded"
         /\ Produced(inputs, source) # UntaintedValue => source \/ Tainted(inputs)
<1>1. "loaded" \in inputs => Tainted(inputs)
  BY DEF Tainted, UntaintedValue
<1> QED
  BY <1>1, NewNodeIs DEF Produced, Node

LEMMA MarksIs ==
  ASSUME NEW node \in Node, NEW source \in BOOLEAN
  PROVE  /\ Marks(node, source) \in Node
         /\ node = "loaded" => Marks(node, source) = "loaded"
         /\ source /\ node # "blank" => Marks(node, source) = "loaded"
         /\ source /\ Marks(node, source) # "blank" => Marks(node, source) = "loaded"
         /\ Marks(node, source) # UntaintedValue => source \/ node # UntaintedValue
BY DEF Marks, Node, UntaintedValue

LEMMA PutIs ==
  ASSUME NEW old \in Node, NEW node \in Node, NEW whole \in BOOLEAN
  PROVE  /\ Put(old, node, whole) \in Node
         /\ node = "loaded" => Put(old, node, whole) = "loaded"
         /\ ~ whole /\ old = "loaded" => Put(old, node, whole) = "loaded"
         /\ whole => Put(old, node, whole) = node
<1>1. /\ NewNode({node, old}, FALSE) \in Node
      /\ node = "loaded" \/ old = "loaded" => NewNode({node, old}, FALSE) = "loaded"
  BY NewNodeIs
<1> QED
  BY <1>1 DEF Put, UntaintedValue

-----------------------------------------------------------------------------
(* The mirror of memory, and data read from it and written to it.          *)

LEMMA PaddedTyped ==
  ASSUME NEW data \in Bits
  PROVE  Padded(data) \in [Units -> BOOLEAN]
BY DEF Padded, Bits

LEMMA WordNode ==
  ASSUME NEW mem \in Memory, NEW u \in Units
  PROVE  mem[u \div Granularity] \in Node
BY UnitWord DEF Memory

LEMMA LoadTyped ==
  ASSUME NEW mem \in Memory, NEW s \in Spans
  PROVE  Load(mem, s) \subseteq Node
BY TouchedWords DEF Memory, Load

\* What is loaded carries what the data depends on ...
LEMMA LoadSound ==
  ASSUME NEW mem, NEW bytes, NEW s \in Spans, Sound(mem, bytes), Depends(bytes, s)
  PROVE  "loaded" \in Load(mem, s)
<1>1. PICK u \in Units : Within(u, s) /\ bytes[u]
  BY DEF Depends
<1>2. u \div Granularity \in WordsOf(s)
  BY <1>1, UnitOfSpan DEF Units
<1>3. mem[u \div Granularity] = "loaded"
  BY <1>1 DEF Sound
<1> QED
  BY <1>2, <1>3 DEF Load, UntaintedValue

\* ... and nothing else, if whole words are read.
LEMMA LoadExact ==
  ASSUME NEW mem, NEW bytes, NEW s \in Spans, Exact(mem, bytes), Aligned(s), Load(mem, s) # {}
  PROVE  Depends(bytes, s)
<1>1. PICK w \in WordsOf(s) : mem[w] # UntaintedValue
  BY DEF Load
<1>2. w \in Touched(s) /\ w \in 0 .. Words - 1
  BY <1>1, TouchedWords
<1> DEFINE u == w * Granularity
<1>3. u \in Units /\ u \div Granularity = w
  BY <1>2, FirstUnit
<1>4. Within(u, s)
  BY <1>2, <1>3, AlignedWhole, UnitOfWhole DEF Units
<1>5. bytes[u]
  BY <1>1, <1>3 DEF Exact
<1> QED
  BY <1>3, <1>4, <1>5 DEF Depends

LEMMA StoreTyped ==
  ASSUME NEW mem \in Memory, NEW s \in Spans, NEW node \in Node
  PROVE  Store(mem, s, node) \in Memory
<1>1. \A w \in 0 .. Words - 1 : Put(mem[w], node, Whole(w, s)) \in Node
  BY PutIs DEF Memory, Whole
<1> QED
  BY <1>1 DEF Store, Memory

LEMMA MarkedTyped ==
  ASSUME NEW bytes \in [Units -> BOOLEAN], NEW s, NEW dep \in BOOLEAN
  PROVE  Marked(bytes, s, dep) \in [Units -> BOOLEAN]
BY DEF Marked

LEMMA StoreSound ==
  ASSUME NEW mem \in Memory, NEW bytes, NEW s \in Spans, NEW node \in Node, NEW dep,
         Sound(mem, bytes), dep => node = "loaded"
  PROVE  Sound(Store(mem, s, node), Marked(bytes, s, dep))
<1> SUFFICES ASSUME NEW u \in Units, Marked(bytes, s, dep)[u]
             PROVE  Store(mem, s, node)[u \div Granularity] = "loaded"
  BY DEF Sound
<1> DEFINE w == u \div Granularity
           whole == Whole(w, s)
<1>1. w \in 0 .. Words - 1 /\ w \in DOMAIN mem /\ mem[w] \in Node /\ u \in Int /\ w \in Int
  BY UnitWord DEF Memory, Units
<1>2. whole \in BOOLEAN
  BY DEF Whole
<1>3. Store(mem, s, node)[w] = IF w \in WordsOf(s) THEN Put(mem[w], node, whole) ELSE mem[w]
  BY <1>1 DEF Store
<1>4. CASE Within(u, s)
  <2>1. dep
    BY <1>4 DEF Marked
  <2>2. w \in WordsOf(s)
    BY <1>1, <1>4, UnitOfSpan
  <2> HIDE DEF whole, w
  <2> QED
    BY <1>1, <1>2, <1>3, <2>1, <2>2, PutIs DEF w
<1>5. CASE ~ Within(u, s)
  <2>1. mem[w] = "loaded"
    BY <1>5 DEF Marked, Sound
  <2>2. ~ whole
    BY <1>1, <1>5, UnitOfWhole
  <2> HIDE DEF whole, w
  <2> QED
    BY <1>1, <1>2, <1>3, <2>1, <2>2, PutIs DEF w
<1> QED
  BY <1>4, <1>5

LEMMA StoreExact ==
  ASSUME NEW mem \in Memory, NEW bytes, NEW s \in Spans, NEW node \in Node, NEW dep,
         Exact(mem, bytes), Aligned(s), node # UntaintedValue => dep
  PROVE  Exact(Store(mem, s, node), Marked(bytes, s, dep))
<1> SUFFICES ASSUME NEW u \in Units, Store(mem, s, node)[u \div Granularity] # UntaintedValue
             PROVE  Marked(bytes, s, dep)[u]
  BY DEF Exact
<1> DEFINE w == u \div Granularity
           whole == Whole(w, s)
<1>1. w \in 0 .. Words - 1 /\ w \in DOMAIN mem /\ mem[w] \in Node /\ u \in Int /\ w \in Int
  BY UnitWord DEF Memory, Units
<1>2. Store(mem, s, node)[w] = IF w \in WordsOf(s) THEN Put(mem[w], node, whole) ELSE mem[w]
  BY <1>1 DEF Store
<1>3. Marked(bytes, s, dep)[u] = IF Within(u, s) THEN dep ELSE bytes[u]
  BY DEF Marked
<1>4. CASE w \in WordsOf(s)
  <2>1. whole
    BY <1>4, TouchedWords, AlignedWhole
  <2>2. Within(u, s)
    BY <1>1, <2>1, UnitOfWhole
  <2>3. Put(mem[w], node, whole) = node
    <3> HIDE DEF whole, w
    <3> QED
      BY <1>1, <2>1, PutIs
  <2> QED
    BY <1>2, <1>3, <1>4, <2>2, <2>3
<1>5. CASE w \notin WordsOf(s)
  <2>1. ~ Within(u, s)
    BY <1>1, <1>5, UnitOfSpan
  <2>2. bytes[u]
    BY <1>2, <1>5 DEF Exact
  <2> QED
    BY <1>3, <2>1, <2>2
<1> QED
  BY <1>4, <1>5

\* The whole span depends on a source and every word of it has a node that says so.
LEMMA MarkSound ==
  ASSUME NEW mem, NEW bytes, NEW s \in Spans, Sound(mem, bytes),
         \A w \in WordsOf(s) : mem[w] = "loaded"
  PROVE  Sound(mem, Marked(bytes, s, TRUE))
<1> SUFFICES ASSUME NEW u \in Units, Marked(bytes, s, TRUE)[u]
             PROVE  mem[u \div Granularity] = "loaded"
  BY DEF Sound
<1>1. CASE Within(u, s)
  BY <1>1, UnitOfSpan DEF Units
<1>2. CASE ~ Within(u, s)
  BY <1>2 DEF Sound, Marked
<1> QED
  BY <1>1, <1>2

LEMMA MarkExact ==
  ASSUME NEW mem, NEW bytes, NEW s, Exact(mem, bytes)
  PROVE  Exact(mem, Marked(bytes, s, TRUE))
BY DEF Exact, Marked

-----------------------------------------------------------------------------
(* Data taken from memory, and copied to it.                               *)

LEMMA ZeroWord == 0 \div Granularity = 0 /\ 0 % Granularity = 0
<1>1. 0 * Granularity <= 0 /\ 0 < 0 * Granularity + Granularity /\ 0 * Granularity = 0
  BY Sizes
<1>2. 0 \div Granularity = 0
  BY <1>1, Sizes, TheWord
<1> QED
  BY <1>1, <1>2, Sizes, Division

LEMMA SectionTyped ==
  ASSUME NEW bytes \in [Units -> BOOLEAN], NEW s \in Spans
  PROVE  /\ Section(bytes, s) \in Bits /\ Len(Section(bytes, s)) = s[2]
         /\ DOMAIN Section(bytes, s) = 1 .. s[2]
         /\ \A i \in 1 .. s[2] : Section(bytes, s)[i] = bytes[s[1] + i - 1]
<1>1. \A i \in 1 .. s[2] : bytes[s[1] + i - 1] \in BOOLEAN
  BY SpanTyped, Sizes DEF Units
<1>2. s[2] \in Nat /\ s[2] <= Size
  BY SpanTyped, Sizes
<1>3. Section(bytes, s) = [i \in 1 .. s[2] |-> bytes[s[1] + i - 1]]
  BY DEF Section
<1>4. Section(bytes, s) \in Seq(BOOLEAN)
  BY <1>1, <1>2, <1>3
<1> QED
  BY <1>2, <1>3, <1>4 DEF Bits

LEMMA TakenTyped ==
  ASSUME NEW mem \in Memory, NEW s \in Spans
  PROVE  Taken(mem, s) \in Memory
BY TouchedWords DEF Taken, Memory, Node

LEMMA BlankTyped == Blank \in Memory /\ UntaintedValue \in Node
BY DEF Blank, Memory, Node

LEMMA ShiftedUnit ==
  ASSUME NEW s \in Spans, NEW u \in Int, s[1] % Granularity = 0
  PROVE  (s[1] + u) \div Granularity = u \div Granularity + s[1] \div Granularity
<1> DEFINE g == Granularity
           x == s[1]
           p == u \div g
           q == x \div g
<1>1. x \in Int
  BY SpanTyped
<1>2. p \in Int /\ p * g <= u /\ u < p * g + g
  BY Sizes, Division
<1>3. q \in Int /\ x % g = x - q * g
  BY <1>1, Sizes, Division
<1> HIDE DEF p, q, x
<1>4. p * g \in Int /\ q * g \in Int /\ (p + q) * g = p * g + q * g
  BY <1>2, <1>3, Sizes, Multiples
<1>5. x = q * g
  BY <1>1, <1>3, <1>4 DEF x
<1>6. (p + q) * g <= x + u /\ x + u < (p + q) * g + g
  BY <1>1, <1>2, <1>4, <1>5, Sizes
<1>7. x + u \in Int /\ p + q \in Int
  BY <1>1, <1>2, <1>3
<1>8. (x + u) \div g = p + q
  BY <1>6, <1>7, Sizes, TheWord
<1> QED
  BY <1>8 DEF x, p, q

LEMMA TakenSound ==
  ASSUME NEW mem, NEW bytes \in [Units -> BOOLEAN], NEW s \in Spans, Sound(mem, bytes),
         ~ OutOfPhase(s[1], 0)
  PROVE  Sound(Taken(mem, s), Padded(Section(bytes, s)))
<1> SUFFICES ASSUME NEW u \in Units, Padded(Section(bytes, s))[u]
             PROVE  Taken(mem, s)[u \div Granularity] = "loaded"
  BY DEF Sound
<1>1. u \in Int /\ u + 1 \in 1 .. s[2] /\ bytes[s[1] + u]
  <2>1. u + 1 \in DOMAIN Section(bytes, s) /\ Section(bytes, s)[u + 1]
    BY DEF Padded
  <2>2. u \in Int /\ s[1] \in Int
    BY SpanTyped DEF Units
  <2>3. u + 1 \in 1 .. s[2]
    BY <2>1, SectionTyped
  <2>4. s[1] + (u + 1) - 1 = s[1] + u
    BY <2>2
  <2>5. Section(bytes, s)[u + 1] = bytes[s[1] + (u + 1) - 1]
    BY <2>3, SectionTyped
  <2> QED
    BY <2>1, <2>2, <2>3, <2>4, <2>5
<1>2. s[1] + u \in Int /\ Within(s[1] + u, s)
  BY <1>1, SpanTyped DEF Within, Units
<1>3. s[1] + u \in Units /\ (s[1] + u) \div Granularity \in WordsOf(s)
  BY <1>2, UnitOfSpan
<1>4. mem[(s[1] + u) \div Granularity] = "loaded"
  BY <1>1, <1>3 DEF Sound
<1>5. (s[1] + u) \div Granularity = u \div Granularity + s[1] \div Granularity
  BY <1>1, ShiftedUnit, ZeroWord DEF OutOfPhase
<1>6. u \div Granularity \in 0 .. Words - 1
  BY UnitWord
<1> QED
  BY <1>3, <1>4, <1>5, <1>6 DEF Taken

LEMMA TakenExact ==
  ASSUME NEW mem, NEW bytes \in [Units -> BOOLEAN], NEW s \in Spans, Exact(mem, bytes),
         Aligned(s)
  PROVE  Exact(Taken(mem, s), Padded(Section(bytes, s)))
<1> SUFFICES ASSUME NEW u \in Units, Taken(mem, s)[u \div Granularity] # UntaintedValue
             PROVE  Padded(Section(bytes, s))[u]
  BY DEF Exact
<1> DEFINE w == u \div Granularity + s[1] \div Granularity
<1>1. u \in Int /\ u >= 0 /\ u \div Granularity \in 0 .. Words - 1
  BY UnitWord DEF Units
<1>2. w \in WordsOf(s) /\ mem[w] # UntaintedValue
  BY <1>1 DEF Taken
<1>3. (s[1] + u) \div Granularity = w
  BY <1>1, ShiftedUnit DEF Aligned
<1>4. w \in Touched(s) /\ w \in Int /\ s[1] + u \in Int
  BY <1>1, <1>2, TouchedWords, SpanTyped
<1>5. Within(s[1] + u, s)
  BY <1>3, <1>4, AlignedWhole, UnitOfWhole
<1>6. bytes[s[1] + u]
  BY <1>2, <1>3, <1>4, <1>5, UnitOfSpan DEF Exact
<1>7. u + 1 \in 1 .. s[2] /\ s[1] + (u + 1) - 1 = s[1] + u
  BY <1>1, <1>5, SpanTyped DEF Within
<1>8. u + 1 \in DOMAIN Section(bytes, s)
  BY <1>7, SectionTyped
<1>9. Section(bytes, s)[u + 1] = bytes[s[1] + (u + 1) - 1]
  BY <1>7, SectionTyped
<1> QED
  BY <1>6, <1>7, <1>8, <1>9 DEF Padded

LEMMA WrittenTyped ==
  ASSUME NEW bytes \in [Units -> BOOLEAN], NEW data \in Bits, NEW s, NEW offset \in Nat
  PROVE  Written(bytes, data, s, offset) \in [Units -> BOOLEAN]
<1>1. \A i \in DOMAIN data : data[i] \in BOOLEAN
  BY DEF Bits
<1> QED
  BY <1>1 DEF Written

LEMMA CopiedTyped ==
  ASSUME NEW mem \in Memory, NEW data \in Memory, NEW dest \in Spans, NEW offset \in Nat,
         <<offset, dest[2]>> \in Spans
  PROVE  Copied(mem, data, dest, offset) \in Memory
<1> DEFINE from(w) == w - dest[1] \div Granularity + offset \div Granularity
           span == <<offset, dest[2]>>
<1>1. \A w \in 0 .. Words - 1 : from(w) \in Touched(span) => data[from(w)] \in Node
  BY TouchedWords DEF Memory
<1>2. \A w \in 0 .. Words - 1 :
        from(w) \in Touched(span) => Put(mem[w], data[from(w)], Whole(w, dest)) \in Node
  <2> SUFFICES ASSUME NEW w \in 0 .. Words - 1, from(w) \in Touched(span)
               PROVE  Put(mem[w], data[from(w)], Whole(w, dest)) \in Node
    OBVIOUS
  <2>1. mem[w] \in Node /\ data[from(w)] \in Node /\ Whole(w, dest) \in BOOLEAN
    BY <1>1 DEF Memory, Whole
  <2> QED
    BY <2>1, PutIs
<1> QED
  BY <1>2 DEF Copied, Memory

\* Writing the first n units of dest, and nothing that depends on a source beyond.
LEMMA CopiedSound ==
  ASSUME NEW mem \in Memory, NEW bytes \in [Units -> BOOLEAN],
         NEW nodes \in Memory, NEW data \in Bits,
         NEW dest \in Spans, NEW offset \in Nat, <<offset, dest[2]>> \in Spans,
         NEW n \in Nat, n <= dest[2],
         Sound(mem, bytes), Sound(nodes, Padded(data)),
         ~ OutOfPhase(dest[1], offset) \/ \A i \in DOMAIN data : ~ data[i],
         \A u \in Units : Within(u, dest) /\ u >= dest[1] + n => ~ bytes[u]
  PROVE  Sound(Copied(mem, nodes, dest, offset), Written(bytes, data, <<dest[1], n>>, offset))
<1> DEFINE from(w) == w - dest[1] \div Granularity + offset \div Granularity
           span == <<offset, dest[2]>>
           copy == Copied(mem, nodes, dest, offset)
           new == Written(bytes, data, <<dest[1], n>>, offset)
<1> SUFFICES ASSUME NEW u \in Units, new[u]
             PROVE  copy[u \div Granularity] = "loaded"
  BY DEF Sound
<1> DEFINE w == u \div Granularity
           whole == Whole(w, dest)
<1>1. w \in 0 .. Words - 1 /\ w \in DOMAIN mem /\ mem[w] \in Node /\ u \in Int /\ w \in Int
  BY UnitWord DEF Memory, Units
<1>2. copy[w] = IF from(w) \in Touched(span) THEN Put(mem[w], nodes[from(w)], whole) ELSE mem[w]
  BY <1>1 DEF Copied
<1>3. from(w) \in Touched(span) => nodes[from(w)] \in Node
  BY TouchedWords DEF Memory
<1>4. whole \in BOOLEAN
  BY DEF Whole
<1>5. CASE Within(u, <<dest[1], n>>)
  <2> DEFINE v == offset + (u - dest[1])
  <2>1. v \in Int /\ offset + u - dest[1] + 1 = v + 1 /\ Within(v, span)
    BY <1>1, <1>5, SpanTyped DEF Within
  <2>2. v \in Units /\ v \div Granularity \in Touched(span)
    BY <2>1, UnitOfSpan
  <2>3. v + 1 \in DOMAIN data /\ data[v + 1]
    BY <1>5, <2>1 DEF Written
  <2>4. nodes[v \div Granularity] = "loaded"
    BY <2>2, <2>3 DEF Sound, Padded
  <2>5. v \div Granularity = from(w)
    <3>1. dest[1] \in Int /\ offset \in Int /\ dest[1] % Granularity = offset % Granularity
      BY <2>3, SpanTyped DEF OutOfPhase
    <3> QED
      BY <1>1, <3>1, Sizes, InPhase
  <2> HIDE DEF whole, w, v, copy, from
  <2>6. from(w) \in Touched(span) /\ nodes[from(w)] = "loaded"
    BY <2>2, <2>4, <2>5
  <2>7. Put(mem[w], nodes[from(w)], whole) = "loaded"
    BY <1>1, <1>3, <1>4, <2>6, PutIs
  <2> QED
    BY <1>2, <2>6, <2>7 DEF w
<1>6. CASE ~ Within(u, <<dest[1], n>>)
  <2>1. bytes[u]
    BY <1>6 DEF Written
  <2>2. ~ Within(u, dest)
    BY <1>1, <1>6, <2>1, SpanTyped DEF Within
  <2>3. mem[w] = "loaded"
    BY <2>1 DEF Sound
  <2>4. ~ whole
    BY <1>1, <2>2, UnitOfWhole
  <2> HIDE DEF whole, w, copy
  <2> QED
    BY <1>1, <1>2, <1>3, <1>4, <2>3, <2>4, PutIs DEF w
<1> QED
  BY <1>5, <1>6

\* The nodes within the span are exact, and what is not written has none.
LEMMA CopiedExact ==
  ASSUME NEW mem \in Memory, NEW bytes \in [Units -> BOOLEAN],
         NEW nodes \in Memory, NEW data \in Bits,
         NEW dest \in Spans, NEW offset \in Nat, <<offset, dest[2]>> \in Spans,
         NEW n \in Nat, n <= dest[2],
         Exact(mem, bytes), Aligned(dest), Aligned(<<offset, dest[2]>>),
         \A u \in Units : Within(u, <<offset, dest[2]>>) /\ nodes[u \div Granularity] # UntaintedValue
                            => Padded(data)[u] /\ u < offset + n
  PROVE  Exact(Copied(mem, nodes, dest, offset), Written(bytes, data, <<dest[1], n>>, offset))
<1> DEFINE from(w) == w - dest[1] \div Granularity + offset \div Granularity
           span == <<offset, dest[2]>>
           copy == Copied(mem, nodes, dest, offset)
           new == Written(bytes, data, <<dest[1], n>>, offset)
<1> SUFFICES ASSUME NEW u \in Units, copy[u \div Granularity] # UntaintedValue
             PROVE  new[u]
  BY DEF Exact
<1> DEFINE w == u \div Granularity
           whole == Whole(w, dest)
           v == offset + (u - dest[1])
<1>1. w \in 0 .. Words - 1 /\ w \in DOMAIN mem /\ mem[w] \in Node /\ u \in Int /\ w \in Int
  BY UnitWord DEF Memory, Units
<1>2. copy[w] = IF from(w) \in Touched(span) THEN Put(mem[w], nodes[from(w)], whole) ELSE mem[w]
  BY <1>1 DEF Copied
<1>3. /\ dest[1] \in Nat /\ dest[2] \in Nat /\ dest[1] % Granularity = 0
      /\ offset % Granularity = 0 /\ v \in Int
  BY <1>1, SpanTyped DEF Aligned
<1>4. v \div Granularity = from(w)
  BY <1>1, <1>3, Sizes, InPhase
<1>5. CASE from(w) \in Touched(span)
  <2>1. Whole(from(w), span) /\ from(w) \in Int
    BY <1>5, AlignedWhole, TouchedWords
  <2>2. Within(v, span)
    BY <1>3, <1>4, <2>1, UnitOfWhole
  <2>3. Within(u, dest)
    BY <1>1, <1>3, <2>2 DEF Within
  <2>4. w \in Touched(dest) /\ whole
    BY <1>1, <2>3, UnitOfSpan, AlignedWhole
  <2>5. nodes[from(w)] \in Node
    BY <1>5, TouchedWords DEF Memory
  <2>6. copy[w] = nodes[from(w)]
    <3> HIDE DEF whole, w
    <3>1. Put(mem[w], nodes[from(w)], whole) = nodes[from(w)]
      BY <1>1, <2>4, <2>5, PutIs
    <3> QED
      BY <1>2, <1>5, <3>1
  <2>7. v \in Units
    BY <1>3, <2>2, UnitOfSpan
  <2>8. Padded(data)[v] /\ v < offset + n
    BY <1>4, <2>2, <2>6, <2>7
  <2>9. Within(u, <<dest[1], n>>) /\ offset + u - dest[1] + 1 = v + 1
    BY <1>1, <1>3, <2>3, <2>8 DEF Within
  <2> QED
    BY <2>7, <2>8, <2>9 DEF Written, Padded
<1>6. CASE from(w) \notin Touched(span)
  <2>1. bytes[u]
    BY <1>2, <1>6 DEF Exact
  <2>2. ~ Within(u, dest)
    <3>1. Within(u, dest) => Within(v, span)
      BY <1>1, <1>3 DEF Within
    <3>2. Within(v, span) => from(w) \in Touched(span)
      BY <1>3, <1>4, UnitOfSpan
    <3> QED
      BY <1>6, <3>1, <3>2
  <2>3. ~ Within(u, <<dest[1], n>>)
    BY <1>1, <1>3, <2>2 DEF Within
  <2> QED
    BY <2>1, <2>3 DEF Written
<1> QED
  BY <1>5, <1>6

-----------------------------------------------------------------------------
(* What the invariant says of the mirror.                                  *)

LEMMA FlowTyped ==
  ASSUME FlowInv
  PROVE  /\ frames \in Seq(Frames) /\ Len(frames) \in Nat /\ DOMAIN frames = 1 .. Len(frames)
         /\ \A i \in DOMAIN frames : frames[i] \in Frames /\ Len(frames[i].stack) = Len(frames[i].real)
         /\ tracker \in Tracker /\ chain \in Chain
BY DEF FlowInv, TypeOK

LEMMA FrameTyped ==
  ASSUME NEW f \in Frames
  PROVE  /\ f.kind \in Kinds /\ f.self \in Accounts /\ f.code \in Accounts
         /\ f.store \in Accounts \cup {"root"} /\ f.static \in BOOLEAN /\ f.pc \in Nat \ {0}
         /\ f.stack \in Seq(Node) /\ f.real \in Seq(BOOLEAN)
         /\ f.mem \in Memory /\ f.bytes \in [Units -> BOOLEAN]
         /\ f.call \in Calls /\ f.args \in Bits
         /\ f.paid \in Node /\ f.value \in BOOLEAN
         /\ f.child \in Calls /\ f.output \in Bits /\ f.into \in Spans
         /\ f.wrote \in BOOLEAN /\ f.before \in Chain
BY DEF Frames

\* A position in data is a unit.
LEMMA BitUnit ==
  ASSUME NEW data \in Bits, NEW j \in DOMAIN data
  PROVE  /\ j - 1 \in Units /\ (j - 1) + 1 = j /\ data[j] \in BOOLEAN
         /\ Padded(data)[j - 1] = data[j]
<1>1. j \in 1 .. Len(data) /\ Len(data) <= Size /\ data[j] \in BOOLEAN /\ Len(data) \in Nat
  BY DEF Bits
<1>2. j - 1 \in Units /\ (j - 1) + 1 = j
  BY <1>1, Sizes DEF Units
<1> QED
  BY <1>1, <1>2 DEF Padded

LEMMA MirroredCases ==
  ASSUME NEW m \in Mirrored
  PROVE  \/ \E i \in DOMAIN frames : m \in MirrorOf(frames[i])
         \/ \E a \in Accounts : \/ m = <<SlotNode(a), chain.slot[a]>>
                                \/ m = <<tracker.balance[a], chain.balance[a]>>
                                \/ m = <<tracker.code[a], chain.code[a]>>
<1> HIDE DEF MirrorOf
<1> QED
  BY DEF Mirrored

LEMMA MirrorOfCases ==
  ASSUME NEW f, NEW m \in MirrorOf(f)
  PROVE  \/ \E j \in DOMAIN f.stack : m = <<f.stack[j], f.real[j]>>
         \/ \E u \in Units : m = <<f.mem[u \div Granularity], f.bytes[u]>>
         \/ \E j \in DOMAIN f.args : m = <<f.call.data[(j - 1) \div Granularity], f.args[j]>>
         \/ \E j \in DOMAIN f.output : m = <<f.child.ret[(j - 1) \div Granularity], f.output[j]>>
BY DEF MirrorOf

LEMMA SoundMirror ==
  ASSUME FlowInv, ~ lossy, NEW m \in Mirrored, m[2]
  PROVE  m[1] = "loaded"
<1> DEFINE g == Granularity
<1>1. \A i \in DOMAIN frames : FrameSound(frames[i]) /\ frames[i] \in Frames
  BY FlowTyped DEF FlowInv, LossyInv
<1>2. ASSUME NEW i \in DOMAIN frames, NEW j \in DOMAIN frames[i].stack,
             m = <<frames[i].stack[j], frames[i].real[j]>>
      PROVE  m[1] = "loaded"
  BY <1>1, <1>2 DEF FrameSound
<1>3. ASSUME NEW i \in DOMAIN frames, NEW u \in Units,
             m = <<frames[i].mem[u \div g], frames[i].bytes[u]>>
      PROVE  m[1] = "loaded"
  BY <1>1, <1>3 DEF FrameSound, Sound
<1>4. ASSUME NEW i \in DOMAIN frames, NEW j \in DOMAIN frames[i].args,
             m = <<frames[i].call.data[(j - 1) \div g], frames[i].args[j]>>
      PROVE  m[1] = "loaded"
  <2>1. frames[i].args \in Bits
    BY <1>1, FrameTyped
  <2>2. j - 1 \in Units /\ Padded(frames[i].args)[j - 1]
    BY <1>4, <2>1, BitUnit
  <2> QED
    BY <1>1, <1>4, <2>2 DEF FrameSound, Sound
<1>5. ASSUME NEW i \in DOMAIN frames, NEW j \in DOMAIN frames[i].output,
             m = <<frames[i].child.ret[(j - 1) \div g], frames[i].output[j]>>
      PROVE  m[1] = "loaded"
  <2>1. frames[i].output \in Bits
    BY <1>1, FrameTyped
  <2>2. j - 1 \in Units /\ Padded(frames[i].output)[j - 1]
    BY <1>5, <2>1, BitUnit
  <2> QED
    BY <1>1, <1>5, <2>2 DEF FrameSound, Sound
<1>6. ASSUME NEW a \in Accounts,
             \/ m = <<SlotNode(a), chain.slot[a]>>
             \/ m = <<tracker.balance[a], chain.balance[a]>>
             \/ m = <<tracker.code[a], chain.code[a]>>
      PROVE  m[1] = "loaded"
  <2>1. ChainSound(tracker, chain)
    BY DEF FlowInv, LossyInv
  <2> QED
    BY <1>6, <2>1 DEF ChainSound, SlotNode, Place
<1> QED
  BY <1>2, <1>3, <1>4, <1>5, <1>6, MirroredCases, MirrorOfCases

LEMMA ExactMirror ==
  ASSUME FlowInv, ~ blurred, NEW m \in Mirrored, m[1] # UntaintedValue
  PROVE  m[2]
<1> DEFINE g == Granularity
<1>1. \A i \in DOMAIN frames : FrameExact(frames[i]) /\ frames[i] \in Frames
  BY FlowTyped DEF FlowInv, BlurredInv
<1>2. ASSUME NEW i \in DOMAIN frames, NEW j \in DOMAIN frames[i].stack,
             m = <<frames[i].stack[j], frames[i].real[j]>>
      PROVE  m[2]
  BY <1>1, <1>2 DEF FrameExact
<1>3. ASSUME NEW i \in DOMAIN frames, NEW u \in Units,
             m = <<frames[i].mem[u \div g], frames[i].bytes[u]>>
      PROVE  m[2]
  BY <1>1, <1>3 DEF FrameExact, Exact
<1>4. ASSUME NEW i \in DOMAIN frames, NEW j \in DOMAIN frames[i].args,
             m = <<frames[i].call.data[(j - 1) \div g], frames[i].args[j]>>
      PROVE  m[2]
  <2>1. frames[i].args \in Bits
    BY <1>1, FrameTyped
  <2>2. j - 1 \in Units /\ Padded(frames[i].args)[j - 1] = frames[i].args[j]
    BY <2>1, BitUnit
  <2>3. Padded(frames[i].args)[j - 1]
    BY <1>1, <1>4, <2>2 DEF FrameExact, Exact
  <2> QED
    BY <1>4, <2>2, <2>3
<1>5. ASSUME NEW i \in DOMAIN frames, NEW j \in DOMAIN frames[i].output,
             m = <<frames[i].child.ret[(j - 1) \div g], frames[i].output[j]>>
      PROVE  m[2]
  <2>1. frames[i].output \in Bits
    BY <1>1, FrameTyped
  <2>2. j - 1 \in Units /\ (j - 1) + 1 = j
    BY <2>1, BitUnit
  <2> QED
    BY <1>1, <1>5, <2>2 DEF FrameExact
<1>6. ASSUME NEW a \in Accounts,
             \/ m = <<SlotNode(a), chain.slot[a]>>
             \/ m = <<tracker.balance[a], chain.balance[a]>>
             \/ m = <<tracker.code[a], chain.code[a]>>
      PROVE  m[2]
  <2>1. ChainExact(tracker, chain)
    BY DEF FlowInv, BlurredInv
  <2> QED
    BY <1>6, <2>1 DEF ChainExact, SlotNode, Place
<1> QED
  BY <1>2, <1>3, <1>4, <1>5, <1>6, MirroredCases, MirrorOfCases

-----------------------------------------------------------------------------
(* The running contract.                                                   *)

LEMMA OfferedIs ==
  ASSUME FlowInv, NEW op \in Offers
  PROVE  /\ frames # << >> /\ Len(frames) \in Nat \ {0} /\ Len(frames) \in DOMAIN frames
         /\ IsOperation(op)
<1>1. frames # << >> /\ ~ Ended(Top) /\ op \in program[Top.code][Top.pc]
  BY DEF Offers
<1>2. Len(frames) \in Nat \ {0} /\ Len(frames) \in DOMAIN frames
  BY <1>1, FlowTyped
<1>3. Top \in Frames
  BY <1>2, FlowTyped DEF Top
<1>4. Top.code \in Accounts /\ Top.pc \in Nat \ {0} /\ program \in Programs
  BY <1>3, FrameTyped DEF FlowInv, TypeOK
<1>5. Len(program[Top.code]) \in Nat
  BY <1>4, ProgramsAssumption
<1>6. Top.pc \in 1 .. Len(program[Top.code])
  BY <1>1, <1>4, <1>5 DEF Ended
<1> QED
  BY <1>1, <1>2, <1>4, <1>6, ProgramsAssumption

LEMMA TopIs ==
  ASSUME FlowInv, frames # << >>
  PROVE  /\ Len(frames) \in Nat \ {0} /\ Len(frames) \in DOMAIN frames
         /\ Top = frames[Len(frames)] /\ Top \in Frames /\ Len(Top.stack) = Len(Top.real)
         /\ ~ lossy => FrameSound(Top)
         /\ ~ blurred => FrameExact(Top)
<1>1. Len(frames) \in Nat \ {0} /\ Len(frames) \in DOMAIN frames
  BY FlowTyped
<1> QED
  BY <1>1, FlowTyped DEF Top, FlowInv, LossyInv, BlurredInv

\* An operation that only changes the top frame, and perhaps the chain.
SameCall(f, g) ==
  /\ g.kind = f.kind /\ g.self = f.self /\ g.store = f.store /\ g.call = f.call
  /\ g.paid = f.paid /\ g.before = f.before /\ (f.wrote => g.wrote)

LEMMA TopStep ==
  ASSUME FlowInv, frames # << >>,
         NEW g \in Frames, Len(g.stack) = Len(g.real), SameCall(Top, g),
         frames' = [frames EXCEPT ![Len(frames)] = g],
         g.wrote \/ chain' = chain,
         tracker' \in Tracker, chain' \in Chain, sink' \in [seen : BOOLEAN, dep : BOOLEAN],
         program' = program, sources' = sources,
         lossy' \in BOOLEAN, blurred' \in BOOLEAN, lossy => lossy', blurred => blurred',
         ~ lossy' => /\ FrameSound(g) /\ ChainSound(tracker', chain')
                     /\ sink'.dep => sink'.seen,
         ~ blurred' => /\ FrameExact(g) /\ ChainExact(tracker', chain')
                       /\ sink'.seen => sink'.dep
                       /\ \A a \in Accounts : chain.balance[a] => chain'.balance[a]
  PROVE  FlowInv'
<1> DEFINE n == Len(frames)
<1>1. n \in Nat \ {0} /\ n \in DOMAIN frames /\ Top = frames[n]
  BY TopIs
<1>2. /\ frames' \in Seq(Frames) /\ Len(frames') = n /\ DOMAIN frames' = 1 .. n
      /\ DOMAIN frames = 1 .. n
      /\ \A i \in 1 .. n : frames'[i] = IF i = n THEN g ELSE frames[i]
  BY <1>1, FlowTyped
<1> HIDE DEF n
<1>3. \A i \in 1 .. n : SameCall(frames[i], frames'[i])
  BY <1>1, <1>2 DEF SameCall
<1>4. TypeOK'
  <2>1. \A i \in 1 .. n : Len(frames'[i].stack) = Len(frames'[i].real)
    BY <1>2, FlowTyped
  <2> QED
    BY <1>2, <2>1 DEF FlowInv, TypeOK
<1>5. /\ \A i \in 1 .. n : ChainAt(i)' = IF i = n THEN chain' ELSE frames'[i + 1].before
      /\ \A i \in 1 .. n : ChainAt(i) = IF i = n THEN chain ELSE frames[i + 1].before
  BY <1>2 DEF ChainAt, n
<1>6. \A i \in 1 .. n : i # n => ChainAt(i)' = ChainAt(i)
  <2> SUFFICES ASSUME NEW i \in 1 .. n, i # n PROVE ChainAt(i)' = ChainAt(i)
    OBVIOUS
  <2>1. i + 1 \in 1 .. n
    BY <1>1
  <2>2. frames'[i + 1].before = frames[i + 1].before
    BY <1>3, <2>1 DEF SameCall
  <2> QED
    BY <1>5, <2>2
<1>7. FramesInv'
  <2> SUFFICES ASSUME NEW i \in 1 .. n
               PROVE  /\ frames'[i].wrote \/ frames'[i].before = ChainAt(i)'
                      /\ frames'[i].kind = "CREATE" => frames'[i].wrote
                      /\ frames'[i].call.ret = Blank
                      /\ frames'[i].call.success = UntaintedValue
                      /\ frames'[i].store = (IF i = 1 THEN "root" ELSE frames'[i].self)
                      /\ i = 1 => frames'[i].self = Root /\ frames'[i].kind = "CALL"
    BY <1>2 DEF FramesInv
  <2>1. /\ frames[i].wrote \/ frames[i].before = ChainAt(i)
        /\ frames[i].kind = "CREATE" => frames[i].wrote
        /\ frames[i].call.ret = Blank /\ frames[i].call.success = UntaintedValue
        /\ frames[i].store = (IF i = 1 THEN "root" ELSE frames[i].self)
        /\ i = 1 => frames[i].self = Root /\ frames[i].kind = "CALL"
    BY <1>2 DEF FlowInv, FramesInv
  <2>2. SameCall(frames[i], frames'[i])
    BY <1>3
  <2>3. frames'[i].wrote \/ frames'[i].before = ChainAt(i)'
    <3>1. CASE i = n
      BY <1>2, <1>5, <2>1, <2>2, <3>1 DEF SameCall
    <3>2. CASE i # n
      BY <1>2, <1>6, <2>1, <3>2
    <3> QED
      BY <3>1, <3>2
  <2> QED
    BY <2>1, <2>2, <2>3 DEF SameCall
<1>8. LossyInv'
  <2> SUFFICES ASSUME ~ lossy'
               PROVE  /\ \A i \in 1 .. n :
                           /\ FrameSound(frames'[i])
                           /\ frames'[i].kind = "CREATE" =>
                                frames'[i].call.source = UntaintedValue
                      /\ ChainSound(tracker', chain')
                      /\ sink'.dep => sink'.seen
    BY <1>2 DEF LossyInv, ChainSound, Place, FrameSound, Sound, Padded
  <2>1. \A i \in 1 .. n :
          /\ FrameSound(frames[i])
          /\ frames[i].kind = "CREATE" => frames[i].call.source = UntaintedValue
    BY <1>2 DEF FlowInv, LossyInv
  <2> QED
    BY <1>2, <1>3, <2>1 DEF SameCall
<1>9. BlurredInv'
  <2> SUFFICES ASSUME ~ blurred'
               PROVE  /\ \A i \in 1 .. n :
                           /\ FrameExact(frames'[i])
                           /\ frames'[i].kind = "CREATE" /\ frames'[i].paid # UntaintedValue =>
                                \A j \in i .. n : ChainAt(j)'.balance[frames'[i].self]
                      /\ ChainExact(tracker', chain')
                      /\ sink'.seen => sink'.dep
    BY <1>2 DEF BlurredInv, ChainExact, Place, FrameExact, Exact, Padded
  <2>1. \A i \in 1 .. n :
          /\ FrameExact(frames[i])
          /\ frames[i].kind = "CREATE" /\ frames[i].paid # UntaintedValue =>
               \A j \in i .. n : ChainAt(j).balance[frames[i].self]
    BY <1>2 DEF FlowInv, BlurredInv, n
  <2>2. \A i \in 1 .. n : FrameExact(frames'[i])
    BY <1>2, <2>1
  <2>3. ASSUME NEW i \in 1 .. n, frames'[i].kind = "CREATE", frames'[i].paid # UntaintedValue,
               NEW j \in i .. n
        PROVE  ChainAt(j)'.balance[frames'[i].self]
    <3>1. frames'[i].self = frames[i].self /\ frames[i].self \in Accounts
      BY <1>2, <1>3, FlowTyped, FrameTyped DEF SameCall
    <3>2. ChainAt(j).balance[frames[i].self]
      BY <1>3, <2>1, <2>3 DEF SameCall
    <3>3. j \in 1 .. n
      BY <1>1, <2>3
    <3> QED
      BY <1>5, <1>6, <3>1, <3>2, <3>3
  <2> QED
    BY <2>2, <2>3
<1> QED
  BY <1>4, <1>7, <1>8, <1>9 DEF FlowInv

-----------------------------------------------------------------------------
(* The stack.                                                              *)

LEMMA PopIs ==
  ASSUME NEW S, NEW s \in Seq(S), NEW n \in Nat, n <= Len(s)
  PROVE  /\ Pop(s, n) \in Seq(S) /\ Len(Pop(s, n)) = Len(s) - n
         /\ DOMAIN Pop(s, n) = 1 .. Len(s) - n
         /\ \A j \in 1 .. Len(s) - n : j + n \in 1 .. Len(s) /\ Pop(s, n)[j] = s[j + n]
BY DEF Pop

LEMMA PushIs ==
  ASSUME NEW S, NEW s \in Seq(S), NEW x \in S
  PROVE  /\ <<x>> \o s \in Seq(S) /\ Len(<<x>> \o s) = Len(s) + 1
         /\ DOMAIN (<<x>> \o s) = 1 .. Len(s) + 1
         /\ \A j \in 1 .. Len(s) + 1 : (<<x>> \o s)[j] = IF j = 1 THEN x ELSE s[j - 1]
OBVIOUS

\* The same frame but for its stack.
SameData(f, g) ==
  /\ SameCall(f, g)
  /\ g.mem = f.mem /\ g.bytes = f.bytes /\ g.args = f.args
  /\ g.child = f.child /\ g.output = f.output /\ g.wrote = f.wrote

LEMMA SameDataSound ==
  ASSUME NEW f, NEW g, SameData(f, g), FrameSound(f),
         \A j \in DOMAIN g.stack : g.real[j] => g.stack[j] = "loaded"
  PROVE  FrameSound(g)
BY DEF FrameSound, SameData, SameCall

LEMMA SameDataExact ==
  ASSUME NEW f, NEW g, SameData(f, g), FrameExact(f),
         \A j \in DOMAIN g.stack : g.stack[j] # UntaintedValue => g.real[j]
  PROVE  FrameExact(g)
BY DEF FrameExact, SameData, SameCall

LEMMA PoppedIs ==
  ASSUME FlowInv, frames # << >>, NEW n \in Nat, n <= Len(Top.real)
  PROVE  /\ Popped(n) \in Frames /\ Len(Popped(n).stack) = Len(Popped(n).real)
         /\ SameData(Top, Popped(n)) /\ SameCall(Top, Popped(n))
         /\ Popped(n).stack = Pop(Top.stack, n) /\ Popped(n).real = Pop(Top.real, n)
         /\ ~ lossy => FrameSound(Popped(n))
         /\ ~ blurred => FrameExact(Popped(n))
<1> DEFINE f == Top
           g == Popped(n)
<1>1. /\ f \in Frames /\ Len(f.stack) = Len(f.real)
      /\ ~ lossy => FrameSound(f)
      /\ ~ blurred => FrameExact(f)
  BY TopIs
<1>2. f.stack \in Seq(Node) /\ f.real \in Seq(BOOLEAN) /\ f.pc + 1 \in Nat \ {0}
  BY <1>1, FrameTyped
<1>3. /\ Pop(f.stack, n) \in Seq(Node) /\ Pop(f.real, n) \in Seq(BOOLEAN)
      /\ Len(Pop(f.stack, n)) = Len(Pop(f.real, n))
      /\ DOMAIN Pop(f.stack, n) = 1 .. Len(f.stack) - n
      /\ \A j \in 1 .. Len(f.stack) - n :
           j + n \in 1 .. Len(f.stack) /\ Pop(f.stack, n)[j] = f.stack[j + n]
                                       /\ Pop(f.real, n)[j] = f.real[j + n]
  <2> DEFINE st == f.stack
             re == f.real
  <2>1. st \in Seq(Node) /\ re \in Seq(BOOLEAN) /\ Len(st) = Len(re) /\ n <= Len(re)
    BY <1>1, <1>2
  <2> HIDE DEF st, re
  <2>2. /\ Pop(st, n) \in Seq(Node) /\ Len(Pop(st, n)) = Len(st) - n
        /\ DOMAIN Pop(st, n) = 1 .. Len(st) - n
        /\ \A j \in 1 .. Len(st) - n : j + n \in 1 .. Len(st) /\ Pop(st, n)[j] = st[j + n]
    BY <2>1, PopIs
  <2>3. /\ Pop(re, n) \in Seq(BOOLEAN) /\ Len(Pop(re, n)) = Len(re) - n
        /\ \A j \in 1 .. Len(re) - n : Pop(re, n)[j] = re[j + n]
    BY <2>1, PopIs
  <2>4. /\ Pop(st, n) \in Seq(Node) /\ Pop(re, n) \in Seq(BOOLEAN)
        /\ Len(Pop(st, n)) = Len(Pop(re, n))
        /\ DOMAIN Pop(st, n) = 1 .. Len(st) - n
        /\ \A j \in 1 .. Len(st) - n :
             j + n \in 1 .. Len(st) /\ Pop(st, n)[j] = st[j + n] /\ Pop(re, n)[j] = re[j + n]
    BY <2>1, <2>2, <2>3
  <2> QED
    BY <2>4 DEF st, re
<1>4. DOMAIN f.stack = 1 .. Len(f.stack)
  BY <1>2
<1>5. g = [f EXCEPT !.stack = Pop(f.stack, n), !.real = Pop(f.real, n), !.pc = f.pc + 1]
  BY DEF Popped
<1> HIDE DEF f, g
<1>6. /\ g \in Frames /\ g.stack = Pop(f.stack, n) /\ g.real = Pop(f.real, n)
      /\ SameData(f, g)
  BY <1>1, <1>2, <1>3, <1>5 DEF Frames, SameData, SameCall
<1>7. FrameSound(f) => FrameSound(g)
  <2> SUFFICES ASSUME FrameSound(f) PROVE FrameSound(g)
    OBVIOUS
  <2>1. \A j \in 1 .. Len(f.stack) : f.real[j] => f.stack[j] = "loaded"
    BY <1>4 DEF FrameSound
  <2>2. \A j \in DOMAIN g.stack : g.real[j] => g.stack[j] = "loaded"
    BY <1>3, <1>6, <2>1
  <2> QED
    BY <1>6, <2>2, SameDataSound
<1>8. FrameExact(f) => FrameExact(g)
  <2> SUFFICES ASSUME FrameExact(f) PROVE FrameExact(g)
    OBVIOUS
  <2>1. \A j \in 1 .. Len(f.stack) : f.stack[j] # UntaintedValue => f.real[j]
    BY <1>4 DEF FrameExact
  <2>2. \A j \in DOMAIN g.stack : g.stack[j] # UntaintedValue => g.real[j]
    BY <1>3, <1>6, <2>1
  <2> QED
    BY <1>6, <2>2, SameDataExact
<1>9. g \in Frames /\ Len(g.stack) = Len(g.real) /\ SameCall(f, g)
  BY <1>3, <1>6 DEF SameData
<1> QED
  BY <1>1, <1>6, <1>7, <1>8, <1>9 DEF f, g

LEMMA ResultIs ==
  ASSUME FlowInv, frames # << >>, NEW n \in Nat, n <= Len(Top.real),
         NEW node \in Node, NEW dep \in BOOLEAN
  PROVE  /\ Result(n, node, dep) \in Frames
         /\ Len(Result(n, node, dep).stack) = Len(Result(n, node, dep).real)
         /\ SameCall(Top, Result(n, node, dep)) /\ Result(n, node, dep).wrote = Top.wrote
         /\ ~ lossy /\ (dep => node = "loaded") => FrameSound(Result(n, node, dep))
         /\ ~ blurred /\ (node # UntaintedValue => dep) => FrameExact(Result(n, node, dep))
<1> DEFINE f == Popped(n)
           g == Result(n, node, dep)
<1>1. /\ f \in Frames /\ Len(f.stack) = Len(f.real) /\ SameData(Top, f)
      /\ ~ lossy => FrameSound(f)
      /\ ~ blurred => FrameExact(f)
  BY PoppedIs
<1>2. f.stack \in Seq(Node) /\ f.real \in Seq(BOOLEAN)
  BY <1>1, FrameTyped
<1>3. /\ <<node>> \o f.stack \in Seq(Node) /\ <<dep>> \o f.real \in Seq(BOOLEAN)
      /\ Len(<<node>> \o f.stack) = Len(<<dep>> \o f.real)
      /\ DOMAIN (<<node>> \o f.stack) = 1 .. Len(f.stack) + 1
      /\ \A j \in 1 .. Len(f.stack) + 1 :
           /\ (<<node>> \o f.stack)[j] = IF j = 1 THEN node ELSE f.stack[j - 1]
           /\ (<<dep>> \o f.real)[j] = IF j = 1 THEN dep ELSE f.real[j - 1]
  BY <1>1, <1>2, PushIs
<1>4. DOMAIN f.stack = 1 .. Len(f.stack) /\ Len(f.stack) \in Nat
  BY <1>2
<1>5. g = [f EXCEPT !.stack = <<node>> \o f.stack, !.real = <<dep>> \o f.real]
  BY DEF Result
<1> HIDE DEF f, g
<1>6. /\ g \in Frames /\ g.stack = <<node>> \o f.stack /\ g.real = <<dep>> \o f.real
      /\ SameData(f, g)
  BY <1>1, <1>2, <1>3, <1>5 DEF Frames, SameData, SameCall
<1>7. \A j \in 1 .. Len(f.stack) + 1 : j = 1 \/ j - 1 \in 1 .. Len(f.stack)
  BY <1>4
<1>8. ASSUME FrameSound(f), dep => node = "loaded" PROVE FrameSound(g)
  <2>1. \A j \in 1 .. Len(f.stack) : f.real[j] => f.stack[j] = "loaded"
    BY <1>4, <1>8 DEF FrameSound
  <2>2. \A j \in DOMAIN g.stack : g.real[j] => g.stack[j] = "loaded"
    BY <1>3, <1>6, <1>7, <1>8, <2>1
  <2> QED
    BY <1>6, <1>8, <2>2, SameDataSound
<1>9. ASSUME FrameExact(f), node # UntaintedValue => dep PROVE FrameExact(g)
  <2>1. \A j \in 1 .. Len(f.stack) : f.stack[j] # UntaintedValue => f.real[j]
    BY <1>4, <1>9 DEF FrameExact
  <2>2. \A j \in DOMAIN g.stack : g.stack[j] # UntaintedValue => g.real[j]
    BY <1>3, <1>6, <1>7, <1>9, <2>1
  <2> QED
    BY <1>6, <1>9, <2>2, SameDataExact
<1>10. g \in Frames /\ Len(g.stack) = Len(g.real) /\ SameCall(Top, g) /\ g.wrote = Top.wrote
  BY <1>1, <1>3, <1>6 DEF SameData, SameCall
<1> QED
  BY <1>1, <1>8, <1>9, <1>10 DEF f, g

\* The operands' nodes.
LEMMA ArgsAre ==
  ASSUME FlowInv, frames # << >>, NEW n \in Nat, n <= Len(Top.real)
  PROVE  /\ Args(n) \subseteq Node
         /\ \A i \in 1 .. n : Top.stack[i] \in Node /\ Top.real[i] \in BOOLEAN
         /\ ~ lossy /\ Operands(n) => "loaded" \in Args(n)
         /\ ~ blurred /\ Tainted(Args(n)) => Operands(n)
<1>1. /\ Top \in Frames /\ Len(Top.stack) = Len(Top.real)
      /\ ~ lossy => FrameSound(Top)
      /\ ~ blurred => FrameExact(Top)
  BY TopIs
<1>2. Top.stack \in Seq(Node) /\ Top.real \in Seq(BOOLEAN)
  BY <1>1, FrameTyped
<1>3. \A i \in 1 .. n : i \in DOMAIN Top.stack /\ i \in DOMAIN Top.real
  BY <1>1, <1>2
<1>4. \A i \in 1 .. n : Top.stack[i] \in Node /\ Top.real[i] \in BOOLEAN
  BY <1>2, <1>3
<1>5. ~ lossy /\ Operands(n) => "loaded" \in Args(n)
  BY <1>1, <1>3 DEF Operands, Args, FrameSound
<1>6. ~ blurred /\ Tainted(Args(n)) => Operands(n)
  BY <1>1, <1>3 DEF Operands, Args, FrameExact, Tainted
<1> QED
  BY <1>4, <1>5, <1>6 DEF Args

-----------------------------------------------------------------------------
(* The operations.                                                         *)

LEMMA ChainIs ==
  ASSUME FlowInv
  PROVE  /\ tracker \in Tracker /\ chain \in Chain /\ lossy \in BOOLEAN /\ blurred \in BOOLEAN
         /\ ~ lossy => ChainSound(tracker, chain)
         /\ ~ blurred => ChainExact(tracker, chain)
BY DEF FlowInv, TypeOK, LossyInv, BlurredInv

LEMMA LocalStep ==
  ASSUME FlowInv, frames # << >>,
         NEW g \in Frames, Len(g.stack) = Len(g.real), SameCall(Top, g),
         NEW lost \in BOOLEAN, NEW blur \in BOOLEAN, Local(g, lost, blur),
         ~ lossy /\ ~ lost => FrameSound(g),
         ~ blurred /\ ~ blur => FrameExact(g)
  PROVE  FlowInv'
<1>1. /\ frames' = [frames EXCEPT ![Len(frames)] = g]
      /\ sink' = [seen |-> FALSE, dep |-> FALSE]
      /\ lossy' = (lossy \/ lost) /\ blurred' = (blurred \/ blur)
      /\ tracker' = tracker /\ chain' = chain /\ program' = program /\ sources' = sources
  BY DEF Local, Quiet
<1>2. /\ tracker' \in Tracker /\ chain' \in Chain /\ lossy' \in BOOLEAN /\ blurred' \in BOOLEAN
      /\ (lossy => lossy') /\ (blurred => blurred')
      /\ ~ lossy' => ChainSound(tracker', chain')
      /\ ~ blurred' => ChainExact(tracker', chain')
  BY <1>1, ChainIs
<1>3. /\ sink' \in [seen : BOOLEAN, dep : BOOLEAN] /\ ~ sink'.dep /\ ~ sink'.seen
      /\ \A a \in Accounts : chain.balance[a] => chain'.balance[a]
  BY <1>1
<1> QED
  BY <1>1, <1>2, <1>3, TopStep

\* Nodes read from somewhere, of data that depends on a source if dep.
LEMMA ReadStep ==
  ASSUME FlowInv, frames # << >>, NEW opcode, NEW a, NEW n \in Nat, n <= Len(Top.real),
         NEW nodes, NEW dep \in BOOLEAN, NEW lost \in BOOLEAN, NEW blur \in BOOLEAN,
         Read(opcode, a, n, nodes, dep, lost, blur),
         ~ lossy /\ ~ lost /\ dep => "loaded" \in nodes,
         ~ blurred /\ ~ blur /\ Tainted(nodes) => dep
  PROVE  FlowInv'
<1> DEFINE source == Source(opcode, a)
           node == Produced(nodes \cup Args(n), source)
           real == dep \/ Operands(n) \/ source
           g == Result(n, node, real)
<1>1. source \in BOOLEAN /\ real \in BOOLEAN
  BY DEF Source, Operands
<1>2. /\ node \in Node
      /\ source \/ "loaded" \in nodes \cup Args(n) => node = "loaded"
      /\ node # UntaintedValue => source \/ Tainted(nodes \cup Args(n))
  BY <1>1, ProducedIs
<1>3. /\ ~ lossy /\ Operands(n) => "loaded" \in Args(n)
      /\ ~ blurred /\ Tainted(Args(n)) => Operands(n)
  BY ArgsAre
<1>4. Tainted(nodes \cup Args(n)) => Tainted(nodes) \/ Tainted(Args(n))
  BY DEF Tainted
<1>5. ~ lossy /\ ~ lost /\ real => node = "loaded"
  BY <1>2, <1>3
<1>6. ~ blurred /\ ~ blur /\ node # UntaintedValue => real
  BY <1>2, <1>3, <1>4
<1>7. Local(g, lost, blur)
  BY DEF Read
<1> HIDE DEF node, real
<1>8. /\ g \in Frames /\ Len(g.stack) = Len(g.real) /\ SameCall(Top, g)
      /\ ~ lossy /\ (real => node = "loaded") => FrameSound(g)
      /\ ~ blurred /\ (node # UntaintedValue => real) => FrameExact(g)
  BY <1>1, <1>2, ResultIs
<1> HIDE DEF g
<1> QED
  BY <1>5, <1>6, <1>7, <1>8, LocalStep

LEMMA Running ==
  ASSUME FlowInv, NEW op \in Offers, NEW name, NEW n \in Nat, Runs(op, name, n)
  PROVE  frames # << >> /\ n <= Len(Top.real) /\ Len(Top.real) \in Nat
<1>1. frames # << >>
  BY OfferedIs
<1>2. Top.real \in Seq(BOOLEAN)
  BY <1>1, TopIs, FrameTyped
<1> QED
  BY <1>1, <1>2 DEF Runs

LEMMA OperationIs ==
  ASSUME NEW op, IsOperation(op)
  PROVE  /\ op.n \in Nat
         /\ op.name \in {"DUP", "SWAP"} => op.n \in Nat \ {0}
         /\ op.name \in {"MLOAD", "KECCAK256", "CALLDATALOAD", "MSTORE", "CODECOPY", "LOG",
                         "RETURN", "REVERT"} => op.span \in Spans
         /\ op.name \in {"BALANCE", "EXTCODESIZE", "SELFDESTRUCT"} => op.at \in Accounts
         /\ op.name = "CODECOPY" /\ op.n # 0 => op.at \in Accounts
         /\ op.name \in {"CALLDATACOPY", "RETURNDATACOPY"} =>
              op.into \in Spans /\ op.from \in Nat /\ <<op.from, op.into[2]>> \in Spans
         /\ op.name \in Kinds =>
              /\ op.n \in {0, 1} /\ op.to \in {0, 1}
              /\ op.at \in Accounts /\ op.args \in Spans /\ op.into \in Spans
<1>1. /\ op.n \in Nat
      /\ op.name \in {"DUP", "SWAP"} => op.n > 0
      /\ op.name = "CODECOPY" /\ op.n > 0 => op.at \in Accounts
  BY DEF IsOperation
<1>2. op.n # 0 => op.n > 0
  BY <1>1
<1> QED
  BY <1>1, <1>2 DEF IsOperation

LEMMA PushStep ==
  ASSUME FlowInv, NEW op \in Offers, Push(op)
  PROVE  FlowInv'
<1> DEFINE source == Source("PUSH", Top.self)
           node == Produced({}, source)
           g == Result(0, node, source)
<1>1. frames # << >> /\ 0 \in Nat /\ 0 <= Len(Top.real)
  BY Running DEF Push
<1>2. source \in BOOLEAN
  BY DEF Source
<1>3. node \in Node /\ (source => node = "loaded") /\ (node # UntaintedValue => source)
  BY <1>2, ProducedIs DEF Tainted
<1>4. Local(g, FALSE, FALSE)
  BY DEF Push
<1> HIDE DEF node, source
<1>5. /\ g \in Frames /\ Len(g.stack) = Len(g.real) /\ SameCall(Top, g)
      /\ ~ lossy /\ (source => node = "loaded") => FrameSound(g)
      /\ ~ blurred /\ (node # UntaintedValue => source) => FrameExact(g)
  BY <1>1, <1>2, <1>3, ResultIs
<1> HIDE DEF g
<1> QED
  BY <1>1, <1>3, <1>4, <1>5, LocalStep

LEMMA DropStep ==
  ASSUME FlowInv, NEW op \in Offers, Drop(op)
  PROVE  FlowInv'
<1> DEFINE g == Popped(1)
<1>1. frames # << >> /\ 1 \in Nat /\ 1 <= Len(Top.real)
  BY Running DEF Drop
<1>2. Local(g, FALSE, FALSE)
  BY DEF Drop
<1>3. /\ g \in Frames /\ Len(g.stack) = Len(g.real) /\ SameCall(Top, g)
      /\ ~ lossy => FrameSound(g)
      /\ ~ blurred => FrameExact(g)
  BY <1>1, PoppedIs
<1> HIDE DEF g
<1> QED
  BY <1>1, <1>2, <1>3, LocalStep

\* What a single operand says of its node.
LEMMA OperandIs ==
  ASSUME FlowInv, frames # << >>, NEW i \in Nat \ {0}, i <= Len(Top.real)
  PROVE  /\ Top.stack[i] \in Node /\ Top.real[i] \in BOOLEAN
         /\ ~ lossy /\ Top.real[i] => Top.stack[i] = "loaded"
         /\ ~ blurred /\ Top.stack[i] # UntaintedValue => Top.real[i]
<1>1. /\ Top \in Frames /\ Len(Top.stack) = Len(Top.real)
      /\ ~ lossy => FrameSound(Top)
      /\ ~ blurred => FrameExact(Top)
  BY TopIs
<1>2. Top.stack \in Seq(Node) /\ Top.real \in Seq(BOOLEAN)
  BY <1>1, FrameTyped
<1>3. i \in DOMAIN Top.stack /\ i \in DOMAIN Top.real
  BY <1>1, <1>2
<1> QED
  BY <1>1, <1>2, <1>3 DEF FrameSound, FrameExact

LEMMA DupStep ==
  ASSUME FlowInv, NEW op \in Offers, Dup(op)
  PROVE  FlowInv'
<1> DEFINE source == Source("DUP", Top.self)
           old == Top.stack[op.n]
           node == Marks(old, source)
           dep == Top.real[op.n] \/ source
           lost == source /\ old = "blank"
           g == Result(0, node, dep)
<1>1. op.n \in Nat \ {0}
  <2>1. op.name = "DUP"
    BY DEF Dup, Runs
  <2> QED
    BY <2>1, OfferedIs, OperationIs
<1>2. frames # << >> /\ op.n <= Len(Top.real) /\ 0 \in Nat /\ 0 <= Len(Top.real)
  BY <1>1, Running DEF Dup
<1>3. source \in BOOLEAN /\ dep \in BOOLEAN /\ lost \in BOOLEAN
  BY DEF Source
<1>4. /\ old \in Node
      /\ ~ lossy /\ Top.real[op.n] => old = "loaded"
      /\ ~ blurred /\ old # UntaintedValue => Top.real[op.n]
  BY <1>1, <1>2, OperandIs
<1>5. Local(g, lost, FALSE)
  BY DEF Dup
<1>6. /\ node \in Node
      /\ ~ lossy /\ ~ lost => (dep => node = "loaded")
      /\ ~ blurred => (node # UntaintedValue => dep)
  BY <1>3, <1>4, MarksIs
<1> HIDE DEF node, dep, lost
<1>7. /\ g \in Frames /\ Len(g.stack) = Len(g.real) /\ SameCall(Top, g)
      /\ ~ lossy /\ (dep => node = "loaded") => FrameSound(g)
      /\ ~ blurred /\ (node # UntaintedValue => dep) => FrameExact(g)
  BY <1>2, <1>3, <1>6, ResultIs
<1> HIDE DEF g
<1> QED
  BY <1>2, <1>3, <1>5, <1>6, <1>7, LocalStep

LEMMA SwappedIs ==
  ASSUME NEW S, NEW s \in Seq(S), NEW n \in Nat, n + 1 <= Len(s)
  PROVE  /\ Swapped(s, n) \in Seq(S) /\ Len(Swapped(s, n)) = Len(s)
         /\ DOMAIN Swapped(s, n) = 1 .. Len(s)
         /\ \A j \in 1 .. Len(s) :
              Swapped(s, n)[j] = IF j = n + 1 THEN s[1] ELSE IF j = 1 THEN s[n + 1] ELSE s[j]
BY DEF Swapped

LEMMA SwapStep ==
  ASSUME FlowInv, NEW op \in Offers, Swap(op)
  PROVE  FlowInv'
<1> DEFINE n == op.n
           f == Popped(0)
           st == Swapped(f.stack, n)
           re == Swapped(f.real, n)
           g == [f EXCEPT !.stack = st, !.real = re]
<1>1. n \in Nat \ {0}
  <2>1. op.name = "SWAP"
    BY DEF Swap, Runs
  <2> QED
    BY <2>1, OfferedIs, OperationIs
<1>2. frames # << >> /\ n + 1 <= Len(Top.real) /\ 0 \in Nat /\ 0 <= Len(Top.real)
  BY <1>1, Running DEF Swap
<1>3. /\ f \in Frames /\ Len(f.stack) = Len(f.real) /\ SameData(Top, f)
      /\ f.stack = Pop(Top.stack, 0) /\ f.real = Pop(Top.real, 0)
      /\ ~ lossy => FrameSound(f)
      /\ ~ blurred => FrameExact(f)
  BY <1>2, PoppedIs
<1>4. Top.stack \in Seq(Node) /\ Top.real \in Seq(BOOLEAN) /\ Len(Top.stack) = Len(Top.real)
  BY <1>2, TopIs, FrameTyped
<1>5. /\ f.stack \in Seq(Node) /\ f.real \in Seq(BOOLEAN) /\ Len(f.real) = Len(Top.real)
      /\ \A j \in 1 .. Len(Top.real) : f.real[j] = Top.real[j]
  <2>1. f.stack \in Seq(Node) /\ f.real \in Seq(BOOLEAN)
    BY <1>3, FrameTyped
  <2>2. /\ Len(Pop(Top.real, 0)) = Len(Top.real) - 0
        /\ \A j \in 1 .. Len(Top.real) - 0 : Pop(Top.real, 0)[j] = Top.real[j + 0]
    BY <1>2, <1>4, PopIs
  <2>3. /\ Len(Top.real) \in Nat /\ Len(Top.real) - 0 = Len(Top.real)
        /\ \A j \in 1 .. Len(Top.real) : j + 0 = j
    BY <1>4
  <2> HIDE DEF f
  <2> QED
    BY <1>3, <2>1, <2>2, <2>3
<1>6. Local(g, FALSE, FALSE)
  <2>1. Local([f EXCEPT !.stack = Swapped(f.stack, n),
                        !.real = [f.real EXCEPT ![1] = Top.real[n + 1],
                                                ![n + 1] = Top.real[1]]], FALSE, FALSE)
    BY DEF Swap
  <2>2. Top.real[1] = f.real[1] /\ Top.real[n + 1] = f.real[n + 1]
    BY <1>1, <1>2, <1>4, <1>5
  <2>3. re = [f.real EXCEPT ![1] = Top.real[n + 1], ![n + 1] = Top.real[1]]
    BY <2>2 DEF Swapped
  <2> HIDE DEF f
  <2> QED
    BY <2>1, <2>3
<1> HIDE DEF f
<1>7. /\ st \in Seq(Node) /\ DOMAIN st = 1 .. Len(f.stack) /\ Len(st) = Len(f.stack)
      /\ \A j \in 1 .. Len(f.stack) :
           st[j] = IF j = n + 1 THEN f.stack[1] ELSE IF j = 1 THEN f.stack[n + 1] ELSE f.stack[j]
  <2>1. n \in Nat /\ n + 1 <= Len(f.stack)
    BY <1>1, <1>2, <1>3, <1>5
  <2> HIDE DEF n
  <2> QED
    BY <1>5, <2>1, SwappedIs
<1>8. /\ re \in Seq(BOOLEAN) /\ Len(re) = Len(f.real)
      /\ \A j \in 1 .. Len(f.real) :
           re[j] = IF j = n + 1 THEN f.real[1] ELSE IF j = 1 THEN f.real[n + 1] ELSE f.real[j]
  <2>1. n \in Nat /\ n + 1 <= Len(f.real)
    BY <1>1, <1>2, <1>5
  <2> HIDE DEF n
  <2> QED
    BY <1>5, <2>1, SwappedIs
<1>9. /\ DOMAIN f.stack = 1 .. Len(f.stack) /\ Len(f.stack) \in Nat
      /\ 1 \in 1 .. Len(f.stack) /\ n + 1 \in 1 .. Len(f.stack)
  BY <1>1, <1>2, <1>3, <1>4, <1>5
<1> HIDE DEF st, re, n
<1>10. g \in Frames /\ g.stack = st /\ g.real = re /\ SameData(f, g)
  BY <1>3, <1>7, <1>8 DEF Frames, SameData, SameCall
<1> HIDE DEF g
<1>11. ASSUME FrameSound(f) PROVE FrameSound(g)
  <2>1. \A j \in 1 .. Len(f.stack) : f.real[j] => f.stack[j] = "loaded"
    BY <1>9, <1>11 DEF FrameSound
  <2>2. \A j \in DOMAIN g.stack : g.real[j] => g.stack[j] = "loaded"
    BY <1>3, <1>7, <1>8, <1>9, <1>10, <2>1
  <2> QED
    BY <1>10, <1>11, <2>2, SameDataSound
<1>12. ASSUME FrameExact(f) PROVE FrameExact(g)
  <2>1. \A j \in 1 .. Len(f.stack) : f.stack[j] # UntaintedValue => f.real[j]
    BY <1>9, <1>12 DEF FrameExact
  <2>2. \A j \in DOMAIN g.stack : g.stack[j] # UntaintedValue => g.real[j]
    BY <1>3, <1>7, <1>8, <1>9, <1>10, <2>1
  <2> QED
    BY <1>10, <1>12, <2>2, SameDataExact
<1>13. Len(g.stack) = Len(g.real) /\ SameCall(Top, g)
  BY <1>3, <1>7, <1>8, <1>10 DEF SameData, SameCall
<1> QED
  BY <1>2, <1>3, <1>6, <1>10, <1>11, <1>12, <1>13, LocalStep

LEMMA PureStep ==
  ASSUME FlowInv, NEW op \in Offers, Pure(op)
  PROVE  FlowInv'
<1> DEFINE source == Source("PURE", Top.self)
           node == Produced(Args(op.n), source)
           dep == Operands(op.n) \/ source
           g == Result(op.n, node, dep)
<1>1. op.n \in Nat
  BY OfferedIs DEF IsOperation
<1>2. frames # << >> /\ op.n <= Len(Top.real)
  BY <1>1, Running DEF Pure
<1>3. source \in BOOLEAN /\ dep \in BOOLEAN
  BY DEF Source, Operands
<1>4. /\ ~ lossy /\ Operands(op.n) => "loaded" \in Args(op.n)
      /\ ~ blurred /\ Tainted(Args(op.n)) => Operands(op.n)
  BY <1>1, <1>2, ArgsAre
<1>5. /\ node \in Node
      /\ source \/ "loaded" \in Args(op.n) => node = "loaded"
      /\ node # UntaintedValue => source \/ Tainted(Args(op.n))
  BY <1>3, ProducedIs
<1>6. Local(g, FALSE, FALSE)
  BY DEF Pure
<1>7. /\ ~ lossy => (dep => node = "loaded")
      /\ ~ blurred => (node # UntaintedValue => dep)
  BY <1>4, <1>5
<1> HIDE DEF node, dep
<1>8. /\ g \in Frames /\ Len(g.stack) = Len(g.real) /\ SameCall(Top, g)
      /\ ~ lossy /\ (dep => node = "loaded") => FrameSound(g)
      /\ ~ blurred /\ (node # UntaintedValue => dep) => FrameExact(g)
  BY <1>1, <1>2, <1>3, <1>5, ResultIs
<1> HIDE DEF g
<1> QED
  BY <1>2, <1>6, <1>7, <1>8, LocalStep

\* Data in the memory of the running contract.
LEMMA MemoryLoad ==
  ASSUME FlowInv, frames # << >>, NEW s \in Spans
  PROVE  /\ Load(Top.mem, s) \subseteq Node /\ Depends(Top.bytes, s) \in BOOLEAN
         /\ Aligned(s) \in BOOLEAN
         /\ ~ lossy /\ Depends(Top.bytes, s) => "loaded" \in Load(Top.mem, s)
         /\ ~ blurred /\ Aligned(s) /\ Tainted(Load(Top.mem, s)) => Depends(Top.bytes, s)
<1>1. /\ Top.mem \in Memory /\ Top.bytes \in [Units -> BOOLEAN]
      /\ ~ lossy => Sound(Top.mem, Top.bytes)
      /\ ~ blurred => Exact(Top.mem, Top.bytes)
  BY TopIs, FrameTyped DEF FrameSound, FrameExact
<1>2. Depends(Top.bytes, s) \in BOOLEAN /\ Aligned(s) \in BOOLEAN
  BY DEF Depends, Aligned
<1>3. Tainted(Load(Top.mem, s)) => Load(Top.mem, s) # {}
  BY DEF Tainted
<1> QED
  BY <1>1, <1>2, <1>3, LoadTyped, LoadSound, LoadExact

LEMMA MLoadStep ==
  ASSUME FlowInv, NEW op \in Offers, MLoad(op)
  PROVE  FlowInv'
<1>1. op.name = "MLOAD"
  BY DEF MLoad, Runs
<1>2. op.n \in Nat /\ op.span \in Spans
  BY <1>1, OfferedIs, OperationIs
<1>3. frames # << >> /\ op.n <= Len(Top.real)
  BY <1>2, Running DEF MLoad
<1> DEFINE nodes == Load(Top.mem, op.span)
           dep == Depends(Top.bytes, op.span)
           blur == ~ Aligned(op.span)
<1>4. /\ dep \in BOOLEAN /\ blur \in BOOLEAN
      /\ ~ lossy /\ dep => "loaded" \in nodes
      /\ ~ blurred /\ ~ blur /\ Tainted(nodes) => dep
  BY <1>2, <1>3, MemoryLoad
<1>5. Read("MLOAD", Top.self, op.n, nodes, dep, FALSE, blur)
  BY DEF MLoad
<1> HIDE DEF nodes, dep, blur
<1> QED
  BY <1>2, <1>3, <1>4, <1>5, ReadStep

LEMMA HashStep ==
  ASSUME FlowInv, NEW op \in Offers, Hash(op)
  PROVE  FlowInv'
<1>1. op.name = "KECCAK256"
  BY DEF Hash, Runs
<1>2. op.span \in Spans /\ 0 \in Nat
  BY <1>1, OfferedIs, OperationIs
<1>3. frames # << >> /\ 0 <= Len(Top.real)
  BY <1>2, Running DEF Hash
<1> DEFINE nodes == Load(Top.mem, op.span)
           dep == Depends(Top.bytes, op.span)
           blur == ~ Aligned(op.span)
<1>4. /\ dep \in BOOLEAN /\ blur \in BOOLEAN
      /\ ~ lossy /\ dep => "loaded" \in nodes
      /\ ~ blurred /\ ~ blur /\ Tainted(nodes) => dep
  BY <1>2, <1>3, MemoryLoad
<1>5. Read("KECCAK256", Top.self, 0, nodes, dep, FALSE, blur)
  BY DEF Hash
<1> HIDE DEF nodes, dep, blur
<1> QED
  BY <1>2, <1>3, <1>4, <1>5, ReadStep

\* Storage is found where it was put, unless the root call's contract is called again.
LEMMA StoreIs ==
  ASSUME FlowInv, frames # << >>, ~ Split
  PROVE  Top.self \in Accounts /\ Top.store = Place(Top.self)
<1> DEFINE n == Len(frames)
<1>1. n \in Nat \ {0} /\ n \in DOMAIN frames /\ Top = frames[n] /\ Top \in Frames
  BY TopIs
<1>2. /\ Top.store = (IF n = 1 THEN "root" ELSE Top.self)
      /\ n = 1 => Top.self = Root
  BY <1>1 DEF FlowInv, FramesInv
<1>3. n = 1 \/ Top.self # Root
  <2>1. Top.self = Root => ~ (n > 1)
    BY DEF Split
  <2> HIDE DEF n
  <2> QED
    BY <1>1, <2>1
<1> QED
  BY <1>1, <1>2, <1>3, FrameTyped DEF Place

\* What is read from the chain: the node of a slot, a balance or a code.
LEMMA ChainRead ==
  ASSUME FlowInv, NEW a \in Accounts
  PROVE  /\ /\ chain.slot[a] \in BOOLEAN
            /\ ~ lossy /\ chain.slot[a] => "loaded" \in {tracker.slot[Place(a)]}
            /\ ~ blurred /\ Tainted({tracker.slot[Place(a)]}) => chain.slot[a]
         /\ /\ chain.balance[a] \in BOOLEAN
            /\ ~ lossy /\ chain.balance[a] => "loaded" \in {tracker.balance[a]}
            /\ ~ blurred /\ Tainted({tracker.balance[a]}) => chain.balance[a]
         /\ /\ chain.code[a] \in BOOLEAN
            /\ ~ lossy /\ chain.code[a] => "loaded" \in {tracker.code[a]}
            /\ ~ blurred /\ Tainted({tracker.code[a]}) => chain.code[a]
<1>1. /\ chain \in Chain
      /\ ~ lossy => ChainSound(tracker, chain)
      /\ ~ blurred => ChainExact(tracker, chain)
  BY ChainIs
<1>2. chain.slot[a] \in BOOLEAN /\ chain.balance[a] \in BOOLEAN /\ chain.code[a] \in BOOLEAN
  BY <1>1 DEF Chain
<1> QED
  BY <1>1, <1>2 DEF ChainSound, ChainExact, Tainted

LEMMA SLoadStep ==
  ASSUME FlowInv, NEW op \in Offers, SLoad(op)
  PROVE  FlowInv'
<1> DEFINE nodes == {tracker.slot[Top.store]}
           dep == chain.slot[Top.self]
<1>1. op.n \in Nat
  BY OfferedIs, OperationIs
<1>2. frames # << >> /\ op.n <= Len(Top.real)
  BY <1>1, Running DEF SLoad
<1>3. Top.self \in Accounts
  BY <1>2, TopIs, FrameTyped
<1>4. /\ dep \in BOOLEAN /\ Split \in BOOLEAN
      /\ ~ lossy /\ ~ Split /\ dep => "loaded" \in nodes
      /\ ~ blurred /\ ~ Split /\ Tainted(nodes) => dep
  BY <1>2, <1>3, StoreIs, ChainRead DEF Split
<1>5. Read("SLOAD", Top.self, op.n, nodes, dep, Split, Split)
  BY DEF SLoad
<1> HIDE DEF nodes, dep
<1> QED
  BY <1>1, <1>2, <1>4, <1>5, ReadStep

LEMMA BalanceStep ==
  ASSUME FlowInv, NEW op \in Offers, Balance(op)
  PROVE  FlowInv'
<1> DEFINE nodes == {tracker.balance[op.at]}
           dep == chain.balance[op.at]
<1>1. op.name = "BALANCE" /\ 1 \in Nat
  BY DEF Balance, Runs
<1>2. op.at \in Accounts
  BY <1>1, OfferedIs, OperationIs
<1>3. frames # << >> /\ 1 <= Len(Top.real)
  BY <1>1, Running DEF Balance
<1>4. /\ dep \in BOOLEAN
      /\ ~ lossy /\ dep => "loaded" \in nodes
      /\ ~ blurred /\ Tainted(nodes) => dep
  BY <1>2, ChainRead
<1>5. Read("BALANCE", op.at, 1, nodes, dep, FALSE, FALSE)
  BY DEF Balance
<1> HIDE DEF nodes, dep
<1> QED
  BY <1>1, <1>3, <1>4, <1>5, ReadStep

LEMMA SelfBalanceStep ==
  ASSUME FlowInv, NEW op \in Offers, SelfBalance(op)
  PROVE  FlowInv'
<1> DEFINE nodes == {tracker.balance[Top.self]}
           dep == chain.balance[Top.self]
<1>1. frames # << >> /\ 0 \in Nat /\ 0 <= Len(Top.real)
  BY Running DEF SelfBalance
<1>2. Top.self \in Accounts
  BY <1>1, TopIs, FrameTyped
<1>3. /\ dep \in BOOLEAN
      /\ ~ lossy /\ dep => "loaded" \in nodes
      /\ ~ blurred /\ Tainted(nodes) => dep
  BY <1>2, ChainRead
<1>4. Read("BALANCE", Top.self, 0, nodes, dep, FALSE, FALSE)
  BY DEF SelfBalance
<1> HIDE DEF nodes, dep
<1> QED
  BY <1>1, <1>3, <1>4, ReadStep

LEMMA CodeSizeStep ==
  ASSUME FlowInv, NEW op \in Offers, CodeSize(op)
  PROVE  FlowInv'
<1> DEFINE nodes == {tracker.code[Top.code]}
           dep == chain.code[Top.code]
<1>1. frames # << >> /\ 0 \in Nat /\ 0 <= Len(Top.real)
  BY Running DEF CodeSize
<1>2. Top.code \in Accounts
  BY <1>1, TopIs, FrameTyped
<1>3. /\ dep \in BOOLEAN /\ Constructing \in BOOLEAN
      /\ ~ lossy /\ dep => "loaded" \in nodes
      /\ ~ blurred /\ Tainted(nodes) => dep
  BY <1>2, ChainRead DEF Constructing
<1>4. Read("CODE", Top.code, 0, nodes, dep, Constructing, Constructing)
  BY DEF CodeSize
<1> HIDE DEF nodes, dep
<1> QED
  BY <1>1, <1>3, <1>4, ReadStep

LEMMA ExtCodeSizeStep ==
  ASSUME FlowInv, NEW op \in Offers, ExtCodeSize(op)
  PROVE  FlowInv'
<1> DEFINE nodes == {tracker.code[op.at]}
           dep == chain.code[op.at]
<1>1. op.name = "EXTCODESIZE" /\ 1 \in Nat
  BY DEF ExtCodeSize, Runs
<1>2. op.at \in Accounts
  BY <1>1, OfferedIs, OperationIs
<1>3. frames # << >> /\ 1 <= Len(Top.real)
  BY <1>1, Running DEF ExtCodeSize
<1>4. /\ dep \in BOOLEAN
      /\ ~ lossy /\ dep => "loaded" \in nodes
      /\ ~ blurred /\ Tainted(nodes) => dep
  BY <1>2, ChainRead
<1>5. Read("CODE", op.at, 1, nodes, dep, FALSE, FALSE)
  BY DEF ExtCodeSize
<1> HIDE DEF nodes, dep
<1> QED
  BY <1>1, <1>3, <1>4, <1>5, ReadStep

LEMMA CallValueStep ==
  ASSUME FlowInv, NEW op \in Offers, CallValue(op)
  PROVE  FlowInv'
<1> DEFINE dep == Top.value
<1>1. frames # << >> /\ 0 \in Nat /\ 0 <= Len(Top.real)
  BY Running DEF CallValue
<1>2. dep \in BOOLEAN
  BY <1>1, TopIs, FrameTyped
<1>3. ~ Tainted({})
  BY DEF Tainted
<1>4. Read("CALLVALUE", Top.self, 0, {}, dep, dep, FALSE)
  BY DEF CallValue
<1> HIDE DEF dep
<1> QED
  BY <1>1, <1>2, <1>3, <1>4, ReadStep

\* Call data that depends on a source is found by Data, and nothing but that as long as
\* no call is a source.
LEMMA DataIs ==
  ASSUME FlowInv, frames # << >>, NEW s \in Spans
  PROVE  LET dep == \E i \in DOMAIN Top.args : Within(i - 1, s) /\ Top.args[i]
         IN  /\ dep \in BOOLEAN
             /\ ~ lossy /\ dep => "loaded" \in Data(Top.call, s)
             /\ ~ blurred /\ Aligned(s) /\ Tainted(Data(Top.call, s)) => dep
<1> DEFINE f == Top
           dep == \E i \in DOMAIN f.args : Within(i - 1, s) /\ f.args[i]
<1>1. /\ f.args \in Bits
      /\ ~ lossy => Sound(f.call.data, Padded(f.args))
      /\ ~ blurred => Exact(f.call.data, Padded(f.args)) /\ f.call.source = UntaintedValue
  BY TopIs, FrameTyped DEF FrameSound, FrameExact
<1> HIDE DEF f
<1>2. ASSUME ~ lossy, dep PROVE "loaded" \in Data(f.call, s)
  <2>1. PICK i \in DOMAIN f.args : Within(i - 1, s) /\ f.args[i]
    BY <1>2
  <2>2. i - 1 \in Units /\ Padded(f.args)[i - 1]
    BY <1>1, <2>1, BitUnit
  <2>3. Depends(Padded(f.args), s)
    BY <2>1, <2>2 DEF Depends
  <2>4. "loaded" \in Load(f.call.data, s)
    BY <1>1, <1>2, <2>3, LoadSound
  <2>5. s[2] # 0
    BY <2>4 DEF Load, WordsOf
  <2> QED
    BY <2>4, <2>5 DEF Data, OrSource
<1>3. ASSUME ~ blurred, Aligned(s), Tainted(Data(f.call, s)) PROVE dep
  <2>1. Load(f.call.data, s) # {}
    BY <1>1, <1>3 DEF Data, OrSource, Tainted
  <2>2. Depends(Padded(f.args), s)
    BY <1>1, <1>3, <2>1, LoadExact
  <2>3. PICK u \in Units : Within(u, s) /\ Padded(f.args)[u]
    BY <2>2 DEF Depends
  <2>4. u + 1 \in DOMAIN f.args /\ f.args[u + 1]
    BY <2>3 DEF Padded
  <2>5. (u + 1) - 1 = u
    BY DEF Units
  <2> QED
    BY <2>3, <2>4, <2>5
<1>4. dep \in BOOLEAN
  OBVIOUS
<1> HIDE DEF dep
<1> QED
  BY <1>2, <1>3, <1>4 DEF dep, f

LEMMA CallDataLoadStep ==
  ASSUME FlowInv, NEW op \in Offers, CallDataLoad(op)
  PROVE  FlowInv'
<1> DEFINE nodes == Data(Top.call, op.span)
           dep == \E i \in DOMAIN Top.args : Within(i - 1, op.span) /\ Top.args[i]
           blur == ~ Aligned(op.span)
<1>1. op.name = "CALLDATALOAD"
  BY DEF CallDataLoad, Runs
<1>2. op.n \in Nat /\ op.span \in Spans
  BY <1>1, OfferedIs, OperationIs
<1>3. frames # << >> /\ op.n <= Len(Top.real)
  BY <1>2, Running DEF CallDataLoad
<1>4. /\ dep \in BOOLEAN /\ blur \in BOOLEAN
      /\ ~ lossy /\ dep => "loaded" \in nodes
      /\ ~ blurred /\ ~ blur /\ Tainted(nodes) => dep
  BY <1>2, <1>3, DataIs DEF Aligned
<1>5. Read("CALLDATALOAD", Top.self, op.n, nodes, dep, FALSE, blur)
  BY DEF CallDataLoad
<1> HIDE DEF nodes, dep, blur
<1> QED
  BY <1>2, <1>3, <1>4, <1>5, ReadStep

-----------------------------------------------------------------------------
(* Writing to memory.                                                      *)

\* A frame with other memory, and one with a node stored in its memory.
WithMemory(f, m, b) == [f EXCEPT !.mem = m, !.bytes = b]
WithStored(f, s, node, dep) ==
  [f EXCEPT !.mem = Store(@, s, node), !.bytes = Marked(@, s, dep)]

LEMMA WriteStep ==
  ASSUME FlowInv, frames # << >>, NEW n \in Nat, n <= Len(Top.real),
         NEW m \in Memory, NEW b \in [Units -> BOOLEAN],
         NEW lost \in BOOLEAN, NEW blur \in BOOLEAN,
         Local(WithMemory(Popped(n), m, b), lost, blur),
         ~ lossy /\ ~ lost => Sound(m, b),
         ~ blurred /\ ~ blur => Exact(m, b)
  PROVE  FlowInv'
<1> DEFINE f == Popped(n)
           g == WithMemory(f, m, b)
<1>1. /\ f \in Frames /\ Len(f.stack) = Len(f.real) /\ SameCall(Top, f)
      /\ ~ lossy => FrameSound(f)
      /\ ~ blurred => FrameExact(f)
  BY PoppedIs
<1> HIDE DEF f
<1>2. /\ g \in Frames /\ SameCall(f, g) /\ g.mem = m /\ g.bytes = b
      /\ g.stack = f.stack /\ g.real = f.real
      /\ g.call = f.call /\ g.args = f.args /\ g.child = f.child /\ g.output = f.output
  BY <1>1 DEF Frames, SameCall, WithMemory
<1>3. Local(g, lost, blur)
  BY DEF f
<1> HIDE DEF g
<1>4. ~ lossy /\ ~ lost => FrameSound(g)
  BY <1>1, <1>2 DEF FrameSound
<1>5. ~ blurred /\ ~ blur => FrameExact(g)
  BY <1>1, <1>2 DEF FrameExact
<1>6. Len(g.stack) = Len(g.real) /\ SameCall(Top, g)
  BY <1>1, <1>2 DEF SameCall
<1> QED
  BY <1>2, <1>3, <1>4, <1>5, <1>6, LocalStep

LEMMA PoppedMemory ==
  ASSUME FlowInv, frames # << >>, NEW n \in Nat, n <= Len(Top.real)
  PROVE  /\ Top.mem \in Memory /\ Top.bytes \in [Units -> BOOLEAN]
         /\ Popped(n).mem = Top.mem /\ Popped(n).bytes = Top.bytes
         /\ ~ lossy => Sound(Top.mem, Top.bytes)
         /\ ~ blurred => Exact(Top.mem, Top.bytes)
BY TopIs, FrameTyped, PoppedIs DEF FrameSound, FrameExact, SameData

LEMMA StoreStep ==
  ASSUME FlowInv, frames # << >>, NEW n \in Nat, n <= Len(Top.real),
         NEW s \in Spans, NEW node \in Node, NEW dep \in BOOLEAN,
         NEW lost \in BOOLEAN, NEW blur \in BOOLEAN,
         Local(WithStored(Popped(n), s, node, dep), lost, blur),
         ~ lossy /\ ~ lost /\ dep => node = "loaded",
         ~ blurred /\ ~ blur => Aligned(s) /\ (node # UntaintedValue => dep)
  PROVE  FlowInv'
<1> DEFINE m == Store(Top.mem, s, node)
           b == Marked(Top.bytes, s, dep)
<1>1. /\ Top.mem \in Memory /\ Top.bytes \in [Units -> BOOLEAN]
      /\ Popped(n).mem = Top.mem /\ Popped(n).bytes = Top.bytes
      /\ ~ lossy => Sound(Top.mem, Top.bytes)
      /\ ~ blurred => Exact(Top.mem, Top.bytes)
  BY PoppedMemory
<1>2. m \in Memory /\ b \in [Units -> BOOLEAN]
  BY <1>1, StoreTyped, MarkedTyped
<1>3. ~ lossy /\ ~ lost => Sound(m, b)
  BY <1>1, StoreSound
<1>4. ~ blurred /\ ~ blur => Exact(m, b)
  BY <1>1, StoreExact
<1>5. Local(WithMemory(Popped(n), m, b), lost, blur)
  BY <1>1 DEF WithMemory, WithStored
<1> HIDE DEF m, b
<1> QED
  BY <1>2, <1>3, <1>4, <1>5, WriteStep

LEMMA MStoreStep ==
  ASSUME FlowInv, NEW op \in Offers, MStore(op)
  PROVE  FlowInv'
<1> DEFINE old == Top.stack[1]
           source == Source("MSTORE", Top.self)
           node == Marks(old, source)
           dep == Top.real[1] \/ source
           lost == source /\ old = "blank"
           blur == ~ Aligned(op.span)
<1>1. op.name = "MSTORE" /\ 1 \in Nat
  BY DEF MStore, Runs
<1>2. op.span \in Spans
  BY <1>1, OfferedIs, OperationIs
<1>3. frames # << >> /\ 1 <= Len(Top.real)
  BY <1>1, Running DEF MStore
<1>4. /\ old \in Node /\ Top.real[1] \in BOOLEAN
      /\ ~ lossy /\ Top.real[1] => old = "loaded"
      /\ ~ blurred /\ old # UntaintedValue => Top.real[1]
  BY <1>3, OperandIs
<1>5. source \in BOOLEAN /\ dep \in BOOLEAN /\ lost \in BOOLEAN /\ blur \in BOOLEAN
  BY DEF Source, Aligned
<1>6. /\ node \in Node
      /\ ~ lossy /\ ~ lost /\ dep => node = "loaded"
      /\ ~ blurred /\ ~ blur => Aligned(op.span) /\ (node # UntaintedValue => dep)
  BY <1>4, <1>5, MarksIs
<1>7. Local(WithStored(Popped(1), op.span, node, dep), lost, blur)
  BY DEF MStore, WithStored
<1> HIDE DEF node, dep, lost, blur
<1> QED
  BY <1>1, <1>2, <1>3, <1>5, <1>6, <1>7, StoreStep

LEMMA CodeCopyStep ==
  ASSUME FlowInv, NEW op \in Offers, CodeCopy(op)
  PROVE  FlowInv'
<1> DEFINE n == op.n
           a == IF n = 0 THEN Top.code ELSE op.at
           source == Source("CODE", a)
           old == tracker.code[a]
           node == IF Tainted(Args(n)) THEN NewNode(Args(n) \cup {old}, source)
                   ELSE Marks(old, source)
           dep == chain.code[a] \/ Operands(n) \/ source
           lost == (n = 0 /\ Constructing) \/ (source /\ node = "blank")
           blur == (n = 0 /\ Constructing) \/ ~ Aligned(op.span)
<1>1. op.name = "CODECOPY"
  BY DEF CodeCopy, Runs
<1>2. n \in Nat /\ op.span \in Spans /\ (n # 0 => op.at \in Accounts)
  BY <1>1, OfferedIs, OperationIs
<1>3. frames # << >> /\ n <= Len(Top.real)
  BY <1>2, Running DEF CodeCopy
<1>4. a \in Accounts
  BY <1>2, <1>3, TopIs, FrameTyped
<1>5. /\ chain.code[a] \in BOOLEAN
      /\ ~ lossy /\ chain.code[a] => old = "loaded"
      /\ ~ blurred /\ old # UntaintedValue => chain.code[a]
  BY <1>4, ChainRead DEF Tainted
<1>6. old \in Node
  BY <1>4, ChainIs DEF Tracker
<1>7. /\ ~ lossy /\ Operands(n) => "loaded" \in Args(n)
      /\ ~ blurred /\ Tainted(Args(n)) => Operands(n)
  BY <1>2, <1>3, ArgsAre
<1>8. source \in BOOLEAN /\ dep \in BOOLEAN /\ lost \in BOOLEAN /\ blur \in BOOLEAN
  BY <1>5 DEF Source, Aligned, Operands, Constructing
<1>9. Local(WithStored(Popped(n), op.span, node, dep), lost, blur)
  BY DEF CodeCopy, WithStored
<1> HIDE DEF n, a, source, old
<1>10. /\ node \in Node
       /\ ~ lossy /\ ~ lost /\ dep => node = "loaded"
       /\ ~ blurred /\ ~ blur => Aligned(op.span) /\ (node # UntaintedValue => dep)
  <2>1. CASE Tainted(Args(n))
    BY <1>5, <1>7, <1>8, <2>1, NewNodeIs
  <2>2. CASE ~ Tainted(Args(n))
    <3>1. "loaded" \notin Args(n)
      BY <2>2 DEF Tainted, UntaintedValue
    <3>2. node = Marks(old, source)
      BY <2>2
    <3> QED
      BY <1>5, <1>6, <1>7, <1>8, <3>1, <3>2, MarksIs
  <2> QED
    BY <2>1, <2>2
<1> HIDE DEF node, dep, lost, blur
<1> QED
  BY <1>2, <1>3, <1>8, <1>9, <1>10, StoreStep

LEMMA CopyStep ==
  ASSUME FlowInv, frames # << >>, NEW op,
         op.into \in Spans, op.from \in Nat, <<op.from, op.into[2]>> \in Spans,
         NEW nodes \in Memory, NEW data \in Bits, CopyToMemory(op, nodes, data),
         ~ lossy => Sound(nodes, Padded(data)),
         ~ blurred => \A u \in Units :
           Within(u, <<op.from, op.into[2]>>) /\ nodes[u \div Granularity] # UntaintedValue
             => Padded(data)[u]
  PROVE  FlowInv'
<1> DEFINE dest == op.into
           span == <<op.from, dest[2]>>
           mem == Copied(Top.mem, nodes, dest, op.from)
           bytes == Written(Top.bytes, data, dest, op.from)
           source == Source(op.name, Top.self)
           none == Load(mem, dest) = {}
           m == IF source /\ none THEN Store(mem, dest, "loaded") ELSE mem
           b == IF source THEN Marked(bytes, dest, TRUE) ELSE bytes
           lost == \/ OutOfPhase(dest[1], op.from)
                   \/ source /\ ~ none /\ \E w \in WordsOf(dest) : mem[w] # "loaded"
           blur == ~ Aligned(dest) \/ ~ Aligned(span)
<1>1. /\ 0 \in Nat /\ 0 <= Len(Top.real)
      /\ dest[1] \in Nat /\ dest[2] \in Nat /\ dest = <<dest[1], dest[2]>>
      /\ op.from \in Nat /\ span \in Spans
  <2>1. Top.real \in Seq(BOOLEAN)
    BY TopIs, FrameTyped
  <2> QED
    BY <2>1, SpanTyped
<1>2. /\ Top.mem \in Memory /\ Top.bytes \in [Units -> BOOLEAN]
      /\ ~ lossy => Sound(Top.mem, Top.bytes)
      /\ ~ blurred => Exact(Top.mem, Top.bytes)
  BY <1>1, PoppedMemory
<1>3. mem \in Memory /\ bytes \in [Units -> BOOLEAN]
  BY <1>1, <1>2, CopiedTyped, WrittenTyped
<1>4. ~ lossy /\ ~ lost => Sound(mem, bytes)
  <2> SUFFICES ASSUME ~ lossy, ~ lost PROVE Sound(mem, bytes)
    OBVIOUS
  <2>1. \A u \in Units : ~ (Within(u, dest) /\ u >= dest[1] + dest[2])
    BY <1>1 DEF Within, Units
  <2>2. Sound(Copied(Top.mem, nodes, dest, op.from),
              Written(Top.bytes, data, <<dest[1], dest[2]>>, op.from))
    <3> DEFINE k == dest[2]
    <3>1. k \in Nat /\ k <= dest[2] /\ ~ OutOfPhase(dest[1], op.from)
      BY <1>1
    <3>2. \A u \in Units : Within(u, dest) /\ u >= dest[1] + k => ~ Top.bytes[u]
      BY <2>1
    <3> HIDE DEF k
    <3>3. Sound(Copied(Top.mem, nodes, dest, op.from),
                Written(Top.bytes, data, <<dest[1], k>>, op.from))
      BY <1>1, <1>2, <3>1, <3>2, CopiedSound
    <3> QED
      BY <3>3 DEF k
  <2> QED
    BY <1>1, <2>2
<1>5. ~ blurred /\ ~ blur => Exact(mem, bytes)
  <2> SUFFICES ASSUME ~ blurred, ~ blur PROVE Exact(mem, bytes)
    OBVIOUS
  <2> DEFINE k == dest[2]
  <2>1. k \in Nat /\ k <= dest[2] /\ Aligned(dest) /\ Aligned(<<op.from, dest[2]>>)
    BY <1>1
  <2>2. \A u \in Units :
          Within(u, <<op.from, dest[2]>>) /\ nodes[u \div Granularity] # UntaintedValue
            => Padded(data)[u] /\ u < op.from + k
    BY <1>1 DEF Within
  <2> HIDE DEF k
  <2>3. Exact(Copied(Top.mem, nodes, dest, op.from),
              Written(Top.bytes, data, <<dest[1], k>>, op.from))
    BY <1>1, <1>2, <2>1, <2>2, CopiedExact
  <2> QED
    BY <1>1, <2>3 DEF k
<1>6. source \in BOOLEAN /\ lost \in BOOLEAN /\ blur \in BOOLEAN /\ none \in BOOLEAN
  BY DEF Source, OutOfPhase, Aligned
<1>7. Local(WithMemory(Popped(0), m, b), lost, blur)
  BY DEF CopyToMemory, WithMemory
<1>8. none => source \/ mem = m
  OBVIOUS
<1>9. "loaded" \in Node /\ "loaded" # UntaintedValue
  BY DEF Node, UntaintedValue
<1> HIDE DEF mem, bytes
<1>10. m \in Memory /\ b \in [Units -> BOOLEAN]
  BY <1>3, <1>9, StoreTyped, MarkedTyped
<1>11. ASSUME ~ lossy, ~ lost PROVE Sound(m, b)
  <2>1. CASE source /\ none
    BY <1>3, <1>4, <1>9, <1>11, <2>1, StoreSound
  <2>2. CASE source /\ ~ none
    BY <1>3, <1>4, <1>11, <2>2, MarkSound
  <2>3. CASE ~ source
    BY <1>4, <1>11, <2>3
  <2> QED
    BY <2>1, <2>2, <2>3
<1>12. ASSUME ~ blurred, ~ blur PROVE Exact(m, b)
  <2>1. CASE source /\ none
    <3>1. Exact(mem, bytes) /\ Aligned(dest) /\ ("loaded" # UntaintedValue => TRUE)
      BY <1>5, <1>12
    <3>2. Exact(Store(mem, dest, "loaded"), Marked(bytes, dest, TRUE))
      BY <1>3, <1>9, <3>1, StoreExact
    <3> QED
      BY <2>1, <3>2
  <2>2. CASE source /\ ~ none
    BY <1>5, <1>12, <2>2, MarkExact
  <2>3. CASE ~ source
    BY <1>5, <1>12, <2>3
  <2> QED
    BY <2>1, <2>2, <2>3
<1> HIDE DEF m, b, lost, blur
<1> QED
  BY <1>1, <1>6, <1>7, <1>10, <1>11, <1>12, WriteStep

LEMMA CallDataCopyStep ==
  ASSUME FlowInv, NEW op \in Offers, CallDataCopy(op)
  PROVE  FlowInv'
<1>1. op.name = "CALLDATACOPY"
  BY DEF CallDataCopy, Runs
<1>2. op.into \in Spans /\ op.from \in Nat /\ <<op.from, op.into[2]>> \in Spans
  BY <1>1, OfferedIs, OperationIs
<1>3. frames # << >>
  BY OfferedIs
<1> DEFINE nodes == Top.call.data
           data == Top.args
<1>4. /\ nodes \in Memory /\ data \in Bits
      /\ ~ lossy => Sound(nodes, Padded(data))
      /\ ~ blurred => Exact(nodes, Padded(data))
  BY <1>3, TopIs, FrameTyped DEF FrameSound, FrameExact, Calls
<1>5. CopyToMemory(op, nodes, data)
  BY DEF CallDataCopy
<1> HIDE DEF nodes, data
<1>6. ~ blurred => \A u \in Units :
        Within(u, <<op.from, op.into[2]>>) /\ nodes[u \div Granularity] # UntaintedValue
          => Padded(data)[u]
  BY <1>4 DEF Exact
<1> QED
  BY <1>2, <1>3, <1>4, <1>5, <1>6, CopyStep

LEMMA ReturnDataCopyStep ==
  ASSUME FlowInv, NEW op \in Offers, ReturnDataCopy(op)
  PROVE  FlowInv'
<1>1. op.name = "RETURNDATACOPY"
  BY DEF ReturnDataCopy, Runs
<1>2. op.into \in Spans /\ op.from \in Nat /\ <<op.from, op.into[2]>> \in Spans
  BY <1>1, OfferedIs, OperationIs
<1>3. frames # << >>
  BY OfferedIs
<1> DEFINE nodes == Top.child.ret
           data == Top.output
<1>4. /\ nodes \in Memory /\ data \in Bits
      /\ ~ lossy => Sound(nodes, Padded(data))
      /\ ~ blurred => \A u \in Units : u + 1 \in DOMAIN data =>
           (nodes[u \div Granularity] # UntaintedValue => data[u + 1])
  BY <1>3, TopIs, FrameTyped DEF FrameSound, FrameExact, Calls
<1>5. CopyToMemory(op, nodes, data) /\ op.from + op.into[2] =< Len(data)
  BY DEF ReturnDataCopy
<1> HIDE DEF nodes, data
<1>6. \A u \in Units : Within(u, <<op.from, op.into[2]>>) => u + 1 \in DOMAIN data
  <2>1. /\ op.into[2] \in Nat /\ Len(data) \in Nat
        /\ DOMAIN data = 1 .. Len(data)
    BY <1>2, <1>4, SpanTyped DEF Bits
  <2> QED
    BY <1>2, <1>5, <2>1 DEF Within, Units
<1>7. ~ blurred => \A u \in Units :
        Within(u, <<op.from, op.into[2]>>) /\ nodes[u \div Granularity] # UntaintedValue
          => Padded(data)[u]
  BY <1>4, <1>6 DEF Padded
<1> QED
  BY <1>2, <1>3, <1>4, <1>5, <1>7, CopyStep

-----------------------------------------------------------------------------
(* Storage, jumps and logs.                                                *)

LEMMA SStoreStep ==
  ASSUME FlowInv, NEW op \in Offers, SStore(op)
  PROVE  FlowInv'
<1> DEFINE f == Popped(1)
           g == [f EXCEPT !.wrote = TRUE]
           source == Source("SSTORE", Top.self)
           node == Produced(Args(1), source)
           dep == Top.real[1] \/ source
<1>1. 1 \in Nat /\ Runs(op, "SSTORE", 1)
  BY DEF SStore
<1>2. frames # << >> /\ 1 <= Len(Top.real)
  BY <1>1, Running
<1>3. /\ f \in Frames /\ Len(f.stack) = Len(f.real) /\ SameCall(Top, f)
      /\ ~ lossy => FrameSound(f)
      /\ ~ blurred => FrameExact(f)
  BY <1>1, <1>2, PoppedIs
<1>4. /\ Top.real[1] \in BOOLEAN
      /\ ~ lossy /\ Operands(1) => "loaded" \in Args(1)
      /\ ~ blurred /\ Tainted(Args(1)) => Operands(1)
      /\ Operands(1) = Top.real[1]
  <2>1. 1 .. 1 = {1}
    OBVIOUS
  <2>2. Operands(1) = Top.real[1]
    <3>1. Top.real[1] \in BOOLEAN
      BY <1>2, OperandIs
    <3> QED
      BY <2>1, <3>1 DEF Operands
  <2> QED
    BY <1>1, <1>2, <2>2, ArgsAre, OperandIs
<1>5. source \in BOOLEAN /\ dep \in BOOLEAN
  BY <1>4 DEF Source
<1>6. /\ node \in Node
      /\ ~ lossy /\ dep => node = "loaded"
      /\ ~ blurred /\ node # UntaintedValue => dep
  BY <1>4, <1>5, ProducedIs
<1>7. /\ frames' = [frames EXCEPT ![Len(frames)] = g]
      /\ tracker' = [tracker EXCEPT !.slot = [tracker.slot EXCEPT ![Top.store] = node]]
      /\ chain' = [chain EXCEPT !.slot = [chain.slot EXCEPT ![Top.self] = dep]]
      /\ sink' = [seen |-> FALSE, dep |-> FALSE]
      /\ lossy' = (lossy \/ Split) /\ blurred' = (blurred \/ Split)
      /\ program' = program /\ sources' = sources
  BY DEF SStore, Slotted, Quiet
<1> HIDE DEF f, node, dep
<1>8. /\ g \in Frames /\ Len(g.stack) = Len(g.real) /\ SameCall(Top, g) /\ g.wrote
      /\ ~ lossy => FrameSound(g)
      /\ ~ blurred => FrameExact(g)
  <2>1. /\ g \in Frames /\ g.wrote /\ SameCall(f, g)
        /\ g.mem = f.mem /\ g.bytes = f.bytes /\ g.args = f.args /\ g.call = f.call
        /\ g.child = f.child /\ g.output = f.output /\ g.stack = f.stack /\ g.real = f.real
    BY <1>3 DEF Frames, SameCall
  <2> HIDE DEF g
  <2>2. SameCall(Top, g) /\ Len(g.stack) = Len(g.real)
    BY <1>3, <2>1 DEF SameCall
  <2>3. (FrameSound(f) => FrameSound(g)) /\ (FrameExact(f) => FrameExact(g))
    BY <2>1 DEF FrameSound, FrameExact
  <2> QED
    BY <1>3, <2>1, <2>2, <2>3
<1>9. /\ tracker \in Tracker /\ chain \in Chain /\ lossy \in BOOLEAN /\ blurred \in BOOLEAN
      /\ ~ lossy => ChainSound(tracker, chain)
      /\ ~ blurred => ChainExact(tracker, chain)
      /\ Split \in BOOLEAN
  BY ChainIs DEF Split
<1>10. Top.self \in Accounts /\ Top.store \in Accounts \cup {"root"}
  BY <1>2, TopIs, FrameTyped
<1>11. /\ tracker' \in Tracker /\ chain' \in Chain
       /\ tracker'.slot = [tracker.slot EXCEPT ![Top.store] = node]
       /\ tracker'.balance = tracker.balance /\ tracker'.code = tracker.code
       /\ chain'.slot = [chain.slot EXCEPT ![Top.self] = dep]
       /\ chain'.balance = chain.balance /\ chain'.code = chain.code
  BY <1>5, <1>6, <1>7, <1>9 DEF Tracker, Chain
<1>12. tracker.slot \in [Accounts \cup {"root"} -> Node] /\ chain.slot \in [Accounts -> BOOLEAN]
  BY <1>9 DEF Tracker, Chain
<1>13. ASSUME ~ Split, NEW a \in Accounts
       PROVE  /\ Place(a) \in Accounts \cup {"root"}
              /\ a = Top.self <=> Place(a) = Top.store
  BY <1>2, <1>10, <1>13, StoreIs, FlowAssumption DEF Place
<1>14. ASSUME ~ Split, ~ lossy PROVE ChainSound(tracker', chain')
  BY <1>6, <1>9, <1>11, <1>12, <1>13, <1>14 DEF ChainSound
<1>15. ASSUME ~ Split, ~ blurred PROVE ChainExact(tracker', chain')
  BY <1>6, <1>9, <1>11, <1>12, <1>13, <1>15 DEF ChainExact
<1> HIDE DEF g
<1>16. /\ sink' \in [seen : BOOLEAN, dep : BOOLEAN] /\ ~ sink'.dep /\ ~ sink'.seen
       /\ lossy' \in BOOLEAN /\ blurred' \in BOOLEAN /\ (lossy => lossy') /\ (blurred => blurred')
       /\ \A a \in Accounts : chain.balance[a] => chain'.balance[a]
  BY <1>7, <1>9, <1>11
<1>17. /\ ~ lossy' => FrameSound(g) /\ ChainSound(tracker', chain')
       /\ ~ blurred' => FrameExact(g) /\ ChainExact(tracker', chain')
  BY <1>7, <1>8, <1>14, <1>15
<1> QED
  BY <1>2, <1>7, <1>8, <1>11, <1>16, <1>17, TopStep

\* A sink is reported if, and as long as words are read whole only if, its data or its
\* operands depend on a source.
LEMMA SinkIs ==
  ASSUME FlowInv, frames # << >>, NEW n \in Nat, n <= Len(Top.real),
         NEW nodes, NEW dep \in BOOLEAN, NEW blur \in BOOLEAN,
         ~ lossy /\ dep => "loaded" \in nodes,
         ~ blurred /\ ~ blur /\ Tainted(nodes) => dep,
         sink' = Reported(nodes \cup Args(n), dep \/ Operands(n))
  PROVE  /\ sink' \in [seen : BOOLEAN, dep : BOOLEAN]
         /\ ~ lossy /\ sink'.dep => sink'.seen
         /\ ~ blurred /\ ~ blur /\ sink'.seen => sink'.dep
<1>1. /\ ~ lossy /\ Operands(n) => "loaded" \in Args(n)
      /\ ~ blurred /\ Tainted(Args(n)) => Operands(n)
  BY ArgsAre
<1>2. /\ "loaded" \in nodes \cup Args(n) => Tainted(nodes \cup Args(n))
      /\ Tainted(nodes \cup Args(n)) <=> Tainted(nodes) \/ Tainted(Args(n))
      /\ Tainted(nodes \cup Args(n)) \in BOOLEAN /\ Operands(n) \in BOOLEAN
  BY DEF Tainted, UntaintedValue, Operands
<1>3. sink'.seen = Tainted(nodes \cup Args(n)) /\ sink'.dep = (dep \/ Operands(n))
  BY DEF Reported
<1>4. sink' \in [seen : BOOLEAN, dep : BOOLEAN]
  BY <1>2 DEF Reported
<1> QED
  BY <1>1, <1>2, <1>3, <1>4

LEMMA SinkStep ==
  ASSUME FlowInv, frames # << >>, NEW n \in Nat, n <= Len(Top.real),
         NEW nodes, NEW dep \in BOOLEAN, NEW blur \in BOOLEAN,
         ~ lossy /\ dep => "loaded" \in nodes,
         ~ blurred /\ ~ blur /\ Tainted(nodes) => dep,
         Sink(n, nodes, dep, blur)
  PROVE  FlowInv'
<1> DEFINE g == Popped(n)
<1>1. /\ frames' = [frames EXCEPT ![Len(frames)] = g]
      /\ sink' = Reported(nodes \cup Args(n), dep \/ Operands(n))
      /\ blurred' = (blurred \/ blur) /\ lossy' = lossy
      /\ tracker' = tracker /\ chain' = chain /\ program' = program /\ sources' = sources
  BY DEF Sink
<1>2. /\ g \in Frames /\ Len(g.stack) = Len(g.real) /\ SameCall(Top, g)
      /\ ~ lossy => FrameSound(g)
      /\ ~ blurred => FrameExact(g)
  BY PoppedIs
<1>3. /\ sink' \in [seen : BOOLEAN, dep : BOOLEAN]
      /\ ~ lossy /\ sink'.dep => sink'.seen
      /\ ~ blurred /\ ~ blur /\ sink'.seen => sink'.dep
  BY <1>1, SinkIs
<1>4. /\ tracker' \in Tracker /\ chain' \in Chain /\ lossy' \in BOOLEAN /\ blurred' \in BOOLEAN
      /\ (lossy => lossy') /\ (blurred => blurred')
      /\ ~ lossy' => ChainSound(tracker', chain')
      /\ ~ blurred' => ChainExact(tracker', chain')
      /\ \A a \in Accounts : chain.balance[a] => chain'.balance[a]
  BY <1>1, ChainIs
<1>5. /\ ~ lossy' => FrameSound(g) /\ (sink'.dep => sink'.seen)
      /\ ~ blurred' => FrameExact(g) /\ (sink'.seen => sink'.dep)
  BY <1>1, <1>2, <1>3
<1> HIDE DEF g
<1> QED
  BY <1>1, <1>2, <1>3, <1>4, <1>5, TopStep

LEMMA JumpStep ==
  ASSUME FlowInv, NEW op \in Offers, Jump(op)
  PROVE  FlowInv'
<1>1. op.n \in Nat
  BY OfferedIs, OperationIs
<1>2. frames # << >> /\ op.n <= Len(Top.real)
  BY <1>1, Running DEF Jump
<1>3. Sink(op.n, {}, FALSE, FALSE) /\ ~ Tainted({})
  BY DEF Jump, Tainted
<1> QED
  BY <1>1, <1>2, <1>3, SinkStep

LEMMA LogStep ==
  ASSUME FlowInv, NEW op \in Offers, Log(op)
  PROVE  FlowInv'
<1>1. op.name = "LOG"
  BY DEF Log, Runs
<1>2. op.n \in Nat /\ op.span \in Spans
  BY <1>1, OfferedIs, OperationIs
<1>3. frames # << >> /\ op.n <= Len(Top.real)
  BY <1>2, Running DEF Log
<1> DEFINE nodes == Load(Top.mem, op.span)
           dep == Depends(Top.bytes, op.span)
           blur == ~ Aligned(op.span)
<1>4. /\ dep \in BOOLEAN /\ blur \in BOOLEAN
      /\ ~ lossy /\ dep => "loaded" \in nodes
      /\ ~ blurred /\ ~ blur /\ Tainted(nodes) => dep
  BY <1>2, <1>3, MemoryLoad
<1>5. Sink(op.n, nodes, dep, blur)
  BY DEF Log
<1> HIDE DEF nodes, dep, blur
<1> QED
  BY <1>2, <1>3, <1>4, <1>5, SinkStep

-----------------------------------------------------------------------------
(* What a call leaves in its caller.                                       *)

LEMMA PushedSound ==
  ASSUME NEW s \in Seq(Node), NEW r \in Seq(BOOLEAN), Len(s) = Len(r),
         NEW node \in Node, NEW dep \in BOOLEAN, dep => node = "loaded",
         \A j \in DOMAIN s : r[j] => s[j] = "loaded"
  PROVE  \A j \in DOMAIN (<<node>> \o s) :
           (<<dep>> \o r)[j] => (<<node>> \o s)[j] = "loaded"
<1> DEFINE st == <<node>> \o s
           re == <<dep>> \o r
<1>1. /\ DOMAIN st = 1 .. Len(s) + 1 /\ DOMAIN s = 1 .. Len(s) /\ Len(s) \in Nat
      /\ \A j \in 1 .. Len(s) + 1 : st[j] = IF j = 1 THEN node ELSE s[j - 1]
  BY PushIs
<1>2. \A j \in 1 .. Len(r) + 1 : re[j] = IF j = 1 THEN dep ELSE r[j - 1]
  BY PushIs
<1>3. \A j \in 1 .. Len(s) + 1 : j = 1 \/ j - 1 \in 1 .. Len(s)
  BY <1>1
<1> HIDE DEF st, re
<1>4. \A j \in DOMAIN st : re[j] => st[j] = "loaded"
  BY <1>1, <1>2, <1>3
<1> QED
  BY <1>4 DEF st, re

LEMMA PushedExact ==
  ASSUME NEW s \in Seq(Node), NEW r \in Seq(BOOLEAN), Len(s) = Len(r),
         NEW node \in Node, NEW dep \in BOOLEAN, node # UntaintedValue => dep,
         \A j \in DOMAIN s : s[j] # UntaintedValue => r[j]
  PROVE  \A j \in DOMAIN (<<node>> \o s) :
           (<<node>> \o s)[j] # UntaintedValue => (<<dep>> \o r)[j]
<1> DEFINE st == <<node>> \o s
           re == <<dep>> \o r
<1>1. /\ DOMAIN st = 1 .. Len(s) + 1 /\ DOMAIN s = 1 .. Len(s) /\ Len(s) \in Nat
      /\ \A j \in 1 .. Len(s) + 1 : st[j] = IF j = 1 THEN node ELSE s[j - 1]
  BY PushIs
<1>2. \A j \in 1 .. Len(r) + 1 : re[j] = IF j = 1 THEN dep ELSE r[j - 1]
  BY PushIs
<1>3. \A j \in 1 .. Len(s) + 1 : j = 1 \/ j - 1 \in 1 .. Len(s)
  BY <1>1
<1> HIDE DEF st, re
<1>4. \A j \in DOMAIN st : st[j] # UntaintedValue => re[j]
  BY <1>1, <1>2, <1>3
<1> QED
  BY <1>4 DEF st, re

\* A frame that received a result on its stack and data in its memory.
LEMMA BackSound ==
  ASSUME NEW f \in Frames, NEW g, FrameSound(f), Len(f.stack) = Len(f.real),
         NEW node \in Node, NEW dep \in BOOLEAN, dep => node = "loaded",
         g.stack = <<node>> \o f.stack, g.real = <<dep>> \o f.real,
         g.call = f.call, g.args = f.args,
         Sound(g.mem, g.bytes), Sound(g.child.ret, Padded(g.output))
  PROVE  FrameSound(g)
<1>1. f.stack \in Seq(Node) /\ f.real \in Seq(BOOLEAN)
  BY FrameTyped
<1>2. \A j \in DOMAIN f.stack : f.real[j] => f.stack[j] = "loaded"
  BY DEF FrameSound
<1>3. \A j \in DOMAIN (<<node>> \o f.stack) :
        (<<dep>> \o f.real)[j] => (<<node>> \o f.stack)[j] = "loaded"
  <2> DEFINE s == f.stack
             r == f.real
  <2>1. s \in Seq(Node) /\ r \in Seq(BOOLEAN) /\ Len(s) = Len(r)
    BY <1>1
  <2>2. \A j \in DOMAIN s : r[j] => s[j] = "loaded"
    BY <1>2
  <2> HIDE DEF s, r
  <2>3. \A j \in DOMAIN (<<node>> \o s) :
          (<<dep>> \o r)[j] => (<<node>> \o s)[j] = "loaded"
    BY <2>1, <2>2, PushedSound
  <2> QED
    BY <2>3 DEF s, r
<1> QED
  BY <1>3 DEF FrameSound

LEMMA BackExact ==
  ASSUME NEW f \in Frames, NEW g, FrameExact(f), Len(f.stack) = Len(f.real),
         NEW node \in Node, NEW dep \in BOOLEAN, node # UntaintedValue => dep,
         g.stack = <<node>> \o f.stack, g.real = <<dep>> \o f.real,
         g.call = f.call, g.args = f.args,
         Exact(g.mem, g.bytes),
         \A u \in Units : u + 1 \in DOMAIN g.output =>
           (g.child.ret[u \div Granularity] # UntaintedValue => g.output[u + 1])
  PROVE  FrameExact(g)
<1>1. f.stack \in Seq(Node) /\ f.real \in Seq(BOOLEAN)
  BY FrameTyped
<1>2. \A j \in DOMAIN f.stack : f.stack[j] # UntaintedValue => f.real[j]
  BY DEF FrameExact
<1>3. \A j \in DOMAIN (<<node>> \o f.stack) :
        (<<node>> \o f.stack)[j] # UntaintedValue => (<<dep>> \o f.real)[j]
  <2> DEFINE s == f.stack
             r == f.real
  <2>1. s \in Seq(Node) /\ r \in Seq(BOOLEAN) /\ Len(s) = Len(r)
    BY <1>1
  <2>2. \A j \in DOMAIN s : s[j] # UntaintedValue => r[j]
    BY <1>2
  <2> HIDE DEF s, r
  <2>3. \A j \in DOMAIN (<<node>> \o s) :
          (<<node>> \o s)[j] # UntaintedValue => (<<dep>> \o r)[j]
    BY <2>1, <2>2, PushedExact
  <2> QED
    BY <2>3 DEF s, r
<1> QED
  BY <1>3 DEF FrameExact

LEMMA SuccessTyped ==
  ASSUME NEW call \in Calls
  PROVE  GetSuccess(call) \in Node
BY DEF GetSuccess, Calls, Node

LEMMA ReturnedIs ==
  ASSUME NEW f \in Frames, Len(f.stack) = Len(f.real), NEW into \in Spans,
         NEW call \in Calls, NEW data \in Bits, NEW dep \in BOOLEAN
  PROVE  LET g == Returned(f, into, call, data, dep) IN
         /\ g \in Frames /\ Len(g.stack) = Len(g.real)
         /\ SameCall(f, g) /\ g.wrote = f.wrote
         /\ FrameSound(f) /\ (dep => GetSuccess(call) = "loaded")
              /\ Sound(call.ret, Padded(data)) /\ ~ Kept(f, into, data)
              /\ (~ OutOfPhase(into[1], 0) \/ \A i \in DOMAIN data : ~ data[i])
              => FrameSound(g)
         /\ FrameExact(f) /\ (GetSuccess(call) # UntaintedValue => dep)
              /\ Exact(call.ret, Padded(data)) /\ Aligned(into)
              => FrameExact(g)
<1> DEFINE g == Returned(f, into, call, data, dep)
           n == IF Len(data) < into[2] THEN Len(data) ELSE into[2]
           mem == Copied(f.mem, call.ret, into, 0)
           bytes == Written(f.bytes, data, <<into[1], n>>, 0)
           node == GetSuccess(call)
           st == <<node>> \o f.stack
           re == <<dep>> \o f.real
<1>1. /\ f.stack \in Seq(Node) /\ f.real \in Seq(BOOLEAN)
      /\ f.mem \in Memory /\ f.bytes \in [Units -> BOOLEAN]
      /\ call.ret \in Memory /\ node \in Node
  BY FrameTyped, SuccessTyped DEF Calls
<1>2. /\ into[1] \in Nat /\ into[2] \in Nat /\ into[2] <= Size
      /\ Len(data) \in Nat /\ DOMAIN data = 1 .. Len(data) /\ Size \in Nat
  BY SpanTyped, Sizes DEF Bits
<1>3. n \in Nat /\ n <= into[2] /\ n <= Len(data)
  BY <1>2
<1>4. 0 \in Nat /\ <<0, into[2]>> \in Spans
  BY <1>2 DEF Spans
<1>5. mem \in Memory /\ bytes \in [Units -> BOOLEAN]
  BY <1>1, <1>4, CopiedTyped, WrittenTyped
<1>6. st \in Seq(Node) /\ re \in Seq(BOOLEAN) /\ Len(st) = Len(re)
  BY <1>1, PushIs
<1>7. g = [f EXCEPT !.child = call, !.output = data, !.stack = st, !.real = re,
                    !.mem = mem, !.bytes = bytes]
  BY DEF Returned
<1>8. ASSUME FrameSound(f), Sound(call.ret, Padded(data)), ~ Kept(f, into, data),
             ~ OutOfPhase(into[1], 0) \/ \A i \in DOMAIN data : ~ data[i]
      PROVE  Sound(mem, bytes)
  <2>1. Sound(f.mem, f.bytes)
    BY <1>8 DEF FrameSound
  <2>2. \A u \in Units : Within(u, into) /\ u >= into[1] + n => ~ f.bytes[u]
    <3>1. \A u \in Units : Within(u, into) /\ u >= into[1] + Len(data) => ~ f.bytes[u]
      BY <1>8 DEF Kept
    <3>2. \A u \in Units : Within(u, into) /\ u >= into[1] + n => u >= into[1] + Len(data)
      BY <1>2 DEF Within, Units
    <3> QED
      BY <3>1, <3>2
  <2> HIDE DEF n
  <2> QED
    BY <1>1, <1>3, <1>4, <1>8, <2>1, <2>2, CopiedSound
<1>9. ASSUME FrameExact(f), Exact(call.ret, Padded(data)), Aligned(into)
      PROVE  Exact(mem, bytes)
  <2>1. Exact(f.mem, f.bytes)
    BY <1>9 DEF FrameExact
  <2>2. \A u \in Units :
          Within(u, <<0, into[2]>>) /\ call.ret[u \div Granularity] # UntaintedValue
            => Padded(data)[u] /\ u < 0 + n
    <3> SUFFICES ASSUME NEW u \in Units, Within(u, <<0, into[2]>>),
                        call.ret[u \div Granularity] # UntaintedValue
                 PROVE  Padded(data)[u] /\ u < 0 + n
      OBVIOUS
    <3>1. Padded(data)[u]
      BY <1>9 DEF Exact
    <3>2. u + 1 \in DOMAIN data
      BY <3>1 DEF Padded
    <3> QED
      BY <1>2, <3>1, <3>2 DEF Within, Units
  <2>3. Aligned(<<0, into[2]>>)
    BY <1>9, ZeroWord DEF Aligned
  <2> HIDE DEF n
  <2> QED
    BY <1>1, <1>3, <1>4, <1>9, <2>1, <2>2, <2>3, CopiedExact
<1>10. ASSUME Exact(call.ret, Padded(data))
       PROVE  \A u \in Units : u + 1 \in DOMAIN data =>
                (call.ret[u \div Granularity] # UntaintedValue => data[u + 1])
  BY <1>10 DEF Exact, Padded
<1> HIDE DEF mem, bytes, st, re, node, g
<1>11. /\ g \in Frames /\ SameCall(f, g) /\ g.wrote = f.wrote
       /\ g.stack = st /\ g.real = re /\ g.mem = mem /\ g.bytes = bytes
       /\ g.child = call /\ g.output = data /\ g.args = f.args /\ g.call = f.call
  BY <1>5, <1>6, <1>7 DEF Frames, SameCall
<1>12. ASSUME FrameSound(f), dep => node = "loaded", Sound(call.ret, Padded(data)),
              Sound(mem, bytes)
       PROVE  FrameSound(g)
  BY <1>1, <1>11, <1>12, BackSound DEF st, re
<1>13. ASSUME FrameExact(f), node # UntaintedValue => dep, Exact(call.ret, Padded(data)),
              Exact(mem, bytes)
       PROVE  FrameExact(g)
  BY <1>1, <1>10, <1>11, <1>13, BackExact DEF st, re
<1>14. Len(g.stack) = Len(g.real)
  BY <1>6, <1>11
<1> QED
  BY <1>8, <1>9, <1>11, <1>12, <1>13, <1>14 DEF g, node

LEMMA CreatedIs ==
  ASSUME NEW f \in Frames, Len(f.stack) = Len(f.real),
         NEW call \in Calls, NEW data \in Bits, NEW dep \in BOOLEAN
  PROVE  LET g == Created(f, call, data, dep) IN
         /\ g \in Frames /\ Len(g.stack) = Len(g.real)
         /\ SameCall(f, g) /\ g.wrote = f.wrote
         /\ FrameSound(f) /\ ~ dep /\ Sound(call.ret, Padded(data)) => FrameSound(g)
         /\ FrameExact(f) /\ Exact(call.ret, Padded(data)) => FrameExact(g)
         /\ FrameExact(f) /\ data = << >> => FrameExact(g)
<1> DEFINE g == Created(f, call, data, dep)
           st == <<UntaintedValue>> \o f.stack
           re == <<dep>> \o f.real
<1>1. f.stack \in Seq(Node) /\ f.real \in Seq(BOOLEAN) /\ UntaintedValue \in Node
  BY FrameTyped, BlankTyped
<1>2. st \in Seq(Node) /\ re \in Seq(BOOLEAN) /\ Len(st) = Len(re)
  BY <1>1, PushIs
<1>3. g = [f EXCEPT !.child = call, !.output = data, !.stack = st, !.real = re]
  BY DEF Created
<1> HIDE DEF st, re, g
<1>4. /\ g \in Frames /\ SameCall(f, g) /\ g.wrote = f.wrote
      /\ g.stack = st /\ g.real = re /\ g.mem = f.mem /\ g.bytes = f.bytes
      /\ g.child = call /\ g.output = data /\ g.args = f.args /\ g.call = f.call
  BY <1>2, <1>3 DEF Frames, SameCall
<1>5. ASSUME FrameSound(f), ~ dep, Sound(call.ret, Padded(data))
      PROVE  FrameSound(g)
  <2>1. Sound(g.mem, g.bytes) /\ Sound(g.child.ret, Padded(g.output))
    BY <1>4, <1>5 DEF FrameSound
  <2> QED
    BY <1>1, <1>4, <1>5, <2>1, BackSound DEF st, re
<1>6. ASSUME FrameExact(f), Exact(call.ret, Padded(data)) \/ data = << >>
      PROVE  FrameExact(g)
  <2>1. Exact(g.mem, g.bytes)
    BY <1>4, <1>6 DEF FrameExact
  <2>2. \A u \in Units : u + 1 \in DOMAIN data =>
          (call.ret[u \div Granularity] # UntaintedValue => data[u + 1])
    <3>1. CASE Exact(call.ret, Padded(data))
      BY <3>1 DEF Exact, Padded
    <3>2. CASE data = << >>
      BY <3>2
    <3> QED
      BY <1>6, <3>1, <3>2
  <2> QED
    BY <1>1, <1>4, <1>6, <2>1, <2>2, BackExact DEF st, re
<1>7. Len(g.stack) = Len(g.real)
  BY <1>2, <1>4
<1> QED
  BY <1>4, <1>5, <1>6, <1>7 DEF g

-----------------------------------------------------------------------------
(* Calls.                                                                  *)

LEMMA CalledIs ==
  ASSUME FlowInv, NEW op \in Offers, Called(op)
  PROVE  /\ op.name \in Kinds /\ op.n \in {0, 1} /\ op.at \in Accounts
         /\ op.args \in Spans /\ op.into \in Spans
         /\ op.n = 1 => op.name \in {"CALL", "CALLCODE", "CREATE"}
         /\ frames # << >> /\ op.n \in Nat /\ op.n <= Len(Top.real)
         /\ Arity(op) \in Nat /\ Arity(op) <= Len(Top.real)
         /\ sink' \in [seen : BOOLEAN, dep : BOOLEAN]
         /\ ~ lossy /\ sink'.dep => sink'.seen
         /\ ~ blurred /\ Aligned(op.args) /\ sink'.seen => sink'.dep
<1> DEFINE n == Arity(op)
<1>1. /\ op.name \in Kinds /\ Runs(op, op.name, n)
      /\ op.name \in {"DELEGATECALL", "STATICCALL"} => op.n = 0
      /\ sink' = Reported(Load(Top.mem, op.args) \cup Args(n),
                          Depends(Top.bytes, op.args) \/ Operands(n))
  BY DEF Called
<1>2. /\ op.n \in {0, 1} /\ op.at \in Accounts /\ op.args \in Spans /\ op.into \in Spans
      /\ op.n \in Nat /\ n \in Nat /\ op.n <= n
  <2>1. /\ op.n \in {0, 1} /\ op.to \in {0, 1} /\ op.at \in Accounts /\ op.args \in Spans
        /\ op.into \in Spans
    BY <1>1, OfferedIs, OperationIs
  <2>2. op.n \in Nat /\ n \in Nat /\ op.n <= n
    BY <2>1 DEF Arity
  <2> QED
    BY <2>1, <2>2
<1> HIDE DEF n
<1>3. frames # << >> /\ n <= Len(Top.real) /\ op.n <= Len(Top.real)
  BY <1>1, <1>2, Running
<1>4. op.n = 1 => op.name \in {"CALL", "CALLCODE", "CREATE"}
  BY <1>1 DEF Kinds
<1> DEFINE nodes == Load(Top.mem, op.args)
           dep == Depends(Top.bytes, op.args)
           blur == ~ Aligned(op.args)
<1>5. /\ dep \in BOOLEAN /\ blur \in BOOLEAN
      /\ ~ lossy /\ dep => "loaded" \in nodes
      /\ ~ blurred /\ ~ blur /\ Tainted(nodes) => dep
  BY <1>2, <1>3, MemoryLoad
<1>6. sink' = Reported(nodes \cup Args(n), dep \/ Operands(n))
  BY <1>1
<1> HIDE DEF nodes, dep
<1>7. /\ sink' \in [seen : BOOLEAN, dep : BOOLEAN]
      /\ ~ lossy /\ sink'.dep => sink'.seen
      /\ ~ blurred /\ ~ blur /\ sink'.seen => sink'.dep
  BY <1>2, <1>3, <1>5, <1>6, SinkIs
<1> QED
  BY <1>1, <1>2, <1>3, <1>4, <1>7 DEF n

LEMMA CallingIs ==
  ASSUME FlowInv, NEW op \in Offers, Calling(op)
  PROVE  /\ op.name \in Kinds /\ op.n \in {0, 1} /\ op.at \in Accounts
         /\ op.args \in Spans /\ op.into \in Spans
         /\ op.n = 1 => op.name \in {"CALL", "CALLCODE", "CREATE"}
         /\ frames # << >> /\ op.n \in Nat /\ op.n <= Len(Top.real)
         /\ Arity(op) \in Nat /\ Arity(op) <= Len(Top.real)
         /\ tracker' = Paid(op) /\ program' = program /\ sources' = sources
         /\ sink' \in [seen : BOOLEAN, dep : BOOLEAN]
         /\ ~ lossy /\ sink'.dep => sink'.seen
         /\ ~ blurred /\ Aligned(op.args) /\ sink'.seen => sink'.dep
<1>1. Called(op) /\ tracker' = Paid(op) /\ program' = program /\ sources' = sources
  BY DEF Calling
<1> QED
  BY <1>1, CalledIs

LEMMA SpentIs ==
  ASSUME FlowInv, NEW op \in Offers, Calling(op)
  PROVE  /\ Spent(op) \in Chain
         /\ Spent(op).slot = chain.slot /\ Spent(op).code = chain.code
         /\ op.n = 0 => Spent(op) = chain
         /\ \A a \in Accounts : Spent(op).balance[a] <=>
              \/ chain.balance[a]
              \/ op.n = 1 /\ op.name # "CALLCODE" /\ a \in {Top.self, op.at} /\ Top.real[1]
<1>1. chain \in Chain /\ op.n \in {0, 1}
  BY ChainIs, CallingIs
<1>2. \A a \in Accounts : chain.balance[a] \in BOOLEAN
  BY <1>1 DEF Chain
<1>3. CASE op.n = 0 \/ op.name = "CALLCODE"
  BY <1>1, <1>2, <1>3 DEF Spent
<1>4. CASE op.n = 1 /\ op.name # "CALLCODE"
  <2> DEFINE b == [a \in Accounts |->
                     chain.balance[a] \/ (a \in {Top.self, op.at} /\ Top.real[1])]
  <2>1. Spent(op) = [chain EXCEPT !.balance = b]
    BY <1>4 DEF Spent
  <2>2. Top.real[1] \in BOOLEAN
    BY <1>4, CallingIs, OperandIs
  <2>3. b \in [Accounts -> BOOLEAN]
    BY <1>2, <2>2
  <2>4. \A a \in Accounts :
          b[a] <=> chain.balance[a] \/ (a \in {Top.self, op.at} /\ Top.real[1])
    OBVIOUS
  <2> HIDE DEF b
  <2>5. /\ Spent(op) \in Chain /\ Spent(op).balance = b
        /\ Spent(op).slot = chain.slot /\ Spent(op).code = chain.code
    BY <1>1, <2>1, <2>3 DEF Chain
  <2> QED
    BY <1>4, <2>4, <2>5
<1> QED
  BY <1>1, <1>3, <1>4

LEMMA PaidIs ==
  ASSUME FlowInv, NEW op \in Offers, Called(op)
  PROVE  /\ Paid(op) \in Tracker
         /\ Paid(op).slot = tracker.slot /\ Paid(op).code = tracker.code
         /\ \A a \in Accounts : Paid(op).balance[a] =
              IF /\ op.n = 1 /\ op.name # "CREATE"
                 /\ a = Top.self \/ (op.name = "CALL" /\ a = op.at)
              THEN Top.stack[1] ELSE tracker.balance[a]
<1>1. tracker \in Tracker /\ op.n \in {0, 1}
  BY ChainIs, CalledIs
<1>2. CASE op.n = 0 \/ op.name = "CREATE"
  BY <1>1, <1>2 DEF Paid
<1>3. CASE op.n = 1 /\ op.name # "CREATE"
  <2> DEFINE b == [a \in Accounts |->
                     IF a = Top.self \/ (op.name = "CALL" /\ a = op.at)
                     THEN Top.stack[1] ELSE tracker.balance[a]]
  <2>1. Paid(op) = [tracker EXCEPT !.balance = b]
    BY <1>3 DEF Paid
  <2>2. Top.stack[1] \in Node
    BY <1>3, CalledIs, OperandIs
  <2>3. b \in [Accounts -> Node]
    BY <1>1, <2>2 DEF Tracker
  <2>4. \A a \in Accounts :
          b[a] = IF a = Top.self \/ (op.name = "CALL" /\ a = op.at)
                 THEN Top.stack[1] ELSE tracker.balance[a]
    OBVIOUS
  <2> HIDE DEF b
  <2>5. /\ Paid(op) \in Tracker /\ Paid(op).balance = b
        /\ Paid(op).slot = tracker.slot /\ Paid(op).code = tracker.code
    BY <1>1, <2>1, <2>3 DEF Tracker
  <2> QED
    BY <1>3, <2>4, <2>5
<1> QED
  BY <1>1, <1>2, <1>3

\* The balances after a payment, and after one that the EVM did not make.
LEMMA PaidSound ==
  ASSUME FlowInv, NEW op \in Offers, Calling(op), ~ lossy, ~ PayLoses(op)
  PROVE  ChainSound(Paid(op), Spent(op)) /\ ChainSound(Paid(op), chain)
<1>1. ChainSound(tracker, chain) /\ op.n \in {0, 1} /\ op.name \in Kinds
  BY ChainIs, CallingIs
<1>2. op.n = 1 => Top.real[1] \in BOOLEAN /\ (Top.real[1] => Top.stack[1] = "loaded")
  BY CallingIs, OperandIs
<1>3. op.n = 1 => op.name \in {"CALL", "CALLCODE", "CREATE"}
  BY CallingIs
<1>4. op.n = 1 => IF op.name = "CREATE" THEN ~ Top.real[1]
                  ELSE ~ chain.balance[Top.self]
                         /\ (op.name = "CALL" => ~ chain.balance[op.at])
  BY DEF PayLoses
<1>5. \A a \in Accounts :
        /\ chain.slot[a] => tracker.slot[Place(a)] = "loaded"
        /\ chain.balance[a] => tracker.balance[a] = "loaded"
        /\ chain.code[a] => tracker.code[a] = "loaded"
  BY <1>1 DEF ChainSound
<1>6. \A a \in Accounts : Spent(op).balance[a] => Paid(op).balance[a] = "loaded"
  BY <1>1, <1>2, <1>3, <1>4, <1>5, SpentIs, PaidIs DEF Calling
<1>7. \A a \in Accounts : chain.balance[a] => Paid(op).balance[a] = "loaded"
  BY <1>6, SpentIs
<1>8. /\ Spent(op).slot = chain.slot /\ Spent(op).code = chain.code
      /\ Paid(op).slot = tracker.slot /\ Paid(op).code = tracker.code
  BY SpentIs, PaidIs DEF Calling
<1> QED
  BY <1>5, <1>6, <1>7, <1>8 DEF ChainSound

LEMMA PaidExact ==
  ASSUME FlowInv, NEW op \in Offers, Calling(op), ~ blurred,
         ~ (op.n = 1 /\ op.name = "CALLCODE")
  PROVE  ChainExact(Paid(op), Spent(op))
<1>1. ChainExact(tracker, chain) /\ op.n \in {0, 1}
  BY ChainIs, CallingIs
<1>2. op.n = 1 => Top.real[1] \in BOOLEAN /\ (Top.stack[1] # UntaintedValue => Top.real[1])
  BY CallingIs, OperandIs
<1>3. \A a \in Accounts :
        /\ tracker.slot[Place(a)] # UntaintedValue => chain.slot[a]
        /\ tracker.balance[a] # UntaintedValue => chain.balance[a]
        /\ tracker.code[a] # UntaintedValue => chain.code[a]
  BY <1>1 DEF ChainExact
<1>4. \A a \in Accounts : Paid(op).balance[a] # UntaintedValue => Spent(op).balance[a]
  BY <1>1, <1>2, <1>3, SpentIs, PaidIs DEF Calling
<1>5. /\ Spent(op).slot = chain.slot /\ Spent(op).code = chain.code
      /\ Paid(op).slot = tracker.slot /\ Paid(op).code = tracker.code
  BY SpentIs, PaidIs DEF Calling
<1> QED
  BY <1>3, <1>4, <1>5 DEF ChainExact

\* The call data of a callee.
LEMMA ChildIs ==
  ASSUME FlowInv, NEW op \in Offers, Calling(op)
  PROVE  /\ Child(op) \in Calls /\ Child(op).ret = Blank
         /\ Child(op).success = UntaintedValue
         /\ Child(op).data = Taken(Top.mem, op.args)
         /\ CallSource(op) \in BOOLEAN
         /\ Child(op).source = IF CallSource(op) THEN "loaded" ELSE UntaintedValue
         /\ GetSuccess(Child(op)) = IF CallSource(op) THEN "loaded" ELSE UntaintedValue
         /\ ~ lossy /\ ~ OutOfPhase(op.args[1], 0) =>
              Sound(Child(op).data, Padded(Section(Top.bytes, op.args)))
         /\ ~ blurred /\ Aligned(op.args) =>
              Exact(Child(op).data, Padded(Section(Top.bytes, op.args)))
<1>1. op.args \in Spans /\ frames # << >> /\ op.n \in Nat /\ op.n <= Len(Top.real)
  BY CallingIs
<1>2. /\ Top.mem \in Memory /\ Top.bytes \in [Units -> BOOLEAN]
      /\ ~ lossy => Sound(Top.mem, Top.bytes)
      /\ ~ blurred => Exact(Top.mem, Top.bytes)
  BY <1>1, PoppedMemory
<1> DEFINE data == Taken(Top.mem, op.args)
           source == IF CallSource(op) THEN "loaded" ELSE UntaintedValue
<1>3. data \in Memory
  BY <1>1, <1>2, TakenTyped
<1>4. Child(op) = [data |-> data, ret |-> Blank, success |-> UntaintedValue, source |-> source]
  BY DEF Child, NewCall
<1>5. /\ ~ lossy /\ ~ OutOfPhase(op.args[1], 0) =>
           Sound(data, Padded(Section(Top.bytes, op.args)))
      /\ ~ blurred /\ Aligned(op.args) => Exact(data, Padded(Section(Top.bytes, op.args)))
  BY <1>1, <1>2, TakenSound, TakenExact
<1>6. source \in {UntaintedValue, "loaded"} /\ CallSource(op) \in BOOLEAN
  BY DEF CallSource, Source
<1>7. Blank \in Memory /\ UntaintedValue \in Node
  BY BlankTyped
<1> HIDE DEF data, source
<1>8. /\ Child(op) \in Calls /\ Child(op).ret = Blank /\ Child(op).success = UntaintedValue
      /\ Child(op).data = data /\ Child(op).source = source
      /\ GetSuccess(Child(op)) = source
  BY <1>3, <1>4, <1>6, <1>7 DEF Calls, GetSuccess
<1> QED
  BY <1>5, <1>6, <1>8 DEF data, source

\* No data, and none that depends on a source.
LEMMA BlankIs ==
  /\ \A data : (\A i \in DOMAIN data : ~ data[i]) => Sound(Blank, Padded(data))
  /\ \A bytes : Exact(Blank, bytes)
  /\ Clean \in [Units -> BOOLEAN] /\ Sound(Blank, Clean)
  /\ << >> \in Bits
<1>1. \A w \in 0 .. Words - 1 : Blank[w] = UntaintedValue
  BY DEF Blank
<1>2. \A bytes : Exact(Blank, bytes)
  BY <1>1, UnitWord DEF Exact
<1>3. \A data : (\A i \in DOMAIN data : ~ data[i]) => Sound(Blank, Padded(data))
  BY DEF Sound, Padded
<1>4. Clean \in [Units -> BOOLEAN] /\ Sound(Blank, Clean)
  BY DEF Clean, Sound
<1>5. << >> \in Bits
  BY Sizes DEF Bits
<1> QED
  BY <1>2, <1>3, <1>4, <1>5

LEMMA CallOutStep ==
  ASSUME FlowInv, NEW op \in Offers, NEW outcome \in {"output", "empty", "failed"},
         CallOut(op, outcome)
  PROVE  FlowInv'
<1> DEFINE n == op.n
           f == Popped(Arity(op))
           given == Depends(Top.bytes, op.args)
           data == IF outcome = "output" THEN [i \in 1 .. op.into[2] |-> given] ELSE << >>
           dep == CallSource(op)
           h == Returned(f, op.into, Child(op), data, dep)
           g == [h EXCEPT !.wrote = @ \/ n = 1]
           blur == n = 1 /\ (op.name = "CALLCODE" \/ outcome = "failed")
<1>1. Calling(op)
  BY DEF CallOut
<1>2. /\ n \in {0, 1} /\ op.args \in Spans /\ op.into \in Spans
      /\ frames # << >> /\ Arity(op) \in Nat /\ Arity(op) <= Len(Top.real)
      /\ tracker' = Paid(op) /\ program' = program /\ sources' = sources
      /\ sink' \in [seen : BOOLEAN, dep : BOOLEAN]
      /\ ~ lossy /\ sink'.dep => sink'.seen
      /\ ~ blurred /\ Aligned(op.args) /\ sink'.seen => sink'.dep
  BY <1>1, CallingIs
<1>3. /\ frames' = [frames EXCEPT ![Len(frames)] = g]
      /\ lossy' = (lossy \/ PayLoses(op) \/ Kept(Top, op.into, data) \/ (data # << >> /\ given))
      /\ chain' = IF outcome = "failed" THEN chain ELSE Spent(op)
      /\ blurred' = (blurred \/ ~ Aligned(op.args) \/ ~ Aligned(op.into) \/ dep \/ blur)
  BY DEF CallOut
<1>4. /\ f \in Frames /\ Len(f.stack) = Len(f.real) /\ SameCall(Top, f)
      /\ f.bytes = Top.bytes
      /\ ~ lossy => FrameSound(f)
      /\ ~ blurred => FrameExact(f)
  BY <1>2, PoppedIs DEF SameData
<1>5. /\ Child(op) \in Calls /\ Child(op).ret = Blank /\ dep \in BOOLEAN
      /\ GetSuccess(Child(op)) = IF dep THEN "loaded" ELSE UntaintedValue
  BY <1>1, ChildIs
<1>6. given \in BOOLEAN /\ op.into[2] \in Nat /\ op.into[2] <= Size
  BY <1>2, SpanTyped, Sizes DEF Depends
<1>7. /\ data \in Bits
      /\ \A i \in DOMAIN data : data[i] = given
      /\ data = << >> => DOMAIN data = {}
  <2>1. CASE outcome = "output"
    <3> DEFINE d == [i \in 1 .. op.into[2] |-> given]
    <3>1. d \in Seq(BOOLEAN) /\ Len(d) = op.into[2]
      BY <1>6
    <3>2. data = d
      BY <2>1
    <3> QED
      BY <1>6, <3>1, <3>2 DEF Bits
  <2>2. CASE outcome # "output"
    BY <2>2, BlankIs
  <2> QED
    BY <2>1, <2>2
<1> HIDE DEF n, f, given, data, dep, blur
<1>8. /\ h \in Frames /\ Len(h.stack) = Len(h.real) /\ SameCall(f, h) /\ h.wrote = f.wrote
      /\ FrameSound(f) /\ (dep => GetSuccess(Child(op)) = "loaded")
           /\ Sound(Child(op).ret, Padded(data)) /\ ~ Kept(f, op.into, data)
           /\ (~ OutOfPhase(op.into[1], 0) \/ \A i \in DOMAIN data : ~ data[i])
           => FrameSound(h)
      /\ FrameExact(f) /\ (GetSuccess(Child(op)) # UntaintedValue => dep)
           /\ Exact(Child(op).ret, Padded(data)) /\ Aligned(op.into)
           => FrameExact(h)
  BY <1>2, <1>4, <1>5, <1>7, ReturnedIs
<1> HIDE DEF h
<1>9. ASSUME ~ lossy' PROVE FrameSound(h)
  <2>1. \A i \in DOMAIN data : ~ data[i]
    BY <1>3, <1>7, <1>9
  <2>2. Sound(Child(op).ret, Padded(data))
    BY <1>5, <2>1, BlankIs
  <2>3. ~ Kept(f, op.into, data)
    BY <1>3, <1>4, <1>9 DEF Kept
  <2> QED
    BY <1>3, <1>4, <1>5, <1>8, <1>9, <2>1, <2>2, <2>3
<1>10. ASSUME ~ blurred' PROVE FrameExact(h)
  <2>1. Exact(Child(op).ret, Padded(data))
    BY <1>5, BlankIs
  <2> QED
    BY <1>3, <1>4, <1>5, <1>8, <1>10, <2>1
<1>11. /\ g \in Frames /\ SameCall(h, g) /\ g.wrote = (h.wrote \/ n = 1)
       /\ g.mem = h.mem /\ g.bytes = h.bytes /\ g.args = h.args /\ g.call = h.call
       /\ g.child = h.child /\ g.output = h.output /\ g.stack = h.stack /\ g.real = h.real
  <2>1. h.wrote \in BOOLEAN
    BY <1>8, FrameTyped
  <2> QED
    BY <1>8, <2>1 DEF Frames, SameCall
<1> HIDE DEF g
<1>12. (FrameSound(h) => FrameSound(g)) /\ (FrameExact(h) => FrameExact(g))
  BY <1>11 DEF FrameSound, FrameExact
<1>13. SameCall(Top, g) /\ Len(g.stack) = Len(g.real)
  BY <1>4, <1>8, <1>11 DEF SameCall
<1>14. g.wrote \/ chain' = chain
  BY <1>1, <1>2, <1>3, <1>11, SpentIs DEF n
<1>15. /\ tracker' \in Tracker /\ chain' \in Chain
       /\ \A a \in Accounts : chain.balance[a] => chain'.balance[a]
  BY <1>1, <1>2, <1>3, SpentIs, PaidIs, ChainIs DEF Calling
<1>16. ~ lossy' => ChainSound(tracker', chain')
  BY <1>1, <1>2, <1>3, PaidSound
<1>17. ~ blurred' => ChainExact(tracker', chain')
  <2> SUFFICES ASSUME ~ blurred' PROVE ChainExact(tracker', chain')
    OBVIOUS
  <2>1. ~ blurred /\ ~ blur
    BY <1>3
  <2>2. ~ (n = 1 /\ op.name = "CALLCODE") /\ (outcome = "failed" => n = 0)
    BY <1>2, <2>1 DEF blur
  <2>3. chain' = Spent(op)
    BY <1>1, <1>3, <2>2, SpentIs DEF n
  <2> QED
    BY <1>1, <1>2, <2>1, <2>2, <2>3, PaidExact DEF n
<1>18. /\ lossy' \in BOOLEAN /\ blurred' \in BOOLEAN /\ (lossy => lossy') /\ (blurred => blurred')
       /\ ~ blurred' => Aligned(op.args)
  BY <1>3, ChainIs DEF PayLoses, Kept, Aligned
<1>19. /\ ~ lossy' => FrameSound(g) /\ (sink'.dep => sink'.seen)
       /\ ~ blurred' => FrameExact(g) /\ (sink'.seen => sink'.dep)
  BY <1>2, <1>9, <1>10, <1>12, <1>18
<1> QED
  BY <1>2, <1>3, <1>11, <1>13, <1>14, <1>15, <1>16, <1>17, <1>18, <1>19, TopStep

-----------------------------------------------------------------------------
(* A callee begins.                                                        *)

\* The frame that Enter opens.
Callee(op) ==
  LET self == IF op.name \in {"CALL", "STATICCALL", "CREATE"} THEN op.at ELSE Top.self
  IN  [Frame(op.name, self, op.at, self, Top.static \/ op.name = "STATICCALL", Child(op),
             IF op.name = "CREATE" THEN << >> ELSE Section(Top.bytes, op.args))
         EXCEPT !.into = op.into, !.wrote = (op.n = 1 \/ op.name = "CREATE"),
                !.paid = IF op.n = 1 THEN Top.stack[1] ELSE UntaintedValue,
                !.value = (op.n = 1 /\ Top.real[1])]

LEMMA FrameIs ==
  ASSUME NEW kind \in Kinds, NEW self \in Accounts, NEW code \in Accounts,
         NEW store \in Accounts \cup {"root"}, NEW static \in BOOLEAN,
         NEW call \in Calls, NEW args \in Bits, chain \in Chain
  PROVE  LET f == Frame(kind, self, code, store, static, call, args) IN
         /\ f \in Frames /\ f.stack = << >> /\ f.real = << >> /\ f.kind = kind
         /\ f.self = self /\ f.store = store /\ f.call = call /\ f.before = chain
         /\ f.mem = Blank /\ f.bytes = Clean /\ f.child = NewCall(Blank, UntaintedValue)
         /\ f.output = << >> /\ f.args = args /\ f.paid = UntaintedValue
<1> DEFINE child == NewCall(Blank, UntaintedValue)
           stack == << >>
           into == <<0, 0>>
<1>1. /\ Blank \in Memory /\ Clean \in [Units -> BOOLEAN] /\ << >> \in Bits
      /\ stack \in Seq(Node) /\ stack \in Seq(BOOLEAN) /\ UntaintedValue \in Node
      /\ into \in Spans
  BY BlankTyped, BlankIs, Sizes DEF Spans
<1>2. child \in Calls
  BY <1>1 DEF NewCall, Calls
<1> HIDE DEF child, stack, into
<1>3. Frame(kind, self, code, store, static, call, args) =
        [kind |-> kind, self |-> self, code |-> code, store |-> store, static |-> static,
         pc |-> 1, stack |-> stack, real |-> stack, mem |-> Blank, bytes |-> Clean,
         call |-> call, args |-> args, paid |-> UntaintedValue, value |-> FALSE,
         child |-> child, output |-> << >>, into |-> into, wrote |-> FALSE, before |-> chain]
  BY DEF Frame, child, stack, into
<1>4. Frame(kind, self, code, store, static, call, args) \in Frames
  BY <1>1, <1>2, <1>3 DEF Frames
<1> QED
  BY <1>3, <1>4 DEF stack, child

\* Two frames of one call that differ in what becomes of it only.
SameBody(f, g) ==
  /\ g.stack = f.stack /\ g.real = f.real /\ g.kind = f.kind /\ g.self = f.self
  /\ g.store = f.store /\ g.call = f.call /\ g.before = f.before /\ g.mem = f.mem
  /\ g.bytes = f.bytes /\ g.child = f.child /\ g.output = f.output /\ g.args = f.args

LEMMA CalleeIs ==
  ASSUME FlowInv, NEW op \in Offers, Calling(op)
  PROVE  LET h == Callee(op) IN
         /\ h \in Frames /\ h.stack = << >> /\ h.real = << >> /\ h.kind = op.name
         /\ h.self = (IF op.name \in {"CALL", "STATICCALL", "CREATE"} THEN op.at ELSE Top.self)
         /\ h.store = h.self /\ h.call = Child(op) /\ h.before = chain
         /\ h.mem = Blank /\ h.bytes = Clean /\ h.child = NewCall(Blank, UntaintedValue)
         /\ h.output = << >>
         /\ h.args = (IF op.name = "CREATE" THEN << >> ELSE Section(Top.bytes, op.args))
         /\ h.wrote = (op.n = 1 \/ op.name = "CREATE")
         /\ h.paid = IF op.n = 1 THEN Top.stack[1] ELSE UntaintedValue
<1> DEFINE self == IF op.name \in {"CALL", "STATICCALL", "CREATE"} THEN op.at ELSE Top.self
           static == Top.static \/ op.name = "STATICCALL"
           args == IF op.name = "CREATE" THEN << >> ELSE Section(Top.bytes, op.args)
           wrote == op.n = 1 \/ op.name = "CREATE"
           paid == IF op.n = 1 THEN Top.stack[1] ELSE UntaintedValue
           value == op.n = 1 /\ Top.real[1]
           call == Child(op)
           f == Frame(op.name, self, op.at, self, static, call, args)
<1>1. /\ op.name \in Kinds /\ op.n \in {0, 1} /\ op.at \in Accounts
      /\ op.args \in Spans /\ op.into \in Spans /\ frames # << >> /\ op.n <= Len(Top.real)
  BY CallingIs
<1>2. /\ Top \in Frames /\ Top.self \in Accounts /\ Top.static \in BOOLEAN
      /\ Top.bytes \in [Units -> BOOLEAN]
  BY <1>1, TopIs, FrameTyped
<1>3. self \in Accounts /\ static \in BOOLEAN /\ wrote \in BOOLEAN
  BY <1>1, <1>2
<1>4. args \in Bits
  BY <1>1, <1>2, SectionTyped, BlankIs
<1>5. paid \in Node /\ value \in BOOLEAN
  BY <1>1, OperandIs, BlankTyped
<1>6. call \in Calls /\ chain \in Chain /\ self \in Accounts \cup {"root"}
  BY <1>3, ChildIs, ChainIs
<1>7. Callee(op) = [f EXCEPT !.into = op.into, !.wrote = wrote, !.paid = paid, !.value = value]
  BY DEF Callee
<1> HIDE DEF self, static, args, wrote, paid, value, call
<1>8. /\ f \in Frames /\ f.stack = << >> /\ f.real = << >> /\ f.kind = op.name
      /\ f.self = self /\ f.store = self /\ f.call = call /\ f.before = chain
      /\ f.mem = Blank /\ f.bytes = Clean /\ f.child = NewCall(Blank, UntaintedValue)
      /\ f.output = << >> /\ f.args = args
  BY <1>1, <1>3, <1>4, <1>6, FrameIs
<1> HIDE DEF f
<1> DEFINE g == Callee(op)
<1>9. /\ g \in Frames /\ g.stack = f.stack /\ g.real = f.real /\ g.kind = f.kind
      /\ g.self = f.self /\ g.store = f.store /\ g.call = f.call /\ g.before = f.before
      /\ g.mem = f.mem /\ g.bytes = f.bytes /\ g.child = f.child
      /\ g.output = f.output /\ g.args = f.args /\ g.wrote = wrote /\ g.paid = paid
  <2> DEFINE f1 == [f EXCEPT !.into = op.into]
             f2 == [f1 EXCEPT !.wrote = wrote]
             f3 == [f2 EXCEPT !.paid = paid]
             f4 == [f3 EXCEPT !.value = value]
  <2>1. g = f4
    BY <1>7
  <2> HIDE DEF g
  <2>2. f1 \in Frames /\ SameBody(f, f1)
    BY <1>1, <1>8 DEF Frames, SameBody
  <2> HIDE DEF f1
  <2>3. f2 \in Frames /\ SameBody(f1, f2) /\ f2.wrote = wrote
    BY <1>3, <2>2 DEF Frames, SameBody
  <2> HIDE DEF f2
  <2>4. f3 \in Frames /\ SameBody(f2, f3) /\ f3.wrote = f2.wrote /\ f3.paid = paid
    BY <1>5, <2>3 DEF Frames, SameBody
  <2> HIDE DEF f3
  <2>5. f4 \in Frames /\ SameBody(f3, f4) /\ f4.wrote = f3.wrote /\ f4.paid = f3.paid
    BY <1>5, <2>4 DEF Frames, SameBody
  <2> HIDE DEF f4
  <2>6. SameBody(f, f4)
    BY <2>2, <2>3, <2>4, <2>5 DEF SameBody
  <2>7. f4.wrote = wrote /\ f4.paid = paid
    BY <2>3, <2>4, <2>5, Zenon
  <2> QED
    BY <2>1, <2>5, <2>6, <2>7, Zenon DEF SameBody
<1> HIDE DEF g
<1>10. /\ g.self = self /\ g.store = g.self /\ g.call = call /\ g.args = args
       /\ g.stack = << >> /\ g.real = << >> /\ g.kind = op.name /\ g.before = chain
       /\ g.mem = Blank /\ g.bytes = Clean /\ g.child = NewCall(Blank, UntaintedValue)
       /\ g.output = << >>
  BY <1>8, <1>9, Zenon
<1>11. /\ g.self = (IF op.name \in {"CALL", "STATICCALL", "CREATE"} THEN op.at ELSE Top.self)
       /\ g.args = (IF op.name = "CREATE" THEN << >> ELSE Section(Top.bytes, op.args))
  BY <1>10, Zenon DEF self, args
<1>12. g.wrote = (op.n = 1 \/ op.name = "CREATE")
  BY <1>9, Zenon DEF wrote
<1>13. g.paid = IF op.n = 1 THEN Top.stack[1] ELSE UntaintedValue
  BY <1>9, Zenon DEF paid
<1>14. g.call = Child(op)
  BY <1>10, Zenon DEF call
<1>15. g \in Frames
  BY <1>9, Zenon
<1> QED
  BY <1>10, <1>11, <1>12, <1>13, <1>14, <1>15, Zenon DEF g

LEMMA NoBits == \A u \in Units : ~ Padded(<< >>)[u]
<1> DEFINE none == << >>
<1>1. DOMAIN none = {}
  OBVIOUS
<1> HIDE DEF none
<1>2. \A u \in Units : ~ Padded(none)[u]
  BY <1>1 DEF Padded
<1> QED
  BY <1>2 DEF none

LEMMA CalleeSound ==
  ASSUME FlowInv, NEW op \in Offers, Calling(op), ~ lossy, ~ OutOfPhase(op.args[1], 0)
  PROVE  FrameSound(Callee(op))
<1> DEFINE h == Callee(op)
<1>1. /\ h.stack = << >> /\ h.call = Child(op) /\ h.mem = Blank /\ h.bytes = Clean
      /\ h.child = NewCall(Blank, UntaintedValue) /\ h.output = << >>
      /\ h.args = (IF op.name = "CREATE" THEN << >> ELSE Section(Top.bytes, op.args))
  BY CalleeIs
<1> HIDE DEF h
<1>2. Sound(Child(op).data, Padded(Section(Top.bytes, op.args)))
  BY ChildIs
<1>3. Sound(h.call.data, Padded(h.args))
  <2>1. CASE op.name = "CREATE"
    BY <1>1, <2>1, NoBits DEF Sound
  <2>2. CASE op.name # "CREATE"
    BY <1>1, <1>2, <2>2
  <2> QED
    BY <2>1, <2>2
<1>4. Sound(h.child.ret, Padded(h.output)) /\ Sound(h.mem, h.bytes)
  BY <1>1, BlankIs DEF NewCall
<1> QED
  BY <1>1, <1>3, <1>4 DEF FrameSound, h

LEMMA CalleeExact ==
  ASSUME FlowInv, NEW op \in Offers, Calling(op), ~ blurred, Aligned(op.args),
         ~ CallSource(op), ~ (op.name = "CREATE" /\ Load(Top.mem, op.args) # {})
  PROVE  FrameExact(Callee(op))
<1> DEFINE h == Callee(op)
<1>1. /\ h.stack = << >> /\ h.call = Child(op) /\ h.mem = Blank /\ h.bytes = Clean
      /\ h.child = NewCall(Blank, UntaintedValue) /\ h.output = << >>
      /\ h.args = (IF op.name = "CREATE" THEN << >> ELSE Section(Top.bytes, op.args))
  BY CalleeIs
<1> HIDE DEF h
<1>2. /\ Exact(Child(op).data, Padded(Section(Top.bytes, op.args)))
      /\ Child(op).data = Taken(Top.mem, op.args)
      /\ Child(op).source = UntaintedValue
  BY ChildIs
<1>3. Exact(h.call.data, Padded(h.args))
  <2>1. CASE op.name = "CREATE"
    <3>1. \A w \in 0 .. Words - 1 : Taken(Top.mem, op.args)[w] = UntaintedValue
      BY <2>1 DEF Taken, Load
    <3> QED
      BY <1>1, <1>2, <3>1, UnitWord DEF Exact
  <2>2. CASE op.name # "CREATE"
    BY <1>1, <1>2, <2>2
  <2> QED
    BY <2>1, <2>2
<1>4. Exact(h.mem, h.bytes)
  BY <1>1, BlankIs
<1> QED
  BY <1>1, <1>2, <1>3, <1>4 DEF FrameExact, h

LEMMA EnterStep ==
  ASSUME FlowInv, NEW op \in Offers, Enter(op)
  PROVE  FlowInv'
<1> DEFINE n == Len(frames)
           f == Popped(Arity(op))
           h == Callee(op)
<1>1. Calling(op)
  BY DEF Enter
<1>2. /\ op.name \in Kinds /\ op.n \in {0, 1} /\ op.at \in Accounts
      /\ op.args \in Spans /\ frames # << >>
      /\ Arity(op) \in Nat /\ Arity(op) <= Len(Top.real)
      /\ op.n \in Nat /\ op.n <= Len(Top.real)
      /\ tracker' = Paid(op) /\ program' = program /\ sources' = sources
      /\ sink' \in [seen : BOOLEAN, dep : BOOLEAN]
      /\ ~ lossy /\ sink'.dep => sink'.seen
      /\ ~ blurred /\ Aligned(op.args) /\ sink'.seen => sink'.dep
  BY <1>1, CallingIs
<1>3. /\ frames' = Append([frames EXCEPT ![n] = f], h)
      /\ chain' = Spent(op)
      /\ lossy' = (lossy \/ OutOfPhase(op.args[1], 0) \/ PayLoses(op)
                     \/ (op.name = "CREATE" /\ CallSource(op)))
      /\ blurred' = (blurred \/ ~ Aligned(op.args) \/ CallSource(op)
                       \/ (op.n = 1 /\ op.name = "CALLCODE")
                       \/ (op.name = "CREATE" /\ Load(Top.mem, op.args) # {}))
  <2> HIDE DEF n, f
  <2> QED
    BY DEF Enter, Callee, n, f
<1>4. /\ f \in Frames /\ Len(f.stack) = Len(f.real) /\ SameCall(Top, f) /\ f.wrote = Top.wrote
      /\ ~ lossy => FrameSound(f)
      /\ ~ blurred => FrameExact(f)
  BY <1>2, PoppedIs DEF SameData
<1>5. /\ h \in Frames /\ h.stack = << >> /\ h.real = << >> /\ h.kind = op.name
      /\ h.self = (IF op.name \in {"CALL", "STATICCALL", "CREATE"} THEN op.at ELSE Top.self)
      /\ h.store = h.self /\ h.call = Child(op) /\ h.before = chain
      /\ h.wrote = (op.n = 1 \/ op.name = "CREATE")
      /\ h.paid = IF op.n = 1 THEN Top.stack[1] ELSE UntaintedValue
  BY <1>1, CalleeIs
<1>6. /\ Child(op).ret = Blank /\ Child(op).success = UntaintedValue
      /\ Child(op).source = IF CallSource(op) THEN "loaded" ELSE UntaintedValue
      /\ CallSource(op) \in BOOLEAN
  BY <1>1, ChildIs
<1>7. ~ lossy' => FrameSound(h)
  BY <1>1, <1>3, CalleeSound
<1>8. ~ blurred' => FrameExact(h)
  BY <1>1, <1>3, CalleeExact
<1>9. n \in Nat \ {0} /\ n \in DOMAIN frames /\ Top = frames[n]
  BY <1>2, TopIs
<1> HIDE DEF f, h
<1>10. /\ frames' \in Seq(Frames) /\ Len(frames') = n + 1 /\ DOMAIN frames' = 1 .. n + 1
       /\ DOMAIN frames = 1 .. n
       /\ \A i \in 1 .. n + 1 :
            frames'[i] = IF i = n + 1 THEN h ELSE IF i = n THEN f ELSE frames[i]
  <2> DEFINE s == [frames EXCEPT ![n] = f]
  <2>1. /\ s \in Seq(Frames) /\ Len(s) = n
        /\ \A i \in 1 .. n : s[i] = IF i = n THEN f ELSE frames[i]
    BY <1>4, <1>9, FlowTyped
  <2>2. frames' = Append(s, h)
    BY <1>3
  <2> HIDE DEF s, n
  <2> QED
    BY <1>5, <1>9, <2>1, <2>2, FlowTyped DEF n
<1> HIDE DEF n
<1>11. /\ \A i \in 1 .. n + 1 : i = n + 1 \/ i \in 1 .. n
       /\ \A i \in 1 .. n : i \in 1 .. n + 1 /\ i # n + 1 /\ i + 1 \in 1 .. n + 1
       /\ \A i \in 1 .. n : i # n => i + 1 \in 1 .. n
       /\ n + 1 # 1 /\ n + 1 \in 1 .. n + 1
  BY <1>9
<1>12. \A i \in 1 .. n : SameCall(frames[i], frames'[i]) /\ frames'[i].wrote = frames[i].wrote
  BY <1>4, <1>9, <1>10, <1>11 DEF SameCall
<1>13. /\ \A i \in 1 .. n + 1 :
            ChainAt(i)' = IF i = n + 1 THEN chain' ELSE frames'[i + 1].before
       /\ \A i \in 1 .. n : ChainAt(i) = IF i = n THEN chain ELSE frames[i + 1].before
  BY <1>10 DEF ChainAt, n
<1>14. \A i \in 1 .. n : ChainAt(i)' = ChainAt(i)
  <2> SUFFICES ASSUME NEW i \in 1 .. n PROVE ChainAt(i)' = ChainAt(i)
    OBVIOUS
  <2>1. CASE i = n
    BY <1>5, <1>10, <1>11, <1>13, <2>1
  <2>2. CASE i # n
    <3>1. i + 1 \in 1 .. n /\ ChainAt(i)' = frames'[i + 1].before
      BY <1>11, <1>13, <2>2
    <3>2. frames'[i + 1].before = frames[i + 1].before
      BY <1>12, <3>1 DEF SameCall
    <3> QED
      BY <1>13, <2>2, <3>1, <3>2
  <2> QED
    BY <2>1, <2>2
<1>15. /\ tracker' \in Tracker /\ chain' \in Chain
       /\ \A a \in Accounts : chain.balance[a] => chain'.balance[a]
       /\ lossy' \in BOOLEAN /\ blurred' \in BOOLEAN
  BY <1>1, <1>2, <1>3, <1>6, SpentIs, PaidIs, ChainIs DEF Calling, PayLoses, OutOfPhase, Aligned
<1>16. TypeOK'
  <2>1. ASSUME NEW i \in 1 .. n + 1 PROVE Len(frames'[i].stack) = Len(frames'[i].real)
    <3>1. CASE i = n + 1
      BY <1>5, <1>10, <3>1
    <3>2. CASE i = n
      BY <1>4, <1>10, <1>11, <3>2
    <3>3. CASE i \in 1 .. n /\ i # n
      BY <1>10, <1>11, <3>3, FlowTyped
    <3> QED
      BY <1>11, <3>1, <3>2, <3>3
  <2>2. program' \in Programs /\ sources' \in Analyzers
    BY <1>2 DEF FlowInv, TypeOK
  <2> QED
    BY <1>2, <1>10, <1>15, <2>1, <2>2 DEF TypeOK
<1>17. FramesInv'
  <2> SUFFICES ASSUME NEW i \in 1 .. n + 1
               PROVE  /\ frames'[i].wrote \/ frames'[i].before = ChainAt(i)'
                      /\ frames'[i].kind = "CREATE" => frames'[i].wrote
                      /\ frames'[i].call.ret = Blank
                      /\ frames'[i].call.success = UntaintedValue
                      /\ frames'[i].store = (IF i = 1 THEN "root" ELSE frames'[i].self)
                      /\ i = 1 => frames'[i].self = Root /\ frames'[i].kind = "CALL"
    BY <1>10 DEF FramesInv
  <2>1. CASE i \in 1 .. n
    <3>1. /\ frames[i].wrote \/ frames[i].before = ChainAt(i)
          /\ frames[i].kind = "CREATE" => frames[i].wrote
          /\ frames[i].call.ret = Blank /\ frames[i].call.success = UntaintedValue
          /\ frames[i].store = (IF i = 1 THEN "root" ELSE frames[i].self)
          /\ i = 1 => frames[i].self = Root /\ frames[i].kind = "CALL"
      BY <1>10, <2>1 DEF FlowInv, FramesInv
    <3> QED
      BY <1>12, <1>14, <2>1, <3>1 DEF SameCall
  <2>2. CASE i = n + 1
    <3>1. frames'[i] = h /\ ChainAt(i)' = chain' /\ i # 1
      BY <1>10, <1>11, <1>13, <2>2
    <3>2. op.n = 0 => chain' = chain
      BY <1>1, <1>3, SpentIs
    <3> QED
      BY <1>2, <1>5, <1>6, <3>1, <3>2
  <2> QED
    BY <1>11, <2>1, <2>2
<1>18. LossyInv'
  <2> SUFFICES ASSUME ~ lossy'
               PROVE  /\ \A i \in 1 .. n + 1 :
                           /\ FrameSound(frames'[i])
                           /\ frames'[i].kind = "CREATE" =>
                                frames'[i].call.source = UntaintedValue
                      /\ ChainSound(tracker', chain')
                      /\ sink'.dep => sink'.seen
    BY <1>10 DEF LossyInv, ChainSound, Place, FrameSound, Sound, Padded
  <2>1. ~ lossy /\ ~ PayLoses(op) /\ ~ (op.name = "CREATE" /\ CallSource(op))
    BY <1>3
  <2>2. \A i \in 1 .. n :
          /\ FrameSound(frames[i])
          /\ frames[i].kind = "CREATE" => frames[i].call.source = UntaintedValue
    BY <1>10, <2>1 DEF FlowInv, LossyInv
  <2>3. ASSUME NEW i \in 1 .. n + 1
        PROVE  /\ FrameSound(frames'[i])
               /\ frames'[i].kind = "CREATE" => frames'[i].call.source = UntaintedValue
    <3>1. CASE i = n + 1
      BY <1>5, <1>6, <1>7, <1>10, <2>1, <3>1
    <3>2. CASE i \in 1 .. n
      <4>1. frames'[i].kind = "CREATE" => frames'[i].call.source = UntaintedValue
        BY <1>12, <2>2, <3>2 DEF SameCall
      <4>2. frames'[i] = f \/ frames'[i] = frames[i]
        BY <1>10, <1>11, <3>2
      <4>3. FrameSound(frames'[i])
        BY <1>4, <2>1, <2>2, <3>2, <4>2
      <4> QED
        BY <4>1, <4>3
    <3> QED
      BY <1>11, <3>1, <3>2
  <2>4. ChainSound(tracker', chain')
    BY <1>1, <1>2, <1>3, <2>1, PaidSound
  <2> QED
    BY <1>2, <2>1, <2>3, <2>4
<1>19. BlurredInv'
  <2> SUFFICES ASSUME ~ blurred'
               PROVE  /\ \A i \in 1 .. n + 1 :
                           /\ FrameExact(frames'[i])
                           /\ frames'[i].kind = "CREATE" /\ frames'[i].paid # UntaintedValue =>
                                \A j \in i .. n + 1 : ChainAt(j)'.balance[frames'[i].self]
                      /\ ChainExact(tracker', chain')
                      /\ sink'.seen => sink'.dep
    BY <1>10 DEF BlurredInv, ChainExact, Place, FrameExact, Exact, Padded
  <2>1. ~ blurred /\ Aligned(op.args) /\ ~ (op.n = 1 /\ op.name = "CALLCODE")
    BY <1>3
  <2>2. \A i \in 1 .. n :
          /\ FrameExact(frames[i])
          /\ frames[i].kind = "CREATE" /\ frames[i].paid # UntaintedValue =>
               \A j \in i .. n : ChainAt(j).balance[frames[i].self]
    BY <1>10, <2>1 DEF FlowInv, BlurredInv, n
  <2>3. \A i \in 1 .. n + 1 : FrameExact(frames'[i])
    BY <1>4, <1>8, <1>10, <1>11, <2>1, <2>2
  <2>4. ASSUME NEW i \in 1 .. n + 1,
               frames'[i].kind = "CREATE", frames'[i].paid # UntaintedValue,
               NEW j \in i .. n + 1
        PROVE  ChainAt(j)'.balance[frames'[i].self]
    <3>1. CASE i = n + 1
      <4>1. j = n + 1 /\ frames'[i] = h
        BY <1>9, <1>10, <2>4, <3>1
      <4>2. op.name = "CREATE" /\ op.n = 1 /\ Top.stack[1] # UntaintedValue /\ h.self = op.at
        BY <1>2, <1>5, <2>4, <4>1
      <4>3. Top.real[1]
        BY <1>2, <2>1, <4>2, OperandIs
      <4>4. chain'.balance[op.at]
        BY <1>1, <1>2, <1>3, <4>2, <4>3, SpentIs
      <4> QED
        BY <1>11, <1>13, <4>1, <4>2, <4>4
    <3>2. CASE i \in 1 .. n
      <4>1. frames'[i].self = frames[i].self /\ frames[i].self \in Accounts
        BY <1>10, <1>12, <3>2, FlowTyped, FrameTyped DEF SameCall
      <4>2. \A k \in i .. n : ChainAt(k).balance[frames[i].self]
        BY <1>12, <2>2, <2>4, <3>2 DEF SameCall
      <4>3. CASE j \in 1 .. n
        BY <1>9, <1>14, <2>4, <4>1, <4>2, <4>3
      <4>4. CASE j = n + 1
        <5>1. n \in i .. n
          BY <1>9, <3>2
        <5>2. ChainAt(n) = chain
          BY <1>9, <1>10, <1>13
        <5>3. chain.balance[frames[i].self]
          BY <4>2, <5>1, <5>2
        <5> QED
          BY <1>11, <1>13, <1>15, <4>1, <4>4, <5>3
      <4> QED
        BY <1>9, <2>4, <3>2, <4>3, <4>4
    <3> QED
      BY <1>11, <3>1, <3>2
  <2>5. ChainExact(tracker', chain')
    BY <1>1, <1>2, <1>3, <2>1, PaidExact
  <2> QED
    BY <1>2, <2>1, <2>3, <2>4, <2>5
<1> QED
  BY <1>16, <1>17, <1>18, <1>19 DEF FlowInv

-----------------------------------------------------------------------------
(* A call ends.                                                            *)

\* The top frame ends with this call, return data and chain.
Ends(frame, ok, call, data, dep, tr, ch, lost, blur) ==
  /\ SameCall(Top, frame) /\ frame.into = Top.into /\ frame.wrote \in BOOLEAN
  /\ ok \in BOOLEAN /\ call \in Calls /\ data \in Bits /\ dep \in BOOLEAN
  /\ tr \in Tracker /\ ch \in Chain /\ lost \in BOOLEAN /\ blur \in BOOLEAN
  /\ call.source = Top.call.source
  /\ call.success = (IF dep THEN "loaded" ELSE UntaintedValue)
  /\ frame.wrote \/ ch = chain
  /\ ~ lossy /\ ~ lost => Sound(call.ret, Padded(data)) /\ ChainSound(tr, ch)
  /\ ~ blurred /\ ~ blur => /\ Exact(call.ret, Padded(data)) /\ ChainExact(tr, ch)
                            /\ ch = chain

\* What a frame and the call it waits for have to do with each other.
LEMMA TopCall ==
  ASSUME FlowInv, frames # << >>
  PROVE  /\ Top.self \in Accounts /\ Top.before \in Chain /\ Top.into \in Spans
         /\ Top.call \in Calls /\ Top.call.ret = Blank /\ Top.call.success = UntaintedValue
         /\ Top.wrote \/ Top.before = chain
         /\ Top.kind = "CREATE" => Top.wrote /\ Len(frames) # 1
         /\ ~ lossy /\ Top.kind = "CREATE" => Top.call.source = UntaintedValue
         /\ ~ blurred => Top.call.source = UntaintedValue
         /\ ~ blurred /\ Top.kind = "CREATE" /\ Top.paid # UntaintedValue =>
              chain.balance[Top.self]
<1> DEFINE n == Len(frames)
<1>1. n \in Nat \ {0} /\ n \in DOMAIN frames /\ Top = frames[n] /\ Top \in Frames
  BY TopIs
<1>2. n \in n .. n /\ ChainAt(n) = chain
  BY <1>1 DEF ChainAt
<1>3. /\ Top.self \in Accounts /\ Top.before \in Chain /\ Top.into \in Spans
      /\ Top.call \in Calls
  BY <1>1, FrameTyped
<1>4. /\ Top.wrote \/ Top.before = chain
      /\ Top.kind = "CREATE" => Top.wrote
      /\ Top.call.ret = Blank /\ Top.call.success = UntaintedValue
      /\ n = 1 => Top.kind = "CALL"
  BY <1>1, <1>2 DEF FlowInv, FramesInv
<1>5. ~ lossy /\ Top.kind = "CREATE" => Top.call.source = UntaintedValue
  BY <1>1 DEF FlowInv, LossyInv
<1>6. ~ blurred /\ Top.kind = "CREATE" /\ Top.paid # UntaintedValue => chain.balance[Top.self]
  BY <1>1, <1>2 DEF FlowInv, BlurredInv
<1>7. ~ blurred => Top.call.source = UntaintedValue
  BY TopIs DEF FrameExact
<1> QED
  BY <1>3, <1>4, <1>5, <1>6, <1>7

\* The nodes of a contract's code: those of the data that created it.
LEMMA AllReturned ==
  ASSUME NEW call \in Calls, NEW data \in Bits
  PROVE  /\ Sound(call.ret, Padded(data)) /\ Some(data) =>
              "loaded" \in GetAllReturnData(call)
         /\ Exact(call.ret, Padded(data)) /\ call.source = UntaintedValue
              /\ Tainted(GetAllReturnData(call)) => Some(data)
<1> DEFINE found == {call.ret[w] : w \in 0 .. Words - 1} \ {UntaintedValue}
<1>1. GetAllReturnData(call) = IF found = {} THEN {call.source} \ {UntaintedValue} ELSE found
  BY DEF GetAllReturnData, OrSource
<1>2. ASSUME Sound(call.ret, Padded(data)), Some(data)
      PROVE  "loaded" \in GetAllReturnData(call)
  <2> PICK i \in DOMAIN data : data[i]
    BY <1>2 DEF Some
  <2>1. i - 1 \in Units /\ Padded(data)[i - 1]
    BY BitUnit
  <2>2. call.ret[(i - 1) \div Granularity] = "loaded"
    BY <1>2, <2>1 DEF Sound
  <2>3. "loaded" \in found
    BY <2>1, <2>2, UnitWord DEF UntaintedValue
  <2> QED
    BY <1>1, <2>3
<1>3. ASSUME Exact(call.ret, Padded(data)), call.source = UntaintedValue,
             Tainted(GetAllReturnData(call))
      PROVE  Some(data)
  <2>1. PICK w \in 0 .. Words - 1 : call.ret[w] # UntaintedValue
    BY <1>1, <1>3 DEF Tainted
  <2>2. w * Granularity \in Units /\ (w * Granularity) \div Granularity = w
    BY FirstUnit
  <2>3. Padded(data)[w * Granularity]
    BY <1>3, <2>1, <2>2 DEF Exact
  <2> QED
    BY <2>2, <2>3 DEF Padded, Some
<1> QED
  BY <1>2, <1>3

LEMMA DeployedIs ==
  ASSUME FlowInv, frames # << >>, NEW tr \in Tracker, NEW ch \in Chain,
         NEW call \in Calls, NEW data \in Bits, NEW tr2, NEW ch2,
         tr2 = Deployed(tr, call), ch2 = [ch EXCEPT !.code[Top.self] = Some(data)]
  PROVE  /\ tr2 \in Tracker /\ ch2 \in Chain /\ ch2.balance = ch.balance
         /\ ChainSound(tr, ch) /\ Sound(call.ret, Padded(data)) /\ ~ ch.balance[Top.self]
              => ChainSound(tr2, ch2)
         /\ ChainExact(tr, ch) /\ Exact(call.ret, Padded(data))
              /\ call.source = UntaintedValue /\ (Top.paid # UntaintedValue => ch.balance[Top.self])
              => ChainExact(tr2, ch2)
<1> DEFINE self == Top.self
           node == Produced(GetAllReturnData(call), FALSE)
           dep == Some(data)
           paid == Top.paid
<1>1. self \in Accounts /\ paid \in Node /\ dep \in BOOLEAN
  BY TopIs, FrameTyped DEF Some
<1>2. /\ node \in Node
      /\ Sound(call.ret, Padded(data)) /\ dep => node = "loaded"
      /\ Exact(call.ret, Padded(data)) /\ call.source = UntaintedValue
           /\ node # UntaintedValue => dep
  BY AllReturned, ProducedIs
<1>3. tr2 = [tr EXCEPT !.code = [tr.code EXCEPT ![self] = node],
                       !.balance = [tr.balance EXCEPT ![self] = paid]]
  BY DEF Deployed
<1>4. ch2 = [ch EXCEPT !.code = [ch.code EXCEPT ![self] = dep]]
  OBVIOUS
<1> HIDE DEF self, node, dep, paid
<1>5. /\ tr.code \in [Accounts -> Node] /\ tr.balance \in [Accounts -> Node]
      /\ ch.code \in [Accounts -> BOOLEAN]
  BY DEF Tracker, Chain
<1>6. /\ tr2 \in Tracker /\ tr2.slot = tr.slot
      /\ tr2.code = [tr.code EXCEPT ![self] = node]
      /\ tr2.balance = [tr.balance EXCEPT ![self] = paid]
  <2> DEFINE codes == [tr.code EXCEPT ![self] = node]
             balances == [tr.balance EXCEPT ![self] = paid]
  <2>1. codes \in [Accounts -> Node] /\ balances \in [Accounts -> Node]
    BY <1>1, <1>2, <1>5
  <2>2. tr2 = [tr EXCEPT !.code = codes, !.balance = balances]
    BY <1>3
  <2> HIDE DEF codes, balances
  <2>3. /\ tr2 \in Tracker /\ tr2.slot = tr.slot /\ tr2.code = codes
        /\ tr2.balance = balances
    BY <2>1, <2>2 DEF Tracker
  <2> QED
    BY <2>3 DEF codes, balances
<1>7. /\ ch2 \in Chain /\ ch2.slot = ch.slot /\ ch2.balance = ch.balance
      /\ ch2.code = [ch.code EXCEPT ![self] = dep]
  BY <1>1, <1>4 DEF Chain
<1>8. ASSUME ChainSound(tr, ch), Sound(call.ret, Padded(data)), ~ ch.balance[self]
      PROVE  ChainSound(tr2, ch2)
  BY <1>1, <1>2, <1>5, <1>6, <1>7, <1>8 DEF ChainSound
<1>9. ASSUME ChainExact(tr, ch), Exact(call.ret, Padded(data)), call.source = UntaintedValue,
             paid # UntaintedValue => ch.balance[self]
      PROVE  ChainExact(tr2, ch2)
  BY <1>1, <1>2, <1>5, <1>6, <1>7, <1>9 DEF ChainExact
<1> QED
  BY <1>6, <1>7, <1>8, <1>9 DEF self, paid

\* The chain that a call leaves.
LEMMA LeftChain ==
  ASSUME FlowInv, frames # << >>, NEW frame, NEW ok, NEW call, NEW data, NEW dep,
         NEW tr, NEW ch, NEW lost, NEW blur,
         Ends(frame, ok, call, data, dep, tr, ch, lost, blur),
         Leave(frame, ok, call, data, dep, tr, ch, lost, blur)
  PROVE  /\ tracker' \in Tracker /\ chain' \in Chain
         /\ lossy' \in BOOLEAN /\ blurred' \in BOOLEAN
         /\ (~ ok \/ ~ frame.wrote) => chain' = Top.before
         /\ ~ blurred' /\ ok => chain'.balance = chain.balance
         /\ ~ lossy' => ChainSound(tracker', chain')
         /\ ~ blurred' => ChainExact(tracker', chain')
<1> DEFINE new == frame.kind = "CREATE"
           ch2 == [ch EXCEPT !.code[Top.self] = Some(data)]
<1>1. /\ frame.kind = Top.kind /\ frame.self = Top.self /\ frame.before = Top.before
      /\ frame.wrote \in BOOLEAN /\ (Top.wrote => frame.wrote)
      /\ ok \in BOOLEAN /\ call \in Calls /\ data \in Bits /\ dep \in BOOLEAN
      /\ tr \in Tracker /\ ch \in Chain /\ lost \in BOOLEAN /\ blur \in BOOLEAN
      /\ call.source = Top.call.source
      /\ frame.wrote \/ ch = chain
      /\ ~ lossy /\ ~ lost => Sound(call.ret, Padded(data)) /\ ChainSound(tr, ch)
      /\ ~ blurred /\ ~ blur => /\ Exact(call.ret, Padded(data)) /\ ChainExact(tr, ch)
                                /\ ch = chain
  BY DEF Ends, SameCall
<1>2. /\ tracker' = IF new /\ ok THEN Deployed(tr, call) ELSE tr
      /\ chain' = IF ~ ok THEN Top.before ELSE IF new THEN ch2 ELSE ch
      /\ ~ lossy' => /\ ~ lossy /\ ~ lost /\ ~ (~ ok /\ frame.wrote)
                     /\ new => ~ dep /\ ~ (ok /\ ch.balance[Top.self])
      /\ ~ blurred' => ~ blurred /\ ~ blur /\ ~ (~ ok /\ frame.wrote)
      /\ lossy' \in BOOLEAN /\ blurred' \in BOOLEAN
  BY <1>1, ChainIs DEF Leave, Aligned, Kept, OutOfPhase
<1>3. /\ Top.self \in Accounts /\ Top.before \in Chain
      /\ Top.wrote \/ Top.before = chain
      /\ Top.kind = "CREATE" => Top.wrote
      /\ ~ blurred => Top.call.source = UntaintedValue
      /\ ~ blurred /\ Top.kind = "CREATE" /\ Top.paid # UntaintedValue =>
           chain.balance[Top.self]
  BY TopCall
<1>4. /\ Deployed(tr, call) \in Tracker /\ ch2 \in Chain /\ ch2.balance = ch.balance
      /\ ChainSound(tr, ch) /\ Sound(call.ret, Padded(data)) /\ ~ ch.balance[Top.self]
           => ChainSound(Deployed(tr, call), ch2)
      /\ ChainExact(tr, ch) /\ Exact(call.ret, Padded(data)) /\ call.source = UntaintedValue
           /\ (Top.paid # UntaintedValue => ch.balance[Top.self])
           => ChainExact(Deployed(tr, call), ch2)
  BY <1>1, DeployedIs
<1> HIDE DEF new, ch2
<1>5. new => frame.wrote
  BY <1>1, <1>3 DEF new
<1>6. tracker' \in Tracker /\ chain' \in Chain
  BY <1>1, <1>2, <1>3, <1>4
<1>7. (~ ok \/ ~ frame.wrote) => chain' = Top.before
  BY <1>1, <1>2, <1>3, <1>5
<1>8. ~ blurred' /\ ok => chain'.balance = chain.balance
  BY <1>1, <1>2, <1>4
<1>9. ASSUME ~ lossy' PROVE ChainSound(tracker', chain')
  <2>1. CASE ~ ok
    <3>1. ~ frame.wrote /\ ~ new
      BY <1>2, <1>5, <1>9, <2>1
    <3>2. tracker' = tr /\ chain' = ch
      BY <1>1, <1>2, <1>3, <2>1, <3>1
    <3> QED
      BY <1>1, <1>2, <1>9, <3>2
  <2>2. CASE ok
    BY <1>1, <1>2, <1>4, <1>9, <2>2
  <2> QED
    BY <1>1, <2>1, <2>2
<1>10. ASSUME ~ blurred' PROVE ChainExact(tracker', chain')
  <2>1. CASE ~ ok
    <3>1. ~ frame.wrote /\ ~ new
      BY <1>2, <1>5, <1>10, <2>1
    <3>2. tracker' = tr /\ chain' = ch
      BY <1>1, <1>2, <1>3, <2>1, <3>1
    <3> QED
      BY <1>1, <1>2, <1>10, <3>2
  <2>2. CASE ok
    <3>1. new /\ Top.paid # UntaintedValue => ch.balance[Top.self]
      BY <1>1, <1>2, <1>3, <1>10 DEF new
    <3> QED
      BY <1>1, <1>2, <1>3, <1>4, <1>10, <2>2, <3>1
  <2> QED
    BY <1>1, <2>1, <2>2
<1> QED
  BY <1>2, <1>6, <1>7, <1>8, <1>9, <1>10

\* The caller of a call that ended.
Caller(frame, ok, call, data, dep) ==
  LET caller == frames[Len(frames) - 1]
      new    == frame.kind = "CREATE"
      status == dep \/ frame.call.source # UntaintedValue
      back   == IF new THEN Created(caller, call, IF ok THEN << >> ELSE data, status)
                ELSE Returned(caller, frame.into, call, data, status)
  IN  [back EXCEPT !.wrote = @ \/ (ok /\ frame.wrote)]

LEMMA LeftFrame ==
  ASSUME FlowInv, frames # << >>, Len(frames) # 1,
         NEW frame, NEW ok, NEW call, NEW data, NEW dep,
         NEW tr, NEW ch, NEW lost, NEW blur,
         Ends(frame, ok, call, data, dep, tr, ch, lost, blur),
         Leave(frame, ok, call, data, dep, tr, ch, lost, blur)
  PROVE  LET caller == frames[Len(frames) - 1]
             g == Caller(frame, ok, call, data, dep)
         IN  /\ g \in Frames /\ Len(g.stack) = Len(g.real) /\ SameCall(caller, g)
             /\ g.wrote = (caller.wrote \/ (ok /\ frame.wrote))
             /\ ~ lossy' => FrameSound(g)
             /\ ~ blurred' => FrameExact(g)
<1> DEFINE n == Len(frames)
           caller == frames[n - 1]
           new == frame.kind = "CREATE"
           status == dep \/ frame.call.source # UntaintedValue
           kept == IF ok THEN << >> ELSE data
           c == Created(caller, call, kept, status)
           r == Returned(caller, frame.into, call, data, status)
           back == IF new THEN c ELSE r
           g == [back EXCEPT !.wrote = @ \/ (ok /\ frame.wrote)]
<1>1. /\ frame.kind = Top.kind /\ frame.call = Top.call /\ frame.into = Top.into
      /\ frame.wrote \in BOOLEAN
      /\ ok \in BOOLEAN /\ call \in Calls /\ data \in Bits /\ dep \in BOOLEAN
      /\ lost \in BOOLEAN /\ blur \in BOOLEAN
      /\ call.source = Top.call.source
      /\ call.success = (IF dep THEN "loaded" ELSE UntaintedValue)
      /\ ~ lossy /\ ~ lost => Sound(call.ret, Padded(data))
      /\ ~ blurred /\ ~ blur => Exact(call.ret, Padded(data))
  BY DEF Ends, SameCall
<1>2. /\ n \in Nat \ {0} /\ n # 1 /\ n - 1 \in DOMAIN frames
  BY TopIs, FlowTyped
<1>3. /\ caller \in Frames /\ Len(caller.stack) = Len(caller.real)
      /\ ~ lossy => FrameSound(caller)
      /\ ~ blurred => FrameExact(caller)
  BY <1>2, FlowTyped DEF FlowInv, LossyInv, BlurredInv
<1>4. /\ Top.into \in Spans
      /\ ~ lossy /\ Top.kind = "CREATE" => Top.call.source = UntaintedValue
  BY TopCall
<1>5. /\ ~ lossy' => /\ ~ lossy /\ ~ lost /\ (new => ~ dep)
                     /\ ~ new => ~ OutOfPhase(frame.into[1], 0) /\ ~ Kept(caller, frame.into, data)
      /\ ~ blurred' => ~ blurred /\ ~ blur /\ Aligned(frame.into)
  <2>1. n > 1
    BY <1>2
  <2> QED
    BY <2>1 DEF Leave
<1>6. /\ status \in BOOLEAN /\ kept \in Bits
      /\ GetSuccess(call) = IF status THEN "loaded" ELSE UntaintedValue
  <2>1. call.source \in {UntaintedValue, "loaded"}
    BY <1>1 DEF Calls
  <2>2. "loaded" # UntaintedValue
    BY DEF UntaintedValue
  <2>3. kept \in Bits
    BY <1>1, BlankIs
  <2> QED
    BY <1>1, <2>1, <2>2, <2>3 DEF GetSuccess
<1>7. g = Caller(frame, ok, call, data, dep)
  BY DEF Caller
<1>8. ok => kept = << >>
  OBVIOUS
<1>9. ~ ok => kept = data
  OBVIOUS
<1>10. status => dep \/ call.source # UntaintedValue
  BY <1>1
<1> HIDE DEF n, caller, status, kept, g, back, c, r
<1>11. /\ c \in Frames /\ Len(c.stack) = Len(c.real) /\ SameCall(caller, c)
       /\ c.wrote = caller.wrote
       /\ FrameSound(caller) /\ ~ status /\ Sound(call.ret, Padded(kept)) => FrameSound(c)
       /\ FrameExact(caller) /\ Exact(call.ret, Padded(kept)) => FrameExact(c)
       /\ FrameExact(caller) /\ kept = << >> => FrameExact(c)
  BY <1>1, <1>3, <1>6, CreatedIs DEF c
<1>12. /\ r \in Frames /\ Len(r.stack) = Len(r.real) /\ SameCall(caller, r)
       /\ r.wrote = caller.wrote
       /\ FrameSound(caller) /\ (status => GetSuccess(call) = "loaded")
            /\ Sound(call.ret, Padded(data)) /\ ~ Kept(caller, frame.into, data)
            /\ (~ OutOfPhase(frame.into[1], 0) \/ \A i \in DOMAIN data : ~ data[i])
            => FrameSound(r)
       /\ FrameExact(caller) /\ (GetSuccess(call) # UntaintedValue => status)
            /\ Exact(call.ret, Padded(data)) /\ Aligned(frame.into)
            => FrameExact(r)
  BY <1>1, <1>3, <1>4, <1>6, ReturnedIs DEF r
<1>13. ASSUME ~ lossy' PROVE FrameSound(back)
  <2>1. CASE new
    <3>1. ~ status
      BY <1>1, <1>4, <1>5, <1>10, <1>13, <2>1
    <3>2. Sound(call.ret, Padded(kept))
      <4>1. CASE ok
        BY <1>8, <4>1, NoBits DEF Sound
      <4>2. CASE ~ ok
        BY <1>1, <1>5, <1>9, <1>13, <4>2
      <4> QED
        BY <4>1, <4>2
    <3> QED
      BY <1>3, <1>5, <1>11, <1>13, <2>1, <3>1, <3>2 DEF back
  <2>2. CASE ~ new
    BY <1>1, <1>3, <1>5, <1>6, <1>12, <1>13, <2>2 DEF back
  <2> QED
    BY <2>1, <2>2
<1>14. ASSUME ~ blurred' PROVE FrameExact(back)
  <2>1. CASE new
    <3>1. Exact(call.ret, Padded(kept)) \/ kept = << >>
      BY <1>1, <1>5, <1>8, <1>9, <1>14
    <3> QED
      BY <1>3, <1>5, <1>11, <1>14, <2>1, <3>1 DEF back
  <2>2. CASE ~ new
    BY <1>1, <1>3, <1>5, <1>6, <1>12, <1>14, <2>2 DEF back
  <2> QED
    BY <2>1, <2>2
<1>15. /\ back \in Frames /\ Len(back.stack) = Len(back.real) /\ SameCall(caller, back)
       /\ back.wrote = caller.wrote
  BY <1>11, <1>12 DEF back
<1>16. g = [back EXCEPT !.wrote = caller.wrote \/ (ok /\ frame.wrote)]
  BY <1>15 DEF g
<1>17. caller.wrote \in BOOLEAN
  BY <1>3, FrameTyped
<1>18. /\ g \in Frames /\ SameCall(back, g) /\ g.wrote = (caller.wrote \/ (ok /\ frame.wrote))
       /\ g.mem = back.mem /\ g.bytes = back.bytes /\ g.args = back.args /\ g.call = back.call
       /\ g.child = back.child /\ g.output = back.output
       /\ g.stack = back.stack /\ g.real = back.real
  BY <1>1, <1>15, <1>16, <1>17 DEF Frames, SameCall
<1>19. (FrameSound(back) => FrameSound(g)) /\ (FrameExact(back) => FrameExact(g))
  BY <1>18 DEF FrameSound, FrameExact
<1>20. SameCall(caller, g) /\ Len(g.stack) = Len(g.real)
  BY <1>15, <1>18 DEF SameCall
<1> QED
  BY <1>7, <1>13, <1>14, <1>18, <1>19, <1>20 DEF caller, n

LEMMA LeaveStep ==
  ASSUME FlowInv, frames # << >>, NEW frame, NEW ok, NEW call, NEW data, NEW dep,
         NEW tr, NEW ch, NEW lost, NEW blur,
         Ends(frame, ok, call, data, dep, tr, ch, lost, blur),
         Leave(frame, ok, call, data, dep, tr, ch, lost, blur),
         sink' \in [seen : BOOLEAN, dep : BOOLEAN],
         ~ lossy' /\ sink'.dep => sink'.seen,
         ~ blurred' /\ sink'.seen => sink'.dep
  PROVE  FlowInv'
<1> DEFINE n == Len(frames)
           m == n - 1
           g == Caller(frame, ok, call, data, dep)
<1>1. /\ frames' = IF n = 1 THEN << >> ELSE Append(SubSeq(frames, 1, n - 2), g)
      /\ program' = program /\ sources' = sources
      /\ ~ lossy' => ~ lossy
      /\ ~ blurred' => ~ blurred
  <2> HIDE DEF n
  <2> QED
    BY DEF Leave, Caller, n
<1>2. /\ tracker' \in Tracker /\ chain' \in Chain
      /\ lossy' \in BOOLEAN /\ blurred' \in BOOLEAN
      /\ (~ ok \/ ~ frame.wrote) => chain' = Top.before
      /\ ~ blurred' /\ ok => chain'.balance = chain.balance
      /\ ~ lossy' => ChainSound(tracker', chain')
      /\ ~ blurred' => ChainExact(tracker', chain')
  BY LeftChain
<1>3. /\ sink' \in [seen : BOOLEAN, dep : BOOLEAN]
      /\ ~ lossy' /\ sink'.dep => sink'.seen
      /\ ~ blurred' /\ sink'.seen => sink'.dep
      /\ ok \in BOOLEAN /\ frame.wrote \in BOOLEAN
      /\ program' \in Programs /\ sources' \in Analyzers
  BY <1>1 DEF Ends, FlowInv, TypeOK
<1>4. n \in Nat \ {0} /\ n \in DOMAIN frames /\ Top = frames[n] /\ DOMAIN frames = 1 .. n
  BY TopIs, FlowTyped
<1>5. CASE n = 1
  <2>1. frames' = << >>
    BY <1>1, <1>5
  <2>2. frames' \in Seq(Frames) /\ DOMAIN frames' = {} /\ Len(frames') = 0
    BY <2>1
  <2>3. TypeOK'
    BY <1>2, <1>3, <2>2 DEF TypeOK
  <2>4. FramesInv'
    BY <2>2 DEF FramesInv
  <2>5. LossyInv'
    BY <1>2, <1>3, <2>2 DEF LossyInv, ChainSound, Place
  <2>6. BlurredInv'
    BY <1>2, <1>3, <2>2 DEF BlurredInv, ChainExact, Place
  <2> QED
    BY <2>3, <2>4, <2>5, <2>6 DEF FlowInv
<1>6. CASE n # 1
  <2>1. /\ g \in Frames /\ Len(g.stack) = Len(g.real) /\ SameCall(frames[m], g)
        /\ g.wrote = (frames[m].wrote \/ (ok /\ frame.wrote))
        /\ ~ lossy' => FrameSound(g)
        /\ ~ blurred' => FrameExact(g)
    BY <1>6, LeftFrame
  <2> HIDE DEF g
  <2>2. m \in Nat \ {0} /\ m < n /\ m + 1 = n
    BY <1>4, <1>6
  <2>3. /\ frames' \in Seq(Frames) /\ Len(frames') = m /\ DOMAIN frames' = 1 .. m
        /\ \A i \in 1 .. m : frames'[i] = IF i = m THEN g ELSE frames[i]
    <3> DEFINE s == SubSeq(frames, 1, n - 2)
    <3>1. /\ n - 2 \in Nat /\ n - 2 <= n /\ frames \in Seq(Frames) /\ Len(frames) = n
      BY <1>4, <1>6, FlowTyped
    <3>2. s \in Seq(Frames) /\ Len(s) = n - 2 /\ \A i \in 1 .. n - 2 : s[i] = frames[i]
      <4> HIDE DEF n
      <4> QED
        BY <3>1
    <3>3. frames' = Append(s, g)
      BY <1>1, <1>6
    <3> HIDE DEF s
    <3>4. n - 2 = m - 1
      BY <1>4
    <3> HIDE DEF n, m
    <3> QED
      BY <2>1, <2>2, <3>2, <3>3, <3>4
  <2> HIDE DEF n, m
  <2>4. \A i \in 1 .. m : i \in 1 .. n /\ i + 1 \in 1 .. n /\ i # n /\ (i = m \/ i + 1 \in 1 .. m)
    BY <1>4, <2>2
  <2>5. \A i \in 1 .. m : SameCall(frames[i], frames'[i])
    BY <2>1, <2>3 DEF SameCall
  <2>6. /\ \A i \in 1 .. m : ChainAt(i)' = IF i = m THEN chain' ELSE frames'[i + 1].before
        /\ \A i \in 1 .. n : ChainAt(i) = IF i = n THEN chain ELSE frames[i + 1].before
    BY <2>3 DEF ChainAt, n
  <2>7. \A i \in 1 .. m : i # m => ChainAt(i)' = ChainAt(i)
    <3> SUFFICES ASSUME NEW i \in 1 .. m, i # m PROVE ChainAt(i)' = ChainAt(i)
      OBVIOUS
    <3>1. i + 1 \in 1 .. m /\ i \in 1 .. n /\ i # n
      BY <2>4
    <3>2. frames'[i + 1].before = frames[i + 1].before
      BY <2>5, <3>1 DEF SameCall
    <3> QED
      BY <2>6, <3>1, <3>2
  <2>8. /\ m \in 1 .. m /\ m \in 1 .. n
        /\ \A i \in 1 .. m : i = m => ChainAt(i)' = chain' /\ ChainAt(i) = Top.before
    <3>1. m \in 1 .. m /\ m \in 1 .. n /\ m # n /\ frames[m + 1] = Top
      BY <1>4, <2>2
    <3>2. ChainAt(m) = Top.before
      BY <2>6, <3>1
    <3> QED
      BY <2>6, <3>1, <3>2
  <2>9. TypeOK'
    <3>1. ASSUME NEW i \in 1 .. m PROVE Len(frames'[i].stack) = Len(frames'[i].real)
      BY <1>4, <2>1, <2>3, <2>4, FlowTyped
    <3> QED
      BY <1>2, <1>3, <2>3, <3>1 DEF TypeOK
  <2>10. FramesInv'
    <3> SUFFICES ASSUME NEW i \in 1 .. m
                 PROVE  /\ frames'[i].wrote \/ frames'[i].before = ChainAt(i)'
                        /\ frames'[i].kind = "CREATE" => frames'[i].wrote
                        /\ frames'[i].call.ret = Blank
                        /\ frames'[i].call.success = UntaintedValue
                        /\ frames'[i].store = (IF i = 1 THEN "root" ELSE frames'[i].self)
                        /\ i = 1 => frames'[i].self = Root /\ frames'[i].kind = "CALL"
      BY <2>3 DEF FramesInv
    <3>1. /\ frames[i].wrote \/ frames[i].before = ChainAt(i)
          /\ frames[i].kind = "CREATE" => frames[i].wrote
          /\ frames[i].call.ret = Blank /\ frames[i].call.success = UntaintedValue
          /\ frames[i].store = (IF i = 1 THEN "root" ELSE frames[i].self)
          /\ i = 1 => frames[i].self = Root /\ frames[i].kind = "CALL"
      BY <1>4, <2>4 DEF FlowInv, FramesInv
    <3>2. SameCall(frames[i], frames'[i])
      BY <2>5
    <3>3. frames'[i].wrote \/ frames'[i].before = ChainAt(i)'
      <4>1. CASE i = m
        <5>1. frames'[i] = g /\ g.before = frames[m].before
          BY <2>1, <2>3, <4>1 DEF SameCall
        <5>2. CASE ok /\ frame.wrote
          BY <2>1, <5>1, <5>2
        <5>3. CASE ~ (ok /\ frame.wrote)
          <6>1. chain' = Top.before
            BY <1>2, <5>3
          <6>2. g.wrote = frames[m].wrote
            <7>1. frames[m].wrote \in BOOLEAN
              BY <1>4, <2>4, <2>8, FlowTyped, FrameTyped
            <7> QED
              BY <2>1, <5>3, <7>1
          <6> QED
            BY <2>8, <3>1, <4>1, <5>1, <6>1, <6>2
        <5> QED
          BY <5>2, <5>3
      <4>2. CASE i # m
        BY <2>3, <2>7, <3>1, <4>2
      <4> QED
        BY <4>1, <4>2
    <3> QED
      BY <3>1, <3>2, <3>3 DEF SameCall
  <2>11. LossyInv'
    <3> SUFFICES ASSUME ~ lossy'
                 PROVE  /\ \A i \in 1 .. m :
                             /\ FrameSound(frames'[i])
                             /\ frames'[i].kind = "CREATE" =>
                                  frames'[i].call.source = UntaintedValue
                        /\ ChainSound(tracker', chain')
                        /\ sink'.dep => sink'.seen
      BY <2>3 DEF LossyInv, ChainSound, Place, FrameSound, Sound, Padded
    <3>1. \A i \in 1 .. n :
            /\ FrameSound(frames[i])
            /\ frames[i].kind = "CREATE" => frames[i].call.source = UntaintedValue
      BY <1>1, <1>4 DEF FlowInv, LossyInv
    <3>2. ASSUME NEW i \in 1 .. m
          PROVE  /\ FrameSound(frames'[i])
                 /\ frames'[i].kind = "CREATE" => frames'[i].call.source = UntaintedValue
      <4>1. frames'[i].kind = "CREATE" => frames'[i].call.source = UntaintedValue
        BY <2>4, <2>5, <3>1 DEF SameCall
      <4>2. FrameSound(frames'[i])
        BY <2>1, <2>3, <2>4, <3>1
      <4> QED
        BY <4>1, <4>2
    <3> QED
      BY <1>2, <1>3, <3>2
  <2>12. BlurredInv'
    <3> SUFFICES ASSUME ~ blurred'
                 PROVE  /\ \A i \in 1 .. m :
                             /\ FrameExact(frames'[i])
                             /\ frames'[i].kind = "CREATE"
                                  /\ frames'[i].paid # UntaintedValue =>
                                  \A j \in i .. m : ChainAt(j)'.balance[frames'[i].self]
                        /\ ChainExact(tracker', chain')
                        /\ sink'.seen => sink'.dep
      BY <2>3 DEF BlurredInv, ChainExact, Place, FrameExact, Exact, Padded
    <3>1. \A i \in 1 .. n :
            /\ FrameExact(frames[i])
            /\ frames[i].kind = "CREATE" /\ frames[i].paid # UntaintedValue =>
                 \A j \in i .. n : ChainAt(j).balance[frames[i].self]
      BY <1>1, <1>4 DEF FlowInv, BlurredInv, n
    <3>2. \A i \in 1 .. m : FrameExact(frames'[i])
      BY <2>1, <2>3, <2>4, <3>1
    <3>3. ASSUME NEW i \in 1 .. m,
                 frames'[i].kind = "CREATE", frames'[i].paid # UntaintedValue,
                 NEW j \in i .. m
          PROVE  ChainAt(j)'.balance[frames'[i].self]
      <4>1. frames'[i].self = frames[i].self
        BY <2>5 DEF SameCall
      <4>2. \A k \in i .. n : ChainAt(k).balance[frames[i].self]
        BY <2>4, <2>5, <3>1, <3>3 DEF SameCall
      <4>3. j \in 1 .. m /\ j \in i .. n /\ n \in i .. n
        BY <1>4, <2>2
      <4>4. CASE j # m
        BY <2>7, <4>1, <4>2, <4>3, <4>4
      <4>5. CASE j = m
        <5>1. Top.before.balance[frames[i].self]
          BY <2>8, <4>2, <4>3, <4>5
        <5>2. chain.balance[frames[i].self]
          BY <1>4, <2>6, <4>2, <4>3
        <5>3. chain' = Top.before \/ chain'.balance = chain.balance
          BY <1>2, <1>3
        <5>4. chain'.balance[frames[i].self]
          BY <5>1, <5>2, <5>3
        <5>5. ChainAt(j)' = chain'
          BY <2>8, <4>3, <4>5
        <5> QED
          BY <4>1, <5>4, <5>5
      <4> QED
        BY <4>4, <4>5
    <3> QED
      BY <1>2, <1>3, <3>2, <3>3
  <2> QED
    BY <2>9, <2>10, <2>11, <2>12 DEF FlowInv
<1> QED
  BY <1>5, <1>6

\* No sink.
LEMMA QuietIs ==
  ASSUME sink' = Quiet
  PROVE  /\ sink' \in [seen : BOOLEAN, dep : BOOLEAN]
         /\ ~ sink'.dep /\ ~ sink'.seen
BY DEF Quiet

\* The call of a contract that returns or reverts, or destroys itself.
LEMMA AnswerIs ==
  ASSUME FlowInv, frames # << >>, NEW op, op.span \in Spans
  PROVE  /\ Answer(op) \in Calls /\ Answer(op).ret = Taken(Top.mem, op.span)
         /\ Answer(op).source = Top.call.source
         /\ Answer(op).success = (IF Source(op.name, Top.self) THEN "loaded" ELSE UntaintedValue)
         /\ Source(op.name, Top.self) \in BOOLEAN
<1> DEFINE success == IF Source(op.name, Top.self) THEN "loaded" ELSE UntaintedValue
           ret == Taken(Top.mem, op.span)
<1>1. Top.mem \in Memory
  BY TopIs, FrameTyped
<1>2. ret \in Memory
  BY <1>1, TakenTyped
<1>3. Top.call \in Calls /\ Top.call.success = UntaintedValue
  BY TopCall
<1>4. success \in Node
  BY DEF Node
<1>5. Answer(op) = [Top.call EXCEPT !.ret = ret, !.success = success]
  BY <1>3 DEF Answer, Calls
<1>6. Source(op.name, Top.self) \in BOOLEAN
  BY DEF Source
<1> HIDE DEF success, ret
<1>7. /\ Answer(op) \in Calls /\ Answer(op).ret = ret
      /\ Answer(op).source = Top.call.source /\ Answer(op).success = success
  BY <1>2, <1>3, <1>4, <1>5 DEF Calls
<1> QED
  BY <1>6, <1>7 DEF success, ret

LEMMA DestroyedIs ==
  ASSUME FlowInv, frames # << >>
  PROVE  /\ Destroyed \in Calls /\ Destroyed.ret = Blank
         /\ Destroyed.source = Top.call.source
         /\ Destroyed.success =
              (IF Source("SELFDESTRUCT", Top.self) THEN "loaded" ELSE UntaintedValue)
<1> DEFINE success == IF Source("SELFDESTRUCT", Top.self) THEN "loaded" ELSE UntaintedValue
<1>1. Top.call \in Calls /\ Top.call.success = UntaintedValue /\ Top.call.ret = Blank
  BY TopCall
<1>2. success \in Node
  BY DEF Node
<1>3. Destroyed = [Top.call EXCEPT !.success = success]
  BY <1>1 DEF Destroyed
<1> HIDE DEF success
<1>4. /\ Destroyed \in Calls /\ Destroyed.ret = Blank /\ Destroyed.source = Top.call.source
      /\ Destroyed.success = success
  BY <1>1, <1>2, <1>3 DEF Calls
<1> QED
  BY <1>4 DEF success

LEMMA ReturnStep ==
  ASSUME FlowInv, NEW op \in Offers, Return(op)
  PROVE  FlowInv'
<1> DEFINE source == Source(op.name, Top.self)
           ok == op.name = "RETURN"
           ret == Taken(Top.mem, op.span)
           call == Answer(op)
           data == Section(Top.bytes, op.span)
           lost == OutOfPhase(op.span[1], 0)
           blur == ~ Aligned(op.span)
<1>1. op.name \in {"RETURN", "REVERT"} /\ Runs(op, op.name, 0)
  BY DEF Return
<1>2. op.span \in Spans /\ frames # << >>
  BY <1>1, OfferedIs, OperationIs
<1>3. /\ Top.mem \in Memory /\ Top.bytes \in [Units -> BOOLEAN] /\ Top.wrote \in BOOLEAN
      /\ ~ lossy => Sound(Top.mem, Top.bytes)
      /\ ~ blurred => Exact(Top.mem, Top.bytes)
  BY <1>2, TopIs, FrameTyped DEF FrameSound, FrameExact
<1>4. /\ call \in Calls /\ call.ret = ret /\ call.source = Top.call.source
      /\ call.success = (IF source THEN "loaded" ELSE UntaintedValue)
  BY <1>2, AnswerIs
<1>5. data \in Bits
  BY <1>2, <1>3, SectionTyped
<1>6. /\ ~ lossy /\ ~ lost => Sound(ret, Padded(data))
      /\ ~ blurred /\ ~ blur => Exact(ret, Padded(data))
  BY <1>2, <1>3, TakenSound, TakenExact
<1>7. source \in BOOLEAN /\ ok \in BOOLEAN /\ lost \in BOOLEAN /\ blur \in BOOLEAN
  BY DEF Source, OutOfPhase, Aligned
<1>8. Leave(Top, ok, call, data, source, tracker, chain, lost, blur) /\ sink' = Quiet
  BY DEF Return
<1> HIDE DEF source, ok, ret, data, lost, blur, call
<1>9. Ends(Top, ok, call, data, source, tracker, chain, lost, blur)
  BY <1>3, <1>4, <1>5, <1>6, <1>7, ChainIs DEF Ends, SameCall
<1> QED
  BY <1>2, <1>8, <1>9, QuietIs, LeaveStep

LEMMA StopStep ==
  ASSUME FlowInv, Stop
  PROVE  FlowInv'
<1> DEFINE none == << >>
<1>1. /\ frames # << >>
      /\ Leave(Top, TRUE, Top.call, none, FALSE, tracker, chain, FALSE, FALSE)
      /\ sink' = Quiet
  BY DEF Stop
<1>2. /\ Top.call \in Calls /\ Top.call.success = UntaintedValue /\ Top.call.ret = Blank
  BY <1>1, TopCall
<1>3. Top.wrote \in BOOLEAN
  BY <1>1, TopIs, FrameTyped
<1>4. none \in Bits /\ Sound(Blank, Padded(none)) /\ Exact(Blank, Padded(none))
  BY BlankIs, NoBits DEF Sound
<1> HIDE DEF none
<1>5. Ends(Top, TRUE, Top.call, none, FALSE, tracker, chain, FALSE, FALSE)
  BY <1>2, <1>3, <1>4, ChainIs DEF Ends, SameCall
<1> QED
  BY <1>1, <1>5, QuietIs, LeaveStep

\* The mirror of the chain after a SELFDESTRUCT.
LEMMA EmptiedIs ==
  ASSUME FlowInv, frames # << >>, NEW op, op.at \in Accounts
  PROVE  /\ Emptied(op) \in Tracker /\ Emptied(op).slot = tracker.slot
         /\ \A a \in Accounts :
              /\ Emptied(op).code[a] =
                   IF a = Top.self /\ Source("SELFDESTRUCT", Top.self) THEN "loaded"
                   ELSE tracker.code[a]
              /\ Emptied(op).balance[a] =
                   IF a = Top.self THEN NewNode({}, Source("SELFDESTRUCT", Top.self))
                   ELSE IF a = op.at THEN tracker.balance[Top.self] ELSE tracker.balance[a]
<1> DEFINE self == Top.self
           at == op.at
           source == Source("SELFDESTRUCT", self)
           node == NewNode({}, source)
           codes == [tracker.code EXCEPT ![self] = IF source THEN "loaded" ELSE @]
           balances == [[tracker.balance EXCEPT ![at] = tracker.balance[self]]
                          EXCEPT ![self] = node]
<1>1. self \in Accounts /\ at \in Accounts /\ source \in BOOLEAN
  BY TopCall DEF Source
<1>2. /\ tracker \in Tracker
      /\ tracker.code \in [Accounts -> Node] /\ tracker.balance \in [Accounts -> Node]
  BY ChainIs DEF Tracker
<1>3. node \in Node /\ "loaded" \in Node
  BY <1>1, NewNodeIs DEF Node
<1>4. Emptied(op) = [tracker EXCEPT !.code = codes, !.balance = balances]
  BY <1>2 DEF Emptied, Tracker
<1> HIDE DEF self, at, source, node
<1>5. /\ codes \in [Accounts -> Node]
      /\ \A a \in Accounts : codes[a] = IF a = self /\ source THEN "loaded" ELSE tracker.code[a]
  BY <1>1, <1>2, <1>3
<1>6. /\ balances \in [Accounts -> Node]
      /\ \A a \in Accounts : balances[a] =
           IF a = self THEN node ELSE IF a = at THEN tracker.balance[self] ELSE tracker.balance[a]
  BY <1>1, <1>2, <1>3
<1> HIDE DEF codes, balances
<1>7. /\ Emptied(op) \in Tracker /\ Emptied(op).slot = tracker.slot
      /\ Emptied(op).code = codes /\ Emptied(op).balance = balances
  BY <1>2, <1>4, <1>5, <1>6 DEF Tracker
<1> QED
  BY <1>5, <1>6, <1>7 DEF self, at, source, node

\* The heir as a sink.
LEMMA DestroyingIs ==
  ASSUME FlowInv, NEW op \in Offers, Destroying(op)
  PROVE  /\ frames # << >> /\ op.at \in Accounts /\ Unreported(op) \in BOOLEAN
         /\ sink' \in [seen : BOOLEAN, dep : BOOLEAN]
         /\ ~ lossy /\ ~ Unreported(op) /\ sink'.dep => sink'.seen
         /\ ~ blurred /\ sink'.seen => sink'.dep
<1> DEFINE nodes == IF Source("SELFDESTRUCT", Top.self) THEN {} ELSE Args(op.n)
<1>1. /\ Runs(op, "SELFDESTRUCT", op.n)
      /\ sink' = Reported(nodes, Operands(op.n))
  BY DEF Destroying
<1>2. op.name = "SELFDESTRUCT"
  BY <1>1 DEF Runs
<1>3. frames # << >> /\ op.n \in Nat /\ op.at \in Accounts
  BY <1>2, OfferedIs, OperationIs
<1>4. op.n <= Len(Top.real)
  BY <1>1, <1>3, Running
<1>5. /\ ~ lossy /\ Operands(op.n) => "loaded" \in Args(op.n)
      /\ ~ blurred /\ Tainted(Args(op.n)) => Operands(op.n)
  BY <1>3, <1>4, ArgsAre
<1>6. /\ Operands(op.n) \in BOOLEAN /\ Tainted(nodes) \in BOOLEAN
      /\ Unreported(op) = (Source("SELFDESTRUCT", Top.self) /\ Operands(op.n))
      /\ "loaded" \in Args(op.n) => Tainted(Args(op.n))
      /\ ~ Tainted({})
  BY DEF Operands, Tainted, Unreported, UntaintedValue
<1>7. sink'.seen = Tainted(nodes) /\ sink'.dep = Operands(op.n)
  BY <1>1 DEF Reported
<1>8. sink' \in [seen : BOOLEAN, dep : BOOLEAN]
  BY <1>1, <1>6 DEF Reported
<1>9. Unreported(op) \in BOOLEAN
  BY DEF Unreported, Source, Operands
<1> QED
  BY <1>3, <1>5, <1>6, <1>7, <1>8, <1>9

LEMMA SelfDestructStep ==
  ASSUME FlowInv, NEW op \in Offers, SelfDestruct(op)
  PROVE  FlowInv'
<1> DEFINE self == Top.self
           at == op.at
           source == Source("SELFDESTRUCT", self)
           frame == [Top EXCEPT !.wrote = TRUE]
           none == << >>
           tr == Emptied(op)
           code == [chain.code EXCEPT ![self] = @ \/ source]
           balance == [a \in Accounts |->
                         IF a = self THEN source
                         ELSE chain.balance[a] \/ (a = at /\ chain.balance[self])]
           ch == [chain EXCEPT !.code[self] = @ \/ source, !.balance = balance]
           lost == chain.balance[at] \/ Unreported(op)
<1>1. Destroying(op)
  BY DEF SelfDestruct
<1>2. /\ at \in Accounts /\ frames # << >> /\ Unreported(op) \in BOOLEAN
      /\ sink' \in [seen : BOOLEAN, dep : BOOLEAN]
      /\ ~ lossy /\ ~ Unreported(op) /\ sink'.dep => sink'.seen
      /\ ~ blurred /\ sink'.seen => sink'.dep
  BY <1>1, DestroyingIs
<1>3. self \in Accounts
  BY <1>2, TopCall
<1>4. source \in BOOLEAN
  BY DEF Source
<1>5. /\ tracker \in Tracker /\ chain \in Chain
      /\ ~ lossy => ChainSound(tracker, chain)
  BY ChainIs
<1>6. chain.code \in [Accounts -> BOOLEAN] /\ chain.balance \in [Accounts -> BOOLEAN]
  BY <1>5 DEF Chain
<1>7. Leave(frame, TRUE, Destroyed, none, source, tr, ch, lost, TRUE)
  BY DEF SelfDestruct
<1>8. source => NewNode({}, source) = "loaded"
  BY <1>4, NewNodeIs
<1>9. /\ tr \in Tracker /\ tr.slot = tracker.slot
      /\ \A a \in Accounts :
           /\ tr.code[a] = IF a = self /\ source THEN "loaded" ELSE tracker.code[a]
           /\ tr.balance[a] = IF a = self THEN NewNode({}, source)
                              ELSE IF a = at THEN tracker.balance[self] ELSE tracker.balance[a]
  BY <1>2, EmptiedIs
<1>10. /\ Destroyed \in Calls /\ Destroyed.ret = Blank /\ Destroyed.source = Top.call.source
       /\ Destroyed.success = (IF source THEN "loaded" ELSE UntaintedValue)
  BY <1>2, DestroyedIs
<1> HIDE DEF self, at, source
<1>11. /\ code \in [Accounts -> BOOLEAN]
       /\ \A a \in Accounts : code[a] <=> chain.code[a] \/ (a = self /\ source)
  BY <1>3, <1>4, <1>6
<1>12. /\ balance \in [Accounts -> BOOLEAN]
       /\ \A a \in Accounts : balance[a] <=>
            IF a = self THEN source ELSE chain.balance[a] \/ (a = at /\ chain.balance[self])
  BY <1>2, <1>3, <1>4, <1>6
<1>13. ch = [chain EXCEPT !.code = code, !.balance = balance]
  BY <1>5 DEF Chain
<1> HIDE DEF tr, code, balance, ch
<1>14. /\ ch \in Chain /\ ch.slot = chain.slot /\ ch.code = code /\ ch.balance = balance
  BY <1>5, <1>11, <1>12, <1>13 DEF Chain
<1>15. ASSUME ~ lossy, ~ lost PROVE ChainSound(tr, ch)
  <2>1. \A a \in Accounts :
          /\ chain.slot[a] => tracker.slot[Place(a)] = "loaded"
          /\ chain.balance[a] => tracker.balance[a] = "loaded"
          /\ chain.code[a] => tracker.code[a] = "loaded"
    BY <1>5, <1>15 DEF ChainSound
  <2>2. ~ chain.balance[at]
    BY <1>15
  <2>3. \A a \in Accounts : ch.balance[a] => tr.balance[a] = "loaded"
    BY <1>2, <1>3, <1>8, <1>9, <1>12, <1>14, <2>1, <2>2
  <2>4. \A a \in Accounts : ch.code[a] => tr.code[a] = "loaded"
    BY <1>9, <1>11, <1>14, <2>1
  <2> QED
    BY <1>9, <1>14, <2>1, <2>3, <2>4 DEF ChainSound
<1>16. SameCall(Top, frame) /\ frame.into = Top.into /\ frame.wrote \in BOOLEAN /\ frame.wrote
  <2>1. Top \in Frames
    BY <1>2, TopIs
  <2> QED
    BY <2>1 DEF Frames, SameCall
<1>17. none \in Bits /\ Sound(Blank, Padded(none))
  BY BlankIs, NoBits DEF Sound
<1>18. lost \in BOOLEAN /\ (~ lost => ~ Unreported(op))
  BY <1>2, <1>6
<1> HIDE DEF frame, none, lost
<1>19. Ends(frame, TRUE, Destroyed, none, source, tr, ch, lost, TRUE)
  BY <1>4, <1>9, <1>10, <1>14, <1>15, <1>16, <1>17, <1>18 DEF Ends
<1>20. (~ lossy' => ~ lossy /\ ~ lost) /\ blurred'
  BY <1>7 DEF Leave
<1> QED
  BY <1>2, <1>7, <1>18, <1>19, <1>20, LeaveStep

-----------------------------------------------------------------------------
(* An operation fails by itself.                                           *)

\* The chain is what it was before the call, and where its mirror has changed, that is
\* marked as lossy or blurred.
LEMMA FaultStep ==
  ASSUME FlowInv, frames # << >>, NEW call \in Calls, NEW dep \in BOOLEAN, NEW tr \in Tracker,
         NEW lost \in BOOLEAN, NEW blur \in BOOLEAN,
         Fault(call, dep, tr, lost, blur),
         call.source = Top.call.source,
         call.success = (IF dep THEN "loaded" ELSE UntaintedValue),
         ~ blurred /\ ~ blur => call.ret = Blank,
         sink' \in [seen : BOOLEAN, dep : BOOLEAN],
         ~ lossy /\ ~ lost /\ sink'.dep => sink'.seen,
         ~ blurred /\ ~ blur /\ sink'.seen => sink'.dep
  PROVE  FlowInv'
<1> DEFINE none == << >>
           erased == Replaces(tr, TRUE) \/ lost
           invented == Replaces(tr, FALSE) \/ blur
<1>1. Leave(Top, FALSE, call, none, dep, tr, chain, erased, invented)
  BY DEF Fault
<1>2. Top.wrote \in BOOLEAN
  BY TopIs, FrameTyped
<1>3. /\ chain \in Chain
      /\ ~ lossy => ChainSound(tracker, chain)
      /\ ~ blurred => ChainExact(tracker, chain)
  BY ChainIs
<1>4. erased \in BOOLEAN /\ invented \in BOOLEAN
  BY DEF Replaces
<1>5. ~ lossy /\ ~ erased => ChainSound(tr, chain)
  BY <1>3 DEF Replaces, ChainSound
<1>6. ~ blurred /\ ~ invented => ChainExact(tr, chain)
  <2> SUFFICES ASSUME ~ blurred, ~ Replaces(tr, FALSE), NEW a \in Accounts
               PROVE  /\ tr.slot[Place(a)] # UntaintedValue => chain.slot[a]
                      /\ tr.balance[a] # UntaintedValue => chain.balance[a]
                      /\ tr.code[a] # UntaintedValue => chain.code[a]
    BY DEF ChainExact
  <2>1. chain.slot[a] \in BOOLEAN /\ chain.balance[a] \in BOOLEAN /\ chain.code[a] \in BOOLEAN
    BY <1>3 DEF Chain
  <2>2. /\ tracker.slot[Place(a)] # UntaintedValue => chain.slot[a]
        /\ tracker.balance[a] # UntaintedValue => chain.balance[a]
        /\ tracker.code[a] # UntaintedValue => chain.code[a]
    BY <1>3 DEF ChainExact
  <2> QED
    BY <2>1, <2>2 DEF Replaces
<1>7. none \in Bits /\ Sound(call.ret, Padded(none)) /\ Exact(Blank, Padded(none))
  BY BlankIs, NoBits DEF Sound
<1>8. (~ erased => ~ lost) /\ (~ invented => ~ blur)
  OBVIOUS
<1> HIDE DEF none, erased, invented
<1>9. Ends(Top, FALSE, call, none, dep, tr, chain, erased, invented)
  BY <1>2, <1>3, <1>4, <1>5, <1>6, <1>7, <1>8 DEF Ends, SameCall
<1>10. (~ lossy' => ~ lossy /\ ~ lost) /\ (~ blurred' => ~ blurred /\ ~ blur)
  BY <1>1, <1>8 DEF Leave
<1> QED
  BY <1>1, <1>9, <1>10, LeaveStep

\* The call of the top frame as it was.
LEMMA BareFault ==
  ASSUME FlowInv, frames # << >>, NEW tr \in Tracker, NEW blur \in BOOLEAN,
         Fault(Top.call, FALSE, tr, FALSE, blur),
         sink' \in [seen : BOOLEAN, dep : BOOLEAN],
         ~ lossy /\ sink'.dep => sink'.seen,
         ~ blurred /\ ~ blur /\ sink'.seen => sink'.dep
  PROVE  FlowInv'
<1>1. /\ Top.call \in Calls /\ Top.call.success = UntaintedValue /\ Top.call.ret = Blank
  BY TopCall
<1> QED
  BY <1>1, FaultStep

LEMMA SStoreFaultStep ==
  ASSUME FlowInv, NEW op \in Offers, SStoreFault(op)
  PROVE  FlowInv'
<1>1. frames # << >> /\ sink' = Quiet /\ Fault(Top.call, FALSE, Slotted, FALSE, FALSE)
  BY OfferedIs DEF SStoreFault
<1> DEFINE node == Produced(Args(1), Source("SSTORE", Top.self))
           slots == [tracker.slot EXCEPT ![Top.store] = node]
<1>2. node \in Node
  <2>1. Source("SSTORE", Top.self) \in BOOLEAN
    BY DEF Source
  <2> QED
    BY <2>1, ProducedIs
<1>3. Slotted \in Tracker
  <2>1. tracker \in Tracker
    BY ChainIs
  <2>2. Slotted = [tracker EXCEPT !.slot = slots]
    BY DEF Slotted
  <2> HIDE DEF node
  <2>3. slots \in [Accounts \cup {"root"} -> Node]
    BY <1>2, <2>1 DEF Tracker
  <2> HIDE DEF slots
  <2> QED
    BY <2>1, <2>2, <2>3 DEF Tracker
<1> QED
  BY <1>1, <1>3, QuietIs, BareFault

LEMMA JumpFaultStep ==
  ASSUME FlowInv, NEW op \in Offers, JumpFault(op)
  PROVE  FlowInv'
<1>1. op.n \in Nat
  BY OfferedIs, OperationIs
<1>2. frames # << >> /\ op.n <= Len(Top.real) /\ tracker \in Tracker
  BY <1>1, Running, ChainIs DEF JumpFault
<1>3. Fault(Top.call, FALSE, tracker, FALSE, FALSE)
  BY DEF JumpFault
<1>4. sink' = Reported({} \cup Args(op.n), FALSE \/ Operands(op.n))
  BY DEF JumpFault, Operands, Reported
<1>5. ~ Tainted({})
  BY DEF Tainted
<1>6. /\ sink' \in [seen : BOOLEAN, dep : BOOLEAN]
      /\ ~ lossy /\ sink'.dep => sink'.seen
      /\ ~ blurred /\ sink'.seen => sink'.dep
  BY <1>1, <1>2, <1>4, <1>5, SinkIs
<1> QED
  BY <1>2, <1>3, <1>6, BareFault

LEMMA LogFaultStep ==
  ASSUME FlowInv, NEW op \in Offers, LogFault(op)
  PROVE  FlowInv'
<1>1. op.name = "LOG"
  BY DEF LogFault, Runs
<1>2. op.n \in Nat /\ op.span \in Spans
  BY <1>1, OfferedIs, OperationIs
<1>3. frames # << >> /\ op.n <= Len(Top.real) /\ tracker \in Tracker
  BY <1>2, Running, ChainIs DEF LogFault
<1> DEFINE nodes == Load(Top.mem, op.span)
           dep == Depends(Top.bytes, op.span)
           blur == ~ Aligned(op.span)
<1>4. /\ dep \in BOOLEAN /\ blur \in BOOLEAN
      /\ ~ lossy /\ dep => "loaded" \in nodes
      /\ ~ blurred /\ ~ blur /\ Tainted(nodes) => dep
  BY <1>2, <1>3, MemoryLoad
<1>5. /\ Fault(Top.call, FALSE, tracker, FALSE, blur)
      /\ sink' = Reported(nodes \cup Args(op.n), dep \/ Operands(op.n))
  BY DEF LogFault
<1> HIDE DEF nodes, dep, blur
<1>6. /\ sink' \in [seen : BOOLEAN, dep : BOOLEAN]
      /\ ~ lossy /\ sink'.dep => sink'.seen
      /\ ~ blurred /\ ~ blur /\ sink'.seen => sink'.dep
  BY <1>2, <1>3, <1>4, <1>5, SinkIs
<1> QED
  BY <1>3, <1>4, <1>5, <1>6, BareFault

LEMMA CallFaultStep ==
  ASSUME FlowInv, NEW op \in Offers, CallFault(op)
  PROVE  FlowInv'
<1> DEFINE blur == ~ Aligned(op.args)
<1>1. Called(op) /\ Fault(Top.call, FALSE, Paid(op), FALSE, blur)
  BY DEF CallFault
<1>2. /\ frames # << >>
      /\ sink' \in [seen : BOOLEAN, dep : BOOLEAN]
      /\ ~ lossy /\ sink'.dep => sink'.seen
      /\ ~ blurred /\ ~ blur /\ sink'.seen => sink'.dep
  BY <1>1, CalledIs
<1>3. Paid(op) \in Tracker /\ blur \in BOOLEAN
  BY <1>1, PaidIs DEF Aligned
<1> HIDE DEF blur
<1> QED
  BY <1>1, <1>2, <1>3, BareFault

LEMMA ReturnFaultStep ==
  ASSUME FlowInv, NEW op \in Offers, ReturnFault(op)
  PROVE  FlowInv'
<1> DEFINE source == Source(op.name, Top.self)
           blur == Answer(op).ret # Blank
<1>1. /\ op.name \in {"RETURN", "REVERT"} /\ sink' = Quiet
      /\ Fault(Answer(op), source, tracker, FALSE, blur)
  BY DEF ReturnFault
<1>2. op.span \in Spans /\ frames # << >>
  BY <1>1, OfferedIs, OperationIs
<1>3. /\ Answer(op) \in Calls /\ Answer(op).source = Top.call.source
      /\ Answer(op).success = (IF source THEN "loaded" ELSE UntaintedValue)
      /\ source \in BOOLEAN
  BY <1>2, AnswerIs
<1>4. tracker \in Tracker /\ blur \in BOOLEAN /\ (~ blur => Answer(op).ret = Blank)
  BY ChainIs
<1> HIDE DEF source, blur
<1> QED
  BY <1>1, <1>2, <1>3, <1>4, QuietIs, FaultStep

LEMMA SelfDestructFaultStep ==
  ASSUME FlowInv, NEW op \in Offers, SelfDestructFault(op)
  PROVE  FlowInv'
<1> DEFINE source == Source("SELFDESTRUCT", Top.self)
<1>1. Destroying(op) /\ Fault(Destroyed, source, Emptied(op), Unreported(op), FALSE)
  BY DEF SelfDestructFault
<1>2. /\ op.at \in Accounts /\ frames # << >> /\ Unreported(op) \in BOOLEAN
      /\ sink' \in [seen : BOOLEAN, dep : BOOLEAN]
      /\ ~ lossy /\ ~ Unreported(op) /\ sink'.dep => sink'.seen
      /\ ~ blurred /\ sink'.seen => sink'.dep
  BY <1>1, DestroyingIs
<1>3. /\ Destroyed \in Calls /\ Destroyed.ret = Blank /\ Destroyed.source = Top.call.source
      /\ Destroyed.success = (IF source THEN "loaded" ELSE UntaintedValue)
  BY <1>2, DestroyedIs
<1>4. source \in BOOLEAN /\ Emptied(op) \in Tracker
  BY <1>2, EmptiedIs DEF Source
<1> HIDE DEF source
<1> QED
  BY <1>1, <1>2, <1>3, <1>4, FaultStep

LEMMA InvalidStep ==
  ASSUME FlowInv, NEW op \in Offers, Invalid(op)
  PROVE  FlowInv'
<1>1. frames # << >> /\ tracker \in Tracker
  BY OfferedIs, ChainIs
<1>2. Fault(Top.call, FALSE, tracker, FALSE, TRUE) /\ sink' = [seen |-> TRUE, dep |-> FALSE]
  BY DEF Invalid
<1>3. /\ sink' \in [seen : BOOLEAN, dep : BOOLEAN]
      /\ ~ lossy /\ sink'.dep => sink'.seen
  BY <1>2
<1> QED
  BY <1>1, <1>2, <1>3, BareFault

LEMMA LocalFaultStep ==
  ASSUME FlowInv, NEW op \in Offers, LocalFault(op)
  PROVE  FlowInv'
<1>1. frames # << >> /\ tracker \in Tracker
  BY OfferedIs, ChainIs
<1>2. Fault(Top.call, FALSE, tracker, FALSE, FALSE) /\ sink' = Quiet
  BY DEF LocalFault
<1> QED
  BY <1>1, <1>2, QuietIs, BareFault

-----------------------------------------------------------------------------
(* The invariant.                                                          *)

\* A transaction starts with one call, and no node anywhere.
LEMMA InitStep ==
  ASSUME Init
  PROVE  FlowInv
<1> DEFINE call == NewCall(Blank, UntaintedValue)
           none == << >>
           kind == "CALL"
           store == "root"
           static == FALSE
           f == Frame(kind, Root, Root, store, static, call, none)
<1>1. /\ frames = <<f>>
      /\ chain = [slot    |-> [a \in Accounts |-> FALSE],
                  balance |-> [a \in Accounts |-> FALSE],
                  code    |-> [a \in Accounts |-> FALSE]]
      /\ tracker = [slot    |-> [s \in Accounts \cup {"root"} |-> UntaintedValue],
                    balance |-> [a \in Accounts |-> UntaintedValue],
                    code    |-> [a \in Accounts |-> UntaintedValue]]
      /\ program \in Programs /\ sources \in Analyzers
      /\ sink = [seen |-> FALSE, dep |-> FALSE]
      /\ lossy = FALSE /\ blurred = FALSE
  BY DEF Init
<1>2. UntaintedValue \in Node
  BY DEF Node
<1>3. /\ call \in Calls /\ call.data = Blank /\ call.ret = Blank
      /\ call.success = UntaintedValue /\ call.source = UntaintedValue
  BY <1>2, BlankTyped DEF NewCall, Calls
<1>4. chain \in Chain /\ \A a \in Accounts : ~ chain.slot[a] /\ ~ chain.balance[a] /\ ~ chain.code[a]
  BY <1>1 DEF Chain
<1>5. /\ tracker \in Tracker
      /\ \A s \in Accounts \cup {"root"} : tracker.slot[s] = UntaintedValue
      /\ \A a \in Accounts : tracker.balance[a] = UntaintedValue /\ tracker.code[a] = UntaintedValue
  BY <1>1, <1>2 DEF Tracker
<1>6. /\ Sound(Blank, Padded(none)) /\ Exact(Blank, Padded(none)) /\ DOMAIN none = {}
      /\ Sound(Blank, Clean) /\ Exact(Blank, Clean) /\ none \in Bits
  BY BlankIs, NoBits DEF Sound
<1>7. Root \in Accounts /\ kind \in Kinds /\ store \in Accounts \cup {"root"} /\ static \in BOOLEAN
  BY FlowAssumption DEF Kinds
<1> HIDE DEF call, none, kind, store, static
<1>8. /\ f \in Frames /\ f.stack = << >> /\ f.real = << >> /\ f.kind = kind
      /\ f.self = Root /\ f.store = store /\ f.call = call /\ f.before = chain
      /\ f.mem = Blank /\ f.bytes = Clean /\ f.child = NewCall(Blank, UntaintedValue)
      /\ f.output = << >> /\ f.args = none
  BY <1>3, <1>4, <1>6, <1>7, FrameIs
<1> HIDE DEF f
<1>9. f.child = call /\ f.output = none /\ f.kind = "CALL" /\ f.store = "root"
  BY <1>8 DEF call, none, kind, store
<1>10. /\ frames \in Seq(Frames) /\ Len(frames) = 1 /\ DOMAIN frames = {1}
      /\ \A i \in DOMAIN frames : i = 1 /\ frames[i] = f
  BY <1>1, <1>8
<1>11. ChainAt(1) = chain
  BY <1>10 DEF ChainAt
<1>12. DOMAIN f.stack = {} /\ Len(f.stack) = Len(f.real)
  BY <1>8
<1>13. FrameSound(f) /\ FrameExact(f)
  <2>1. \A u \in Units : u + 1 \notin DOMAIN f.output
    BY <1>6, <1>9
  <2> QED
    BY <1>3, <1>6, <1>8, <1>9, <1>12, <2>1 DEF FrameSound, FrameExact
<1>14. TypeOK
  BY <1>1, <1>4, <1>5, <1>10, <1>12 DEF TypeOK
<1>15. FramesInv
  BY <1>3, <1>8, <1>9, <1>10, <1>11 DEF FramesInv
<1>16. ChainSound(tracker, chain)
  BY <1>4 DEF ChainSound
<1>17. ChainExact(tracker, chain)
  <2>1. \A a \in Accounts : Place(a) \in Accounts \cup {"root"}
    BY DEF Place
  <2> QED
    BY <1>5, <2>1 DEF ChainExact
<1>18. LossyInv
  BY <1>1, <1>9, <1>10, <1>13, <1>16 DEF LossyInv
<1>19. BlurredInv
  BY <1>1, <1>9, <1>10, <1>13, <1>17 DEF BlurredInv
<1> QED
  BY <1>14, <1>15, <1>18, <1>19 DEF FlowInv

\* The invariant speaks of variables of the specification only.
LEMMA FlowStutters ==
  ASSUME FlowInv, UNCHANGED vars
  PROVE  FlowInv'
<1>1. /\ frames' = frames /\ tracker' = tracker /\ chain' = chain /\ sink' = sink
      /\ program' = program /\ sources' = sources /\ lossy' = lossy /\ blurred' = blurred
  BY DEF vars
<1>2. \A i : ChainAt(i)' = ChainAt(i)
  BY <1>1 DEF ChainAt
<1>3. TypeOK'
  BY <1>1 DEF FlowInv, TypeOK
<1>4. FramesInv'
  BY <1>1, <1>2 DEF FlowInv, FramesInv
<1>5. LossyInv'
  BY <1>1 DEF FlowInv, LossyInv, ChainSound, Place, FrameSound, Sound, Padded
<1>6. BlurredInv'
  BY <1>1, <1>2 DEF FlowInv, BlurredInv, ChainExact, Place, FrameExact, Exact, Padded
<1> QED
  BY <1>3, <1>4, <1>5, <1>6 DEF FlowInv

LEMMA FlowStep ==
  ASSUME FlowInv, [Next]_vars
  PROVE  FlowInv'
<1>1. ASSUME NEW op \in Offers,
             \/ Push(op) \/ Drop(op) \/ Dup(op) \/ Swap(op) \/ Pure(op)
             \/ MLoad(op) \/ Hash(op) \/ SLoad(op) \/ Balance(op) \/ SelfBalance(op)
             \/ CodeSize(op) \/ ExtCodeSize(op) \/ CallValue(op) \/ CallDataLoad(op)
      PROVE  FlowInv'
  BY <1>1, PushStep, DropStep, DupStep, SwapStep, PureStep, MLoadStep, HashStep, SLoadStep,
     BalanceStep, SelfBalanceStep, CodeSizeStep, ExtCodeSizeStep, CallValueStep, CallDataLoadStep
<1>2. ASSUME NEW op \in Offers,
             \/ MStore(op) \/ CodeCopy(op) \/ CallDataCopy(op) \/ ReturnDataCopy(op)
             \/ SStore(op) \/ Jump(op) \/ Log(op)
      PROVE  FlowInv'
  BY <1>2, MStoreStep, CodeCopyStep, CallDataCopyStep, ReturnDataCopyStep, SStoreStep,
     JumpStep, LogStep
<1>3. ASSUME NEW op \in Offers, Enter(op) \/ Return(op) \/ SelfDestruct(op)
      PROVE  FlowInv'
  BY <1>3, EnterStep, ReturnStep, SelfDestructStep
<1>4. ASSUME NEW op \in Offers, NEW outcome \in {"output", "empty", "failed"},
             CallOut(op, outcome)
      PROVE  FlowInv'
  BY <1>4, CallOutStep
<1>5. ASSUME NEW op \in Offers,
             \/ SStoreFault(op) \/ JumpFault(op) \/ LogFault(op) \/ CallFault(op)
             \/ ReturnFault(op) \/ SelfDestructFault(op) \/ Invalid(op) \/ LocalFault(op)
      PROVE  FlowInv'
  BY <1>5, SStoreFaultStep, JumpFaultStep, LogFaultStep, CallFaultStep, ReturnFaultStep,
     SelfDestructFaultStep, InvalidStep, LocalFaultStep
<1>6. CASE Stop
  BY <1>6, StopStep
<1>7. CASE UNCHANGED vars
  BY <1>7, FlowStutters
<1> QED
  BY <1>1, <1>2, <1>3, <1>4, <1>5, <1>6, <1>7 DEF Next

LEMMA FlowInductive == Spec => []FlowInv
BY InitStep, FlowStep, PTL DEF Spec

\* The mirror keeps its shape whatever programs run, and its stack is as high as the
\* EVM's after every operation, call and failure (tracer.go, flows of evm/vm/flow).
THEOREM TypeCorrect == Spec => []TypeOK
<1>1. FlowInv => TypeOK
  BY DEF FlowInv
<1> QED BY <1>1, FlowInductive, PTL

\* No dependence on a source is lost, whatever operations and calls a transaction is
\* made of, in the stacks, memories, call data and return data of all open calls
\* and on chain, but for the cases marked as lossy.
THEOREM CompleteHolds == Spec => []Complete
<1>1. FlowInv => Complete
  BY SoundMirror DEF Complete
<1> QED BY <1>1, FlowInductive, PTL

\* Every sink with an operand or data that depends on a source is reported to the
\* analyzer (FlowIn), but for the cases marked as lossy.
THEOREM SinksSeenHolds == Spec => []SinksSeen
<1>1. FlowInv => SinksSeen
  BY DEF FlowInv, LossyInv, SinksSeen
<1> QED BY <1>1, FlowInductive, PTL

\* While words are read and written whole, the mirror has no node where no value
\* depends on a source, and no sink is reported in vain; but for the cases marked
\* as blurred.
THEOREM PreciseHolds == Spec => []Precise
<1>1. FlowInv => Precise
  BY ExactMirror DEF FlowInv, BlurredInv, Precise
<1> QED BY <1>1, FlowInductive, PTL
=============================================================================
