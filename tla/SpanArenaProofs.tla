--------------------------- MODULE SpanArenaProofs ---------------------------
(***************************************************************************)
(* The span arena for every set of runs and keys: offsets stand for the    *)
(* tokens they were given for, through sharing, compaction, snapshots and  *)
(* restarts, and the spans implement SpanBodies, which has no offsets.     *)
(***************************************************************************)
EXTENDS SpanArena, SequenceTheorems, TLAPS

Content == Seq(Nat) \ {<<>>}

\* A slice of off, len that lies within the tokens.
In(toks, s) ==
    s.off \in Nat /\ s.len \in Nat \ {0} /\ s.off + s.len <= Len(toks)

Slice(toks, off, len) == SubSeq(toks, off + 1, off + len)

\* The dedup map of an arena finds each of its contents, in one place.
Sound(a) ==
    /\ a = [toks |-> a.toks, at |-> a.at]
    /\ a.toks \in Seq(Nat)
    /\ DOMAIN a.at \subseteq Content
    /\ \A c \in DOMAIN a.at :
          /\ a.at[c] \in Nat /\ a.at[c] + Len(c) <= Len(a.toks)
          /\ Slice(a.toks, a.at[c], Len(c)) = c
    /\ \A c, d \in DOMAIN a.at : a.at[c] = a.at[d] => c = d

\* A span lies within an arena, and is as long as what the map has there.
Fits(a, s) ==
    /\ In(a.toks, s)
    /\ \A c \in DOMAIN a.at : a.at[c] = s.off => Len(c) = s.len

-----------------------------------------------------------------------------
(* Slices.                                                                 *)

\* A slice within the tokens is a content of its length.
LEMMA SliceFacts ==
    ASSUME NEW x \in Seq(Nat), NEW off \in Nat, NEW len \in Nat \ {0},
           off + len <= Len(x)
    PROVE  /\ Slice(x, off, len) \in Content
           /\ Len(Slice(x, off, len)) = len
<1>1. Len(x) \in Nat /\ \A i \in 1..Len(x) : x[i] \in Nat
  BY LenProperties, ElementOfSeq
<1>2. off + 1 \in Int /\ off + len \in Int /\ \A i \in off + 1..off + len : x[i] \in Nat
  BY <1>1
<1>3. /\ SubSeq(x, off + 1, off + len) \in Seq(Nat)
      /\ Len(SubSeq(x, off + 1, off + len))
            = IF off + 1 <= off + len THEN (off + len) - (off + 1) + 1 ELSE 0
  BY <1>2, SubSeqProperties
<1>4. Len(SubSeq(x, off + 1, off + len)) = len
  BY <1>3
<1> QED
  BY <1>3, <1>4, EmptySeq DEF Slice, Content

\* Appending tokens leaves the slices before them alone.
LEMMA SliceKept ==
    ASSUME NEW x \in Seq(Nat), NEW y \in Seq(Nat),
           NEW off \in Nat, NEW len \in Nat \ {0}, off + len <= Len(x)
    PROVE  Slice(x \o y, off, len) = Slice(x, off, len)
<1>1. Len(x) \in Nat
  BY LenProperties
<1>2. off + 1 \in 1..Len(x) /\ off + len \in 1..Len(x)
  BY <1>1
<1> QED
  BY <1>2, SubSeqOfConcat1 DEF Slice

\* What was appended is the last slice.
LEMMA SliceAdded ==
    ASSUME NEW x \in Seq(Nat), NEW y \in Content
    PROVE  Slice(x \o y, Len(x), Len(y)) = y
<1>1. y \in Seq(Nat) /\ Len(x) \in Nat /\ Len(y) \in Nat \ {0}
  BY LenProperties, EmptySeq DEF Content
<1> DEFINE m == Len(x)
           n == Len(y)
<1>2. m + 1 \in m + 1..m + n /\ m + n \in m + 1..m + n
  BY <1>1
<1>3. SubSeq(x \o y, m + 1, m + n) = SubSeq(y, (m + 1) - m, (m + n) - m)
  BY <1>1, <1>2, SubSeqOfConcat2
<1>4. (m + 1) - m = 1 /\ (m + n) - m = n
  BY <1>1
<1>5. SubSeq(y, 1, n) = y
  BY <1>1, SubSeqFull
<1> QED
  BY <1>3, <1>4, <1>5 DEF Slice

\* get() reads the slice.
LEMMA GetSlice ==
    ASSUME NEW a, NEW s, In(a.toks, s)
    PROVE  Get(a, s) = Slice(a.toks, s.off, s.len)
  BY DEF In, Get, Slice

LEMMA GetContent ==
    ASSUME NEW a, Sound(a), NEW s, In(a.toks, s)
    PROVE  Get(a, s) \in Content /\ Len(Get(a, s)) = s.len
<1>1. /\ a.toks \in Seq(Nat) /\ s.off \in Nat /\ s.len \in Nat \ {0}
      /\ s.off + s.len <= Len(a.toks)
  BY DEF Sound, In
<1>2. Get(a, s) = Slice(a.toks, s.off, s.len)
  BY GetSlice
<1> QED
  BY <1>1, <1>2, SliceFacts

-----------------------------------------------------------------------------
(* add().                                                                  *)

\* Adding a content keeps what is there, and finds or makes a place for it.
LEMMA AddFacts ==
    ASSUME NEW a, Sound(a), NEW run \in Content
    PROVE  LET b == Add(a, run)
           IN  /\ Sound(b)
               /\ DOMAIN b.at = DOMAIN a.at \cup {run}
               /\ Len(a.toks) <= Len(b.toks)
               /\ \A off \in Nat, len \in Nat \ {0} : off + len <= Len(a.toks) =>
                     Slice(b.toks, off, len) = Slice(a.toks, off, len)
               /\ \A s : Fits(a, s) => Fits(b, s) /\ Get(b, s) = Get(a, s)
<1> DEFINE b == Add(a, run)
           m == Len(a.toks)
           n == Len(run)
<1>1. /\ m \in Nat /\ n \in Nat \ {0} /\ run \in Seq(Nat) /\ a.toks \in Seq(Nat)
  BY LenProperties, EmptySeq DEF Sound, Content
<1>2. CASE run \in DOMAIN a.at
  <2>1. b = a
    BY <1>2 DEF Add
  <2> QED
    BY <2>1, <1>1, <1>2
<1>3. CASE run \notin DOMAIN a.at
  <2>1. /\ b = [toks |-> b.toks, at |-> b.at]
        /\ b.toks = a.toks \o run
        /\ DOMAIN b.at = DOMAIN a.at \cup {run}
        /\ b.at[run] = m
        /\ \A c \in DOMAIN a.at : c # run /\ b.at[c] = a.at[c]
    BY <1>3 DEF Add
  <2> HIDE DEF b
  <2>2. b.toks \in Seq(Nat) /\ Len(b.toks) = m + n
    BY <2>1, <1>1, ConcatProperties
  <2>3. \A off \in Nat, len \in Nat \ {0} : off + len <= m =>
           Slice(b.toks, off, len) = Slice(a.toks, off, len)
    BY <2>1, <1>1, SliceKept
  <2>4. \A c \in DOMAIN a.at : /\ a.at[c] \in Nat /\ Len(c) \in Nat \ {0}
                               /\ a.at[c] + Len(c) <= m
                               /\ Slice(a.toks, a.at[c], Len(c)) = c
    <3>1. \A c \in Content : Len(c) \in Nat \ {0}
      BY EmptySeq DEF Content
    <3> QED
      BY <3>1 DEF Sound
  <2> HIDE DEF m, n
  <2>5. ASSUME NEW c \in DOMAIN b.at
        PROVE  /\ b.at[c] \in Nat /\ b.at[c] + Len(c) <= Len(b.toks)
               /\ Slice(b.toks, b.at[c], Len(c)) = c
    <3>1. CASE c = run
      BY <3>1, <1>1, <2>1, <2>2, SliceAdded DEF m, n
    <3>2. CASE c \in DOMAIN a.at
      <4>1. b.at[c] = a.at[c]
        BY <3>2, <2>1
      <4>2. Slice(b.toks, a.at[c], Len(c)) = Slice(a.toks, a.at[c], Len(c))
        BY <3>2, <2>3, <2>4
      <4>3. a.at[c] + Len(c) <= Len(b.toks)
        BY <3>2, <1>1, <2>2, <2>4
      <4> QED
        BY <4>1, <4>2, <4>3, <3>2, <2>4
    <3> QED
      BY <2>1, <3>1, <3>2
  <2>6. \A c \in DOMAIN a.at : a.at[c] < m
    BY <2>4, <1>1
  <2>7. ASSUME NEW c \in DOMAIN b.at, NEW d \in DOMAIN b.at, b.at[c] = b.at[d]
        PROVE  c = d
    <3>1. CASE c \in DOMAIN a.at /\ d \in DOMAIN a.at
      BY <3>1, <2>1, <2>7 DEF Sound
    <3>2. CASE c = run \/ d = run
      BY <3>2, <1>1, <2>1, <2>4, <2>6, <2>7
    <3> QED
      BY <2>1, <3>1, <3>2
  <2>8. Sound(b)
    BY <2>1, <2>2, <2>5, <2>7 DEF Sound
  <2>9. ASSUME NEW s, Fits(a, s) PROVE Fits(b, s) /\ Get(b, s) = Get(a, s)
    <3>1. s.off \in Nat /\ s.len \in Nat \ {0} /\ s.off + s.len <= m
      BY <2>9 DEF Fits, In, m
    <3>2. In(b.toks, s)
      BY <3>1, <1>1, <2>2 DEF In
    <3>3. \A c \in DOMAIN b.at : b.at[c] = s.off => Len(c) = s.len
      <4>1. s.off < m
        BY <3>1, <1>1
      <4> QED
        BY <4>1, <1>1, <2>1, <2>9 DEF Fits
    <3>4. Get(b, s) = Get(a, s)
      BY <3>1, <3>2, <2>3, <2>9, GetSlice DEF Fits
    <3> QED
      BY <3>2, <3>3, <3>4 DEF Fits
  <2>10. m <= m + n
    BY <1>1
  <2> QED
    BY <2>1, <2>2, <2>3, <2>8, <2>9, <2>10 DEF m, b
<1> QED
  BY <1>2, <1>3

\* A span made of the offset of a content fits and reads that content.
LEMMA AddedSpan ==
    ASSUME NEW a, Sound(a), NEW c \in DOMAIN a.at, NEW s,
           s.off = a.at[c], s.len = Len(c)
    PROVE  Fits(a, s) /\ Get(a, s) = c
<1>1. Len(c) \in Nat \ {0}
  BY EmptySeq DEF Sound, Content
<1>2. In(a.toks, s)
  BY <1>1 DEF Sound, In
<1> QED
  BY <1>2, GetSlice DEF Sound, Fits

\* An arena without a map, whatever its tokens.
LEMMA Unmapped ==
    ASSUME NEW toks \in Seq(Nat)
    PROVE  /\ Sound([Empty EXCEPT !.toks = toks])
           /\ [Empty EXCEPT !.toks = toks].toks = toks
           /\ \A s : In(toks, s) => Fits([Empty EXCEPT !.toks = toks], s)
  BY DEF Empty, Sound, Fits

LEMMA EmptySound == Sound(Empty)
  BY EmptySeq DEF Empty, Sound

-----------------------------------------------------------------------------
(* The invariant.                                                          *)

SpanRecords == [off : Nat, len : Nat]

ImageOK(image) ==
    /\ image.toks \in Seq(Nat)
    /\ image.spans = [k \in DOMAIN image.spans |-> image.spans[k]]
    /\ \A k \in DOMAIN image.spans :
          image.spans[k] \in SpanRecords /\ In(image.toks, image.spans[k])

\* The body that the offset of a read belongs to is where it will look.
TokensOK(read) ==
    /\ read = [key |-> read.key, off |-> read.off, len |-> read.len,
               body |-> read.body, astray |-> read.astray, beside |-> read.beside]
    /\ read.len \in Nat /\ read.astray \in BOOLEAN /\ read.beside \in BOOLEAN
    /\ read.astray => compacting
    /\ LET a == IF read.astray THEN fresh ELSE arena
           s == [off |-> read.off, len |-> Len(read.body)]
       IN  Fits(a, s) /\ Get(a, s) = read.body

\* Unless a replacement came between, the length it has or will load is the
\* one of that body.
LengthOK(read) ==
    /\ read.len = 0 => read.key \in DOMAIN spans
    /\ ~read.beside =>
          IF read.len > 0 THEN read.len = Len(read.body)
          ELSE read.key \notin half /\ spans[read.key].len = Len(read.body)

ReadsOK == \A read \in reading : TokensOK(read) /\ LengthOK(read)

SpansOK ==
    /\ spans = [k \in DOMAIN spans |-> spans[k]]
    /\ \A k \in DOMAIN spans :
          /\ spans[k] \in SpanRecords /\ spans[k].len # 0
          /\ Whole(k) \in SpanRecords /\ Fits(Holder(k), Whole(k))

DueOK ==
    /\ due = [k \in DOMAIN due |-> due[k]]
    /\ \A k \in DOMAIN due : due[k] \in SpanRecords /\ Fits(arena, due[k])
    /\ \A k \in half : half = {k} /\ k \in DOMAIN due \cap DOMAIN spans
                       /\ spans[k].off = due[k].off
    /\ compacting => due = NoSpans

ArenaOK ==
    /\ compacting \in BOOLEAN
    /\ Sound(arena) /\ Sound(fresh)
    /\ todo \subseteq DOMAIN spans /\ (~compacting => todo = {})

DiskOK == disk = {} \/ \E image : disk = {image} /\ ImageOK(image)

ArenaInv == ArenaOK /\ SpansOK /\ DueOK /\ DiskOK /\ ReadsOK

LEMMA ArenaInvInit == Init => ArenaInv
  BY EmptySound
     DEF Init, ArenaInv, ArenaOK, SpansOK, DueOK, DiskOK, ReadsOK, NoSpans

\* What the spans stand for, in SpanBodies' words.
BodyMap == [k \in DOMAIN spans |-> Body(k)]
DueBodies == [k \in DOMAIN due \ half |-> Get(arena, due[k])]
SavedBodies == {[k \in DOMAIN image.spans |-> Get(image, image.spans[k])] : image \in disk}

\* No span is half stored when nothing is due.
LEMMA NothingHalf ==
    ASSUME ArenaInv, due = NoSpans
    PROVE  half = {}
  BY DEF ArenaInv, DueOK, NoSpans

\* Between compactions every body is in the arena.
LEMMA AtRest ==
    ASSUME ArenaInv, ~compacting, NEW k \in DOMAIN spans
    PROVE  /\ Holder(k) = arena /\ Body(k) = Get(arena, Whole(k))
           /\ Whole(k) \in SpanRecords /\ Fits(arena, Whole(k))
           /\ spans[k] \in SpanRecords /\ spans[k].len # 0
           /\ Len(Body(k)) = Whole(k).len
           /\ k \notin half => Whole(k) = spans[k]
<1>1. /\ Holder(k) = arena /\ Body(k) = Get(arena, Whole(k))
      /\ Whole(k) \in SpanRecords /\ Fits(arena, Whole(k))
      /\ spans[k] \in SpanRecords /\ spans[k].len # 0
  BY DEF ArenaInv, SpansOK, ArenaOK, Holder, Body
<1>2. Len(Get(arena, Whole(k))) = Whole(k).len
  BY <1>1, GetContent DEF ArenaInv, ArenaOK, Fits
<1> QED
  BY <1>1, <1>2 DEF Whole

\* Arenas that only grow keep the tokens of a read.
LEMMA TokensKept ==
    ASSUME NEW read, TokensOK(read), compacting' = compacting,
           \A s : Fits(arena, s) => Fits(arena', s) /\ Get(arena', s) = Get(arena, s),
           \A s : Fits(fresh, s) => Fits(fresh', s) /\ Get(fresh', s) = Get(fresh, s)
    PROVE  TokensOK(read)'
<1>1. CASE read.astray
  BY <1>1 DEF TokensOK
<1>2. CASE ~read.astray
  BY <1>2 DEF TokensOK
<1> QED
  BY <1>1, <1>2

-----------------------------------------------------------------------------
(* Registering.                                                            *)

LEMMA StartRegisterStep ==
    ASSUME ArenaInv, NEW keys \in SpanKeySets, NEW run \in Runs, StartRegister(keys, run)
    PROVE  ArenaInv' /\ Bodies!Next
<1> DEFINE a == Add(arena, run)
           new == [off |-> a.at[run], len |-> Len(run)]
<1>1. /\ ~compacting /\ due = NoSpans /\ arena' = a /\ due' = [k \in keys |-> new]
      /\ UNCHANGED <<spans, half, compacting, fresh, todo, disk, reading>> /\ todo = {}
      /\ Sound(arena) /\ Sound(fresh) /\ run \in Content
  BY ArenaConstants DEF StartRegister, Idle, ArenaInv, ArenaOK, rebuild, Content
<1>2. /\ Sound(a) /\ run \in DOMAIN a.at
      /\ \A s : Fits(arena, s) => Fits(a, s) /\ Get(a, s) = Get(arena, s)
  BY <1>1, AddFacts
<1>3. new \in SpanRecords /\ Fits(a, new) /\ Get(a, new) = run
  <2>1. a.at[run] \in Nat /\ Len(run) \in Nat
    BY <1>1, <1>2, LenProperties DEF Sound, Content
  <2> QED
    BY <1>2, <2>1, AddedSpan DEF SpanRecords
<1> HIDE DEF a, new
<1>4. half = {} /\ half' = {}
  BY <1>1, NothingHalf
<1>5. \A k \in DOMAIN spans : /\ Holder(k)' = a /\ Whole(k)' = spans[k]
                              /\ Whole(k) = spans[k] /\ Fits(arena, spans[k])
                              /\ Body(k)' = Body(k)
  <2>1. \A k : Holder(k)' = a /\ Whole(k)' = spans[k] /\ Body(k)' = Get(a, spans[k])
    BY <1>1, <1>4 DEF Holder, Whole, Body
  <2> QED
    BY <1>1, <1>2, <1>4, <2>1, AtRest
<1>6. ArenaInv'
  <2>1. SpansOK'
    BY <1>1, <1>2, <1>5, AtRest DEF SpansOK, ArenaInv
  <2>2. DueOK'
    BY <1>1, <1>3, <1>4 DEF DueOK
  <2>3. ArenaOK'
    BY <1>1, <1>2 DEF ArenaOK, ArenaInv
  <2>4. \A read \in reading : TokensOK(read)'
    BY <1>1, <1>2, TokensKept DEF ArenaInv, ReadsOK
  <2>5. \A read : LengthOK(read)' = LengthOK(read)
    BY <1>1 DEF LengthOK
  <2> QED
    BY <1>1, <2>1, <2>2, <2>3, <2>4, <2>5 DEF ArenaInv, DiskOK, ReadsOK
<1>7. Bodies!Register(keys, run)
  <2>1. BodyMap' = BodyMap
    BY <1>1, <1>5 DEF BodyMap
  <2>2. SavedBodies' = SavedBodies
    BY <1>1 DEF SavedBodies
  <2>3. DueBodies = Bodies!NoBodies
    BY <1>1 DEF DueBodies, NoSpans, Bodies!NoBodies
  <2>4. DOMAIN due' = keys /\ \A k \in keys : Get(a, due'[k]) = run
    BY <1>1, <1>3
  <2>5. DueBodies' = [k \in keys |-> run]
    BY <1>1, <1>4, <2>4 DEF DueBodies
  <2> QED
    BY <2>1, <2>2, <2>3, <2>5 DEF Bodies!Register, BodyMap, DueBodies, SavedBodies
<1> QED
  BY <1>6, <1>7 DEF Bodies!Next

\* What the four ways to put a run under a key have in common.
LEMMA PutCommon ==
    ASSUME ArenaInv, NEW k \in DOMAIN due,
           UNCHANGED <<arena, compacting, fresh, todo, disk>>
    PROVE  /\ ~compacting /\ todo = {} /\ Sound(arena)
           /\ due[k] \in SpanRecords /\ Fits(arena, due[k]) /\ due[k].len # 0
           /\ Len(Get(arena, due[k])) = due[k].len
           /\ DOMAIN DueWithout(k) = DOMAIN due \ {k}
           /\ \A j \in DOMAIN due \ {k} : DueWithout(k)[j] = due[j]
           /\ SavedBodies' = SavedBodies /\ DiskOK'
           /\ \A j : Holder(j) = arena /\ Holder(j)' = arena
           /\ \A read : TokensOK(read) => TokensOK(read)'
<1>1. ~compacting /\ todo = {} /\ Sound(arena) /\ due[k] \in SpanRecords /\ Fits(arena, due[k])
  BY DEF ArenaInv, ArenaOK, DueOK, NoSpans
<1>2. due[k].len # 0 /\ Len(Get(arena, due[k])) = due[k].len
  BY <1>1, GetContent DEF Fits, In
<1>3. SavedBodies' = SavedBodies /\ DiskOK'
  BY DEF SavedBodies, DiskOK, ArenaInv
<1>4. \A j : Holder(j) = arena /\ Holder(j)' = arena
  BY <1>1 DEF Holder
<1>5. \A read : TokensOK(read) => TokensOK(read)'
  BY DEF TokensOK
<1> QED
  BY <1>1, <1>2, <1>3, <1>4, <1>5 DEF DueWithout

LEMMA PutSpanStep ==
    ASSUME ArenaInv, NEW k \in DOMAIN due, PutSpan(k)
    PROVE  ArenaInv' /\ Bodies!Next
<1>1. /\ half = {} /\ half' = {} /\ k \notin DOMAIN spans
      /\ spans' = [j \in DOMAIN spans \cup {k} |-> IF j = k THEN due[k] ELSE spans[j]]
      /\ due' = DueWithout(k) /\ reading' = reading
      /\ UNCHANGED <<arena, compacting, fresh, todo, disk>>
  BY DEF PutSpan, rebuild
<1>2. /\ ~compacting /\ todo = {}
      /\ due[k] \in SpanRecords /\ Fits(arena, due[k]) /\ due[k].len # 0
      /\ DOMAIN DueWithout(k) = DOMAIN due \ {k}
      /\ \A j \in DOMAIN due \ {k} : DueWithout(k)[j] = due[j]
      /\ SavedBodies' = SavedBodies /\ DiskOK'
      /\ \A j : Holder(j)' = arena
      /\ \A read : TokensOK(read) => TokensOK(read)'
  BY <1>1, PutCommon
<1>3. \A j \in DOMAIN spans : spans'[j] = spans[j] /\ j # k
  BY <1>1
<1>4. \A j : Whole(j)' = spans'[j] /\ Body(j)' = Get(arena, spans'[j])
  BY <1>1, <1>2 DEF Whole, Body
<1>5. \A j \in DOMAIN spans : /\ Body(j) = Get(arena, spans[j]) /\ spans[j] \in SpanRecords
                              /\ Fits(arena, spans[j]) /\ spans[j].len # 0
  BY <1>1, <1>2, AtRest
<1>6. ArenaInv'
  <2>1. SpansOK'
    BY <1>1, <1>2, <1>3, <1>4, <1>5 DEF SpansOK
  <2>2. DueOK'
    BY <1>1, <1>2 DEF DueOK, ArenaInv, DueWithout
  <2>3. ArenaOK'
    BY <1>1, <1>2 DEF ArenaOK, ArenaInv
  <2>4. \A read : TokensOK(read) /\ LengthOK(read) => LengthOK(read)'
    BY <1>1, <1>3 DEF TokensOK, LengthOK
  <2> QED
    BY <1>1, <1>2, <2>1, <2>2, <2>3, <2>4 DEF ArenaInv, ReadsOK
<1>7. Bodies!Put(k) /\ k \in DOMAIN DueBodies
  <2>1. BodyMap' = [j \in DOMAIN BodyMap \cup {k} |->
                      IF j = k /\ (k \in DOMAIN BodyMap => Len(DueBodies[k]) >= Len(BodyMap[k]))
                      THEN DueBodies[k] ELSE BodyMap[j]]
    <3>1. DOMAIN spans' = DOMAIN spans \cup {k} /\ spans'[k] = due[k]
      BY <1>1
    <3> QED
      BY <1>1, <1>3, <1>4, <1>5, <3>1 DEF BodyMap, DueBodies
  <2>2. DueBodies' = [j \in DOMAIN DueBodies \ {k} |-> DueBodies[j]]
    BY <1>1, <1>2 DEF DueBodies
  <2> QED
    BY <1>1, <1>2, <2>1, <2>2 DEF Bodies!Put, BodyMap, DueBodies, SavedBodies
<1> QED
  BY <1>6, <1>7 DEF Bodies!Next, DueBodies

LEMMA KeepBodyStep ==
    ASSUME ArenaInv, NEW k \in DOMAIN due, KeepBody(k)
    PROVE  ArenaInv' /\ Bodies!Next
<1>1. /\ half = {} /\ half' = {} /\ k \in DOMAIN spans /\ due[k].len < spans[k].len
      /\ due' = DueWithout(k)
      /\ UNCHANGED <<arena, spans, compacting, fresh, todo, disk, reading>>
  BY DEF KeepBody, rebuild
<1>2. /\ ~compacting
      /\ due[k] \in SpanRecords /\ Len(Get(arena, due[k])) = due[k].len
      /\ DOMAIN DueWithout(k) = DOMAIN due \ {k}
      /\ \A j \in DOMAIN due \ {k} : DueWithout(k)[j] = due[j]
      /\ SavedBodies' = SavedBodies /\ DiskOK'
      /\ \A j : Holder(j) = arena /\ Holder(j)' = arena
      /\ \A read : TokensOK(read) => TokensOK(read)'
  BY <1>1, PutCommon
<1>3. \A j : Whole(j)' = Whole(j) /\ Whole(j) = spans[j] /\ Body(j)' = Body(j)
  BY <1>1, <1>2 DEF Whole, Body
<1>4. Len(Body(k)) = spans[k].len /\ spans[k] \in SpanRecords
  BY <1>1, <1>2, AtRest
<1>5. ArenaInv'
  <2>1. SpansOK' /\ ArenaOK'
    BY <1>1, <1>2, <1>3 DEF SpansOK, ArenaOK, ArenaInv
  <2>2. DueOK'
    BY <1>1, <1>2 DEF DueOK, ArenaInv, DueWithout
  <2>3. \A read : LengthOK(read)' = LengthOK(read)
    BY <1>1 DEF LengthOK
  <2> QED
    BY <1>1, <1>2, <2>1, <2>2, <2>3 DEF ArenaInv, ReadsOK
<1>6. Bodies!Put(k)
  <2>1. ~(Len(DueBodies[k]) >= Len(BodyMap[k])) /\ k \in DOMAIN BodyMap
    <3>1. due[k].len \in Nat /\ spans[k].len \in Nat
      BY <1>2, <1>4 DEF SpanRecords
    <3> QED
      BY <1>1, <1>2, <1>4, <3>1 DEF DueBodies, BodyMap
  <2>2. BodyMap' = BodyMap /\ DOMAIN BodyMap \cup {k} = DOMAIN BodyMap
    BY <1>1, <1>3 DEF BodyMap
  <2>3. BodyMap' = [j \in DOMAIN BodyMap \cup {k} |->
                      IF j = k /\ (k \in DOMAIN BodyMap => Len(DueBodies[k]) >= Len(BodyMap[k]))
                      THEN DueBodies[k] ELSE BodyMap[j]]
    BY <2>1, <2>2 DEF BodyMap
  <2>4. DueBodies' = [j \in DOMAIN DueBodies \ {k} |-> DueBodies[j]]
    BY <1>1, <1>2 DEF DueBodies
  <2> QED
    BY <1>2, <2>3, <2>4 DEF Bodies!Put, BodyMap, DueBodies, SavedBodies
<1>7. k \in DOMAIN DueBodies
  BY <1>1 DEF DueBodies
<1> QED
  BY <1>5, <1>6, <1>7 DEF Bodies!Next, DueBodies

\* The body changes with the offset.
LEMMA StoreOffsetStep ==
    ASSUME ArenaInv, NEW k \in DOMAIN due, StoreOffset(k)
    PROVE  ArenaInv' /\ Bodies!Next
<1> DEFINE Noted(read) == IF read.key = k /\ read.len = 0 THEN [read EXCEPT !.beside = TRUE]
                          ELSE read
<1>1. /\ half = {} /\ half' = {k} /\ k \in DOMAIN spans /\ due[k].len >= spans[k].len
      /\ spans' = [spans EXCEPT ![k].off = due[k].off] /\ due' = due
      /\ reading' = {Noted(read) : read \in reading}
      /\ UNCHANGED <<arena, compacting, fresh, todo, disk>>
  BY DEF StoreOffset, rebuild
<1>2. /\ ~compacting /\ Fits(arena, due[k])
      /\ due[k] \in SpanRecords /\ Len(Get(arena, due[k])) = due[k].len
      /\ SavedBodies' = SavedBodies /\ DiskOK'
      /\ \A j : Holder(j) = arena /\ Holder(j)' = arena
      /\ \A read : TokensOK(read) => TokensOK(read)'
  BY <1>1, PutCommon
<1>3. /\ \A j \in DOMAIN spans : /\ Body(j) = Get(arena, spans[j]) /\ spans[j] \in SpanRecords
                                 /\ Fits(arena, spans[j]) /\ spans[j].len # 0
                                 /\ Len(Body(j)) = spans[j].len
  BY <1>1, <1>2, AtRest
<1>4. /\ DOMAIN spans' = DOMAIN spans
      /\ \A j \in DOMAIN spans \ {k} : spans'[j] = spans[j]
      /\ spans'[k] \in SpanRecords /\ spans'[k].off = due[k].off /\ spans'[k].len = spans[k].len
  BY <1>1, <1>2, <1>3 DEF ArenaInv, SpansOK, SpanRecords
<1>5. \A j : Whole(j)' = IF j = k THEN due[k] ELSE spans'[j]
  BY <1>1 DEF Whole
<1>6. /\ Body(k)' = Get(arena, due[k])
      /\ \A j \in DOMAIN spans \ {k} : Body(j)' = Body(j)
  BY <1>2, <1>3, <1>4, <1>5 DEF Body
<1>7. ArenaInv'
  <2>1. SpansOK'
    <3>1. spans' = [j \in DOMAIN spans' |-> spans'[j]]
      BY <1>1
    <3> QED
      BY <1>1, <1>2, <1>3, <1>4, <1>5, <3>1 DEF SpansOK
  <2>2. DueOK'
    BY <1>1, <1>2, <1>4 DEF DueOK, ArenaInv
  <2>3. ArenaOK'
    BY <1>1, <1>4 DEF ArenaOK, ArenaInv
  <2>4. ASSUME NEW read \in reading PROVE TokensOK(Noted(read))' /\ LengthOK(Noted(read))'
    <3>1. TokensOK(read) /\ LengthOK(read)
      BY DEF ArenaInv, ReadsOK
    <3>2. CASE read.key = k /\ read.len = 0
      <4> PICK noted : noted = [read EXCEPT !.beside = TRUE]
        OBVIOUS
      <4>1. Noted(read) = noted
        BY <3>2
      <4>2. noted = [key |-> read.key, off |-> read.off, len |-> read.len,
                     body |-> read.body, astray |-> read.astray, beside |-> TRUE]
        BY <3>1 DEF TokensOK
      <4> HIDE DEF Noted
      <4>3. TokensOK(noted)
        BY <3>1, <3>2, <4>2 DEF TokensOK
      <4>4. LengthOK(noted)'
        BY <1>1, <1>4, <3>2, <4>2 DEF LengthOK
      <4> QED
        BY <1>2, <4>1, <4>3, <4>4
    <3>3. CASE ~(read.key = k /\ read.len = 0)
      <4>1. Noted(read) = read
        BY <3>3
      <4> HIDE DEF Noted
      <4>2. LengthOK(read)'
        BY <1>1, <1>4, <3>1, <3>3 DEF LengthOK, TokensOK
      <4> QED
        BY <1>2, <3>1, <4>1, <4>2
    <3> QED
      BY <3>2, <3>3
  <2> QED
    BY <1>1, <1>2, <2>1, <2>2, <2>3, <2>4 DEF ArenaInv, ReadsOK
<1>8. Bodies!Put(k) /\ k \in DOMAIN DueBodies
  <2>1. Len(DueBodies[k]) >= Len(BodyMap[k]) /\ DueBodies[k] = Get(arena, due[k])
    BY <1>1, <1>2, <1>3 DEF DueBodies, BodyMap
  <2>2. BodyMap' = [j \in DOMAIN BodyMap \cup {k} |->
                      IF j = k /\ (k \in DOMAIN BodyMap => Len(DueBodies[k]) >= Len(BodyMap[k]))
                      THEN DueBodies[k] ELSE BodyMap[j]]
    BY <1>1, <1>4, <1>6, <2>1 DEF BodyMap
  <2>3. DueBodies' = [j \in DOMAIN DueBodies \ {k} |-> DueBodies[j]]
    BY <1>1 DEF DueBodies
  <2> QED
    BY <1>1, <1>2, <2>2, <2>3 DEF Bodies!Put, BodyMap, DueBodies, SavedBodies
<1> QED
  BY <1>7, <1>8 DEF Bodies!Next, DueBodies

\* The length follows, and changes nothing that could be told from outside.
LEMMA StoreLengthStep ==
    ASSUME ArenaInv, NEW k \in DOMAIN due, StoreLength(k)
    PROVE  ArenaInv' /\ UNCHANGED Bodies!bodyVars
<1>1. /\ half = {k} /\ half' = {} /\ k \in DOMAIN spans /\ spans[k].off = due[k].off
      /\ spans' = [spans EXCEPT ![k].len = due[k].len] /\ due' = DueWithout(k)
      /\ UNCHANGED <<arena, compacting, fresh, todo, disk, reading>>
  BY DEF StoreLength, rebuild, ArenaInv, DueOK
<1>2. /\ ~compacting /\ due[k].len # 0
      /\ due[k] \in SpanRecords /\ Fits(arena, due[k])
      /\ DOMAIN DueWithout(k) = DOMAIN due \ {k}
      /\ \A j \in DOMAIN due \ {k} : DueWithout(k)[j] = due[j]
      /\ SavedBodies' = SavedBodies /\ DiskOK'
      /\ \A j : Holder(j) = arena /\ Holder(j)' = arena
      /\ \A read : TokensOK(read) => TokensOK(read)'
  BY <1>1, PutCommon
<1>3. \A j \in DOMAIN spans : /\ Whole(j) \in SpanRecords /\ Fits(arena, Whole(j))
                              /\ spans[j] \in SpanRecords /\ spans[j].len # 0
  BY <1>2, AtRest
<1>4. /\ DOMAIN spans' = DOMAIN spans
      /\ \A j \in DOMAIN spans \ {k} : spans'[j] = spans[j]
      /\ spans'[k] = due[k]
  <2>1. spans'[k] = [spans[k] EXCEPT !.len = due[k].len]
    BY <1>1 DEF ArenaInv, SpansOK
  <2>2. spans'[k] = due[k]
    BY <1>1, <1>2, <1>3, <2>1 DEF SpanRecords
  <2> QED
    BY <1>1, <2>2
<1>5. \A j \in DOMAIN spans : Whole(j)' = Whole(j) /\ Whole(j) = spans'[j]
  BY <1>1, <1>4 DEF Whole
<1>6. \A j \in DOMAIN spans : Body(j)' = Body(j)
  BY <1>1, <1>2, <1>5 DEF Body
<1>7. ArenaInv'
  <2>1. SpansOK'
    <3>1. spans' = [j \in DOMAIN spans' |-> spans'[j]]
      BY <1>1
    <3>2. \A j \in DOMAIN spans' : spans'[j] \in SpanRecords /\ spans'[j].len # 0
      BY <1>2, <1>3, <1>4
    <3> QED
      BY <1>2, <1>3, <1>4, <1>5, <3>1, <3>2 DEF SpansOK
  <2>2. DueOK'
    BY <1>1, <1>2 DEF DueOK, ArenaInv, DueWithout
  <2>3. ArenaOK'
    BY <1>1, <1>4 DEF ArenaOK, ArenaInv
  <2>4. ASSUME NEW read, LengthOK(read) PROVE LengthOK(read)'
    BY <1>1, <1>4, <2>4 DEF LengthOK
  <2> QED
    BY <1>1, <1>2, <2>1, <2>2, <2>3, <2>4 DEF ArenaInv, ReadsOK
<1>8. BodyMap' = BodyMap /\ DueBodies' = DueBodies
  BY <1>1, <1>2, <1>4, <1>6 DEF BodyMap, DueBodies
<1> QED
  BY <1>2, <1>7, <1>8 DEF Bodies!bodyVars, BodyMap, DueBodies, SavedBodies

-----------------------------------------------------------------------------
(* Compaction, lookups, snapshots.                                         *)

LEMMA StartCompactStep ==
    ASSUME ArenaInv, NEW kept \in SUBSET DOMAIN spans, StartCompact(kept)
    PROVE  ArenaInv' /\ Bodies!Next
<1> DEFINE Noted(read) == IF read.key \notin kept /\ read.len = 0
                          THEN [read EXCEPT !.len = spans[read.key].len] ELSE read
<1>1. /\ ~compacting /\ compacting' = TRUE /\ fresh' = Empty /\ todo' = kept
      /\ spans' = [k \in kept |-> spans[k]]
      /\ reading' = {Noted(read) : read \in reading}
      /\ UNCHANGED <<arena, due, half, disk>> /\ due = NoSpans
  BY DEF StartCompact, Idle, registering
<1>2. half = {}
  BY <1>1, NothingHalf
<1>3. DOMAIN spans' = kept /\ \A k \in kept : spans'[k] = spans[k]
  BY <1>1
<1>4. \A k \in kept : /\ spans[k] \in SpanRecords /\ Fits(arena, spans[k])
                      /\ Body(k) = Get(arena, spans[k])
                      /\ spans[k].len # 0 /\ Whole(k)' = spans[k]
                      /\ Holder(k)' = arena /\ Body(k)' = Body(k)
  <2>1. \A k \in kept : Holder(k)' = arena /\ Whole(k)' = spans[k] /\ Body(k)' = Get(arena, spans[k])
    BY <1>1, <1>2, <1>3 DEF Holder, Whole, Body
  <2> QED
    BY <1>1, <1>2, <2>1, AtRest
<1>5. ArenaInv'
  <2>1. SpansOK'
    BY <1>1, <1>3, <1>4 DEF SpansOK
  <2>2. ArenaOK'
    BY <1>1, <1>3, EmptySound DEF ArenaOK, ArenaInv
  <2>3. DueOK'
    BY <1>1, <1>2 DEF DueOK, ArenaInv, NoSpans
  <2>4. ASSUME NEW noted \in reading' PROVE TokensOK(noted)' /\ LengthOK(noted)'
    <3> PICK read \in reading : noted = Noted(read)
      BY <1>1
    <3>1. TokensOK(read) /\ LengthOK(read) /\ ~read.astray
      BY <1>1 DEF ArenaInv, ReadsOK, TokensOK
    <3>2. TokensOK(read)'
      BY <1>1, <3>1 DEF TokensOK
    <3>3. CASE read.key \notin kept /\ read.len = 0
      <4> PICK len : len = spans[read.key].len
        OBVIOUS
      <4>1. len \in Nat \ {0} /\ (~read.beside => len = Len(read.body))
        <5>1. read.key \in DOMAIN spans
          BY <3>1, <3>3 DEF LengthOK
        <5>2. spans[read.key] \in SpanRecords /\ spans[read.key].len # 0
          BY <1>1, <5>1, AtRest
        <5> QED
          BY <3>1, <3>3, <5>2 DEF LengthOK, SpanRecords
      <4>2. noted = [key |-> read.key, off |-> read.off, len |-> len, body |-> read.body,
                     astray |-> read.astray, beside |-> read.beside]
        BY <3>1, <3>3 DEF TokensOK
      <4>3. TokensOK(noted)'
        BY <3>2, <4>1, <4>2 DEF TokensOK
      <4>4. LengthOK(noted)'
        BY <4>1, <4>2 DEF LengthOK
      <4> QED
        BY <4>3, <4>4
    <3>4. CASE ~(read.key \notin kept /\ read.len = 0)
      <4>1. noted = read
        BY <3>4
      <4>2. LengthOK(read)'
        BY <1>1, <1>2, <1>3, <3>1, <3>4 DEF LengthOK, TokensOK
      <4> QED
        BY <3>2, <4>1, <4>2
    <3> QED
      BY <3>3, <3>4
  <2> QED
    BY <1>1, <2>1, <2>2, <2>3, <2>4 DEF ArenaInv, DiskOK, ReadsOK
<1>6. Bodies!Discard(kept)
  <2>1. BodyMap' = [k \in kept |-> BodyMap[k]]
    <3>1. BodyMap' = [k \in kept |-> Body(k)]
      BY <1>3, <1>4 DEF BodyMap
    <3> QED
      BY <3>1 DEF BodyMap
  <2>2. SavedBodies' = SavedBodies
    BY <1>1 DEF SavedBodies
  <2>3. DueBodies = Bodies!NoBodies /\ DueBodies' = DueBodies
    BY <1>1, <1>2 DEF DueBodies, Bodies!NoBodies, NoSpans
  <2> QED
    BY <2>1, <2>2, <2>3 DEF Bodies!Discard, BodyMap, DueBodies, SavedBodies
<1>7. kept \in SUBSET DOMAIN BodyMap
  BY DEF BodyMap
<1> QED
  BY <1>5, <1>6, <1>7 DEF Bodies!Next, BodyMap

\* While compact() goes on nothing is due.
LEMMA CompactingAlone ==
    ASSUME ArenaInv, compacting
    PROVE  /\ due = NoSpans /\ half = {} /\ \A k : Whole(k) = spans[k]
           /\ \A k \in DOMAIN spans : spans[k].len # 0
<1>1. due = NoSpans
  BY DEF ArenaInv, DueOK
<1>2. half = {}
  BY <1>1, NothingHalf
<1> QED
  BY <1>1, <1>2 DEF Whole, ArenaInv, SpansOK

\* Moving a span to the fresh arena moves none of the bodies.
LEMMA CopyStep ==
    ASSUME ArenaInv, NEW k \in todo, CopySpan(k)
    PROVE  ArenaInv' /\ UNCHANGED Bodies!bodyVars
<1> DEFINE body == Get(arena, spans[k])
           b == Add(fresh, body)
           moved == [spans[k] EXCEPT !.off = b.at[body]]
<1>1. /\ compacting /\ compacting' = compacting /\ fresh' = b /\ todo' = todo \ {k}
      /\ spans' = [spans EXCEPT ![k] = moved]
      /\ UNCHANGED <<arena, disk, reading, due, half>>
      /\ Sound(arena) /\ Sound(fresh) /\ k \in DOMAIN spans /\ todo \subseteq DOMAIN spans
  BY DEF CopySpan, ArenaInv, ArenaOK, registering
<1>2. /\ due = NoSpans /\ half = {} /\ half' = {}
      /\ \A j : Whole(j) = spans[j] /\ Whole(j)' = spans'[j]
      /\ \A j \in DOMAIN spans : spans[j].len # 0
  BY <1>1, CompactingAlone DEF Whole
<1>3. spans[k] \in SpanRecords /\ Fits(arena, spans[k]) /\ Body(k) = body
  BY <1>1, <1>2 DEF ArenaInv, SpansOK, Holder, Body
<1>4. body \in Content /\ Len(body) = spans[k].len
  BY <1>1, <1>3, GetContent DEF Fits
<1> HIDE DEF body
<1>5. /\ Sound(b) /\ body \in DOMAIN b.at
      /\ \A s : Fits(fresh, s) => Fits(b, s) /\ Get(b, s) = Get(fresh, s)
  BY <1>1, <1>4, AddFacts
<1> HIDE DEF b
<1>6. /\ moved \in SpanRecords /\ moved.len = spans[k].len
      /\ Fits(b, moved) /\ Get(b, moved) = body
  <2>1. b.at[body] \in Nat
    BY <1>5 DEF Sound
  <2>2. moved.off = b.at[body] /\ moved.len = spans[k].len /\ moved \in SpanRecords
    BY <1>3, <2>1 DEF SpanRecords
  <2> HIDE DEF moved
  <2> QED
    BY <1>4, <1>5, <2>2, AddedSpan
<1> HIDE DEF moved
<1>7. DOMAIN spans' = DOMAIN spans
  BY <1>1
<1>8. ASSUME NEW j \in DOMAIN spans
      PROVE  /\ spans'[j] \in SpanRecords /\ spans'[j].len = spans[j].len
             /\ Fits(Holder(j)', spans'[j]) /\ Body(j)' = Body(j)
  <2>1. CASE j = k
    <3>1. Holder(j)' = b /\ spans'[j] = moved
      BY <1>1, <2>1 DEF Holder, ArenaInv, SpansOK
    <3> QED
      BY <1>2, <1>3, <1>6, <2>1, <3>1 DEF Body
  <2>2. CASE j # k /\ j \in todo
    <3>1. Holder(j)' = arena /\ Holder(j) = arena /\ spans'[j] = spans[j]
      BY <1>1, <2>2 DEF Holder, ArenaInv, SpansOK
    <3> QED
      BY <1>2, <3>1 DEF Body, ArenaInv, SpansOK
  <2>3. CASE j # k /\ j \notin todo
    <3>1. Holder(j)' = b /\ Holder(j) = fresh /\ spans'[j] = spans[j]
      BY <1>1, <2>3 DEF Holder, ArenaInv, SpansOK
    <3>2. spans[j] \in SpanRecords /\ Fits(fresh, spans[j])
      BY <1>2, <3>1 DEF ArenaInv, SpansOK
    <3> QED
      BY <1>2, <1>5, <3>1, <3>2 DEF Body
  <2> QED
    BY <2>1, <2>2, <2>3
<1>9. ArenaInv'
  <2>1. SpansOK'
    <3>1. spans' = [j \in DOMAIN spans' |-> spans'[j]]
      BY <1>1
    <3> QED
      BY <1>2, <1>7, <1>8, <3>1 DEF SpansOK
  <2>2. ArenaOK'
    BY <1>1, <1>5, <1>7 DEF ArenaOK, ArenaInv
  <2>3. DueOK'
    BY <1>1, <1>2 DEF DueOK, ArenaInv, NoSpans
  <2>4. \A read \in reading : TokensOK(read)'
    BY <1>1, <1>5, TokensKept DEF ArenaInv, ReadsOK
  <2>5. \A read : LengthOK(read) => LengthOK(read)'
    BY <1>1, <1>2, <1>7, <1>8 DEF LengthOK
  <2> QED
    BY <1>1, <2>1, <2>2, <2>3, <2>4, <2>5 DEF ArenaInv, DiskOK, ReadsOK
<1>10. BodyMap' = BodyMap /\ SavedBodies' = SavedBodies /\ DueBodies' = DueBodies
  BY <1>1, <1>7, <1>8 DEF BodyMap, SavedBodies, DueBodies
<1> QED
  BY <1>9, <1>10 DEF Bodies!bodyVars, BodyMap, SavedBodies, DueBodies

LEMMA EndCompactStep ==
    ASSUME ArenaInv, EndCompact
    PROVE  ArenaInv' /\ UNCHANGED Bodies!bodyVars
<1>1. /\ compacting /\ todo = {} /\ arena' = fresh /\ compacting' = FALSE /\ fresh' = Empty
      /\ reading' = Swapped /\ UNCHANGED <<spans, todo, disk, due, half>>
  BY DEF EndCompact, registering
<1>2. due = NoSpans /\ half = {} /\ DOMAIN due = {}
  BY <1>1, CompactingAlone DEF NoSpans
<1>3. \A k : /\ Holder(k) = fresh /\ Holder(k)' = fresh
             /\ Whole(k)' = Whole(k) /\ Body(k)' = Body(k)
  BY <1>1, <1>2 DEF Holder, Whole, Body
<1>4. SpansOK' /\ ArenaOK' /\ DueOK'
  BY <1>1, <1>2, <1>3, EmptySound DEF SpansOK, ArenaOK, DueOK, ArenaInv
<1>5. ASSUME NEW read \in reading' PROVE TokensOK(read)' /\ LengthOK(read)'
  <2>1. PICK q \in reading : q.astray /\ read = [q EXCEPT !.astray = FALSE]
    BY <1>1 DEF Swapped
  <2>2. TokensOK(q) /\ LengthOK(q)
    BY DEF ArenaInv, ReadsOK
  <2>3. read = [key |-> q.key, off |-> q.off, len |-> q.len,
                body |-> q.body, astray |-> FALSE, beside |-> q.beside]
    BY <2>1, <2>2 DEF TokensOK
  <2>4. TokensOK(read)'
    BY <1>1, <2>1, <2>2, <2>3 DEF TokensOK
  <2>5. LengthOK(read)'
    BY <1>1, <2>2, <2>3 DEF LengthOK
  <2> QED
    BY <2>4, <2>5
<1>6. BodyMap' = BodyMap /\ SavedBodies' = SavedBodies /\ DueBodies' = DueBodies
  BY <1>1, <1>2, <1>3 DEF BodyMap, SavedBodies, DueBodies
<1> QED
  BY <1>1, <1>4, <1>5, <1>6
     DEF ArenaInv, DiskOK, ReadsOK, Bodies!bodyVars, BodyMap, SavedBodies, DueBodies

\* What every step of a lookup leaves alone.
LEMMA ReadCommon ==
    ASSUME ArenaInv, UNCHANGED <<arena, spans, due, half, compacting, fresh, todo, disk>>
    PROVE  /\ ArenaOK' /\ SpansOK' /\ DueOK' /\ DiskOK'
           /\ UNCHANGED Bodies!bodyVars
           /\ \A read : TokensOK(read)' = TokensOK(read) /\ LengthOK(read)' = LengthOK(read)
<1>1. \A k : Holder(k)' = Holder(k) /\ Whole(k)' = Whole(k) /\ Body(k)' = Body(k)
  BY DEF Holder, Whole, Body
<1>2. BodyMap' = BodyMap /\ SavedBodies' = SavedBodies /\ DueBodies' = DueBodies
  BY <1>1 DEF BodyMap, SavedBodies, DueBodies
<1>3. ArenaOK' /\ SpansOK' /\ DueOK' /\ DiskOK'
  BY <1>1 DEF ArenaInv, ArenaOK, SpansOK, DueOK, DiskOK
<1>4. \A read : TokensOK(read)' = TokensOK(read) /\ LengthOK(read)' = LengthOK(read)
  BY DEF TokensOK, LengthOK
<1> QED
  BY <1>2, <1>3, <1>4 DEF Bodies!bodyVars, BodyMap, SavedBodies, DueBodies

LEMMA LoadOffsetStep ==
    ASSUME ArenaInv, NEW k \in DOMAIN spans, LoadOffset(k)
    PROVE  ArenaInv' /\ UNCHANGED Bodies!bodyVars
<1>1. /\ UNCHANGED <<arena, spans, due, half, compacting, fresh, todo, disk>>
      /\ reading' = {[key |-> k, off |-> spans[k].off, len |-> 0, body |-> Body(k),
                      astray |-> compacting /\ k \notin todo, beside |-> k \in half]}
  BY DEF LoadOffset, registering, rebuild
<1> DEFINE s == [off |-> spans[k].off, len |-> Len(Body(k))]
<1>2. /\ Sound(Holder(k)) /\ Whole(k) \in SpanRecords /\ Fits(Holder(k), Whole(k))
      /\ Body(k) = Get(Holder(k), Whole(k))
  BY DEF ArenaInv, ArenaOK, SpansOK, Holder, Body
<1>3. Len(Body(k)) = Whole(k).len
  BY <1>2, GetContent DEF Fits
<1>4. Whole(k).off = spans[k].off /\ (k \notin half => Whole(k) = spans[k])
  BY DEF Whole, ArenaInv, DueOK
<1>5. Fits(Holder(k), s) /\ Get(Holder(k), s) = Body(k)
  <2>1. s.off = Whole(k).off /\ s.len = Whole(k).len
    BY <1>3, <1>4
  <2> HIDE DEF s
  <2> QED
    BY <1>2, <2>1 DEF Fits, In, Get
<1>6. ASSUME NEW read \in reading' PROVE TokensOK(read) /\ LengthOK(read)
  <2>1. read = [key |-> k, off |-> spans[k].off, len |-> 0, body |-> Body(k),
                astray |-> compacting /\ k \notin todo, beside |-> k \in half]
    BY <1>1
  <2>2. /\ read = [key |-> read.key, off |-> read.off, len |-> read.len,
                   body |-> read.body, astray |-> read.astray, beside |-> read.beside]
        /\ read.key = k /\ read.off = spans[k].off /\ read.len = 0 /\ read.body = Body(k)
        /\ read.astray = (compacting /\ k \notin todo) /\ read.beside = (k \in half)
        /\ read.astray \in BOOLEAN /\ read.beside \in BOOLEAN
    BY <2>1
  <2>3. (IF read.astray THEN fresh ELSE arena) = Holder(k)
    BY <2>2 DEF Holder
  <2>4. [off |-> read.off, len |-> Len(read.body)] = s
    BY <2>2
  <2> HIDE DEF s
  <2>5. TokensOK(read)
    <3>1. read.astray => compacting
      BY <2>2
    <3>2. Fits(IF read.astray THEN fresh ELSE arena, [off |-> read.off, len |-> Len(read.body)])
          /\ Get(IF read.astray THEN fresh ELSE arena, [off |-> read.off, len |-> Len(read.body)])
                = read.body
      BY <1>5, <2>2, <2>3, <2>4
    <3>3. read.len \in Nat
      BY <2>2
    <3> QED
      BY <2>2, <3>1, <3>2, <3>3 DEF TokensOK
  <2>6. LengthOK(read)
    <3>1. ~read.beside => k \notin half /\ spans[k].len = Len(read.body)
      BY <1>3, <1>4, <2>2
    <3>2. ~(read.len > 0) /\ read.key \in DOMAIN spans
      BY <2>2
    <3> QED
      BY <2>2, <3>1, <3>2 DEF LengthOK
  <2> QED
    BY <2>5, <2>6
<1>7. ReadsOK'
  BY <1>1, <1>6, ReadCommon DEF ReadsOK
<1> QED
  BY <1>1, <1>7, ReadCommon DEF ArenaInv

LEMMA LoadLengthStep ==
    ASSUME ArenaInv, NEW read \in reading, LoadLength(read)
    PROVE  ArenaInv' /\ UNCHANGED Bodies!bodyVars
<1> PICK len : len = spans[read.key].len
  OBVIOUS
<1> DEFINE noted == [read EXCEPT !.len = len]
<1>1. /\ UNCHANGED <<arena, spans, due, half, compacting, fresh, todo, disk>>
      /\ read.len = 0 /\ reading' = {noted}
  BY DEF LoadLength, registering, rebuild
<1>2. TokensOK(read) /\ LengthOK(read)
  BY DEF ArenaInv, ReadsOK
<1>3. len \in Nat \ {0} /\ (~read.beside => len = Len(read.body))
  <2>1. spans[read.key] \in SpanRecords /\ spans[read.key].len # 0
    BY <1>1, <1>2 DEF ArenaInv, SpansOK, LengthOK
  <2> QED
    BY <1>1, <1>2, <2>1 DEF LengthOK, SpanRecords
<1>4. noted = [key |-> read.key, off |-> read.off, len |-> len, body |-> read.body,
               astray |-> read.astray, beside |-> read.beside]
  BY <1>2 DEF TokensOK
<1> HIDE DEF noted
<1>5. TokensOK(noted)
  BY <1>2, <1>3, <1>4 DEF TokensOK
<1>6. LengthOK(noted)
  BY <1>3, <1>4 DEF LengthOK
<1>7. ReadsOK'
  BY <1>1, <1>5, <1>6, ReadCommon DEF ReadsOK
<1> QED
  BY <1>1, <1>7, ReadCommon DEF ArenaInv

LEMMA EndReadStep ==
    ASSUME ArenaInv, NEW read \in reading, EndRead(read)
    PROVE  ArenaInv' /\ UNCHANGED Bodies!bodyVars
<1>1. /\ UNCHANGED <<arena, spans, due, half, compacting, fresh, todo, disk>>
      /\ reading' \subseteq reading
  BY DEF EndRead, registering, rebuild
<1>2. ReadsOK'
  BY <1>1, ReadCommon DEF ArenaInv, ReadsOK
<1> QED
  BY <1>1, <1>2, ReadCommon DEF ArenaInv

LEMMA SaveStep ==
    ASSUME ArenaInv, Save
    PROVE  ArenaInv' /\ Bodies!Next
<1> DEFINE image == [toks |-> arena.toks, spans |-> spans]
<1>1. /\ ~compacting /\ due = NoSpans /\ disk' = {image}
      /\ UNCHANGED <<arena, spans, due, half, compacting, fresh, todo, reading>>
  BY DEF Save, Idle, rebuild, registering
<1>2. image.toks = arena.toks /\ image.spans = spans
  OBVIOUS
<1> HIDE DEF image
<1>3. half = {}
  BY <1>1, NothingHalf
<1>4. \A k \in DOMAIN spans : /\ spans[k] \in SpanRecords /\ In(arena.toks, spans[k])
                              /\ Body(k) = Get(arena, spans[k])
  BY <1>1, <1>3, AtRest DEF Fits
<1>5. ImageOK(image)
  <2>1. arena.toks \in Seq(Nat) /\ spans = [k \in DOMAIN spans |-> spans[k]]
    BY DEF ArenaInv, ArenaOK, SpansOK, Sound
  <2> QED
    BY <1>2, <1>4, <2>1 DEF ImageOK
<1>6. \A k : Holder(k)' = Holder(k) /\ Whole(k)' = Whole(k) /\ Body(k)' = Body(k)
  BY <1>1 DEF Holder, Whole, Body
<1>7. ArenaInv'
  <2>1. ArenaOK' /\ SpansOK' /\ DueOK'
    BY <1>1, <1>6 DEF ArenaInv, ArenaOK, SpansOK, DueOK
  <2>2. \A read \in reading' : TokensOK(read)' /\ LengthOK(read)'
    BY <1>1 DEF ArenaInv, ReadsOK, TokensOK, LengthOK
  <2> QED
    BY <1>1, <1>5, <2>1, <2>2 DEF ArenaInv, DiskOK, ReadsOK
<1>8. BodyMap' = BodyMap /\ DueBodies' = DueBodies /\ DueBodies = Bodies!NoBodies
  BY <1>1, <1>3, <1>6 DEF BodyMap, DueBodies, Bodies!NoBodies, NoSpans
<1>9. SavedBodies' = {BodyMap}
  <2>1. \A k \in DOMAIN spans : Get(image, image.spans[k]) = Body(k)
    BY <1>2, <1>4 DEF Get
  <2>2. SavedBodies' = {[k \in DOMAIN image.spans |-> Get(image, image.spans[k])]}
    BY <1>1 DEF SavedBodies
  <2> QED
    BY <1>2, <2>1, <2>2 DEF BodyMap
<1>10. Bodies!Save
  BY <1>8, <1>9 DEF Bodies!Save, BodyMap, DueBodies, SavedBodies
<1> QED
  BY <1>7, <1>10 DEF Bodies!Next

LEMMA LoadStep ==
    ASSUME ArenaInv, NEW image \in disk, Load(image)
    PROVE  ArenaInv' /\ Bodies!Next
<1> DEFINE a == [Empty EXCEPT !.toks = image.toks]
<1>1. /\ ~compacting /\ due = NoSpans
      /\ arena' = a /\ spans' = image.spans /\ reading' = {}
      /\ UNCHANGED <<due, half, compacting, fresh, todo, disk>> /\ todo = {}
  BY DEF Load, Idle, rebuild, registering, ArenaInv, ArenaOK
<1>2. disk = {image} /\ ImageOK(image)
  BY DEF ArenaInv, DiskOK
<1>3. Sound(a) /\ a.toks = image.toks /\ \A s : In(image.toks, s) => Fits(a, s)
  BY <1>2, Unmapped DEF ImageOK
<1> HIDE DEF a
<1>4. half = {} /\ half' = {} /\ DOMAIN due = {}
  BY <1>1, NothingHalf DEF NoSpans
<1>5. \A k : /\ Holder(k)' = a /\ Whole(k)' = image.spans[k]
             /\ Body(k)' = Get(image, image.spans[k])
  BY <1>1, <1>3, <1>4 DEF Holder, Whole, Body, Get
<1>6. ArenaInv'
  <2>1. SpansOK'
    BY <1>1, <1>2, <1>3, <1>5 DEF SpansOK, ImageOK, In
  <2>2. ArenaOK'
    BY <1>1, <1>3 DEF ArenaOK, ArenaInv
  <2>3. DueOK'
    BY <1>1, <1>4 DEF DueOK, ArenaInv
  <2> QED
    BY <1>1, <2>1, <2>2, <2>3 DEF ArenaInv, DiskOK, ReadsOK
<1>7. SavedBodies = {BodyMap'} /\ SavedBodies' = SavedBodies
  BY <1>1, <1>2, <1>5 DEF SavedBodies, BodyMap
<1>8. DueBodies = Bodies!NoBodies /\ DueBodies' = DueBodies
  BY <1>1, <1>4 DEF DueBodies, Bodies!NoBodies
<1>9. Bodies!Load
  BY <1>7, <1>8 DEF Bodies!Load, BodyMap, DueBodies, SavedBodies
<1> QED
  BY <1>6, <1>9 DEF Bodies!Next

LEMMA RestartStep ==
    ASSUME ArenaInv, Restart
    PROVE  ArenaInv' /\ Bodies!Next
<1>1. /\ arena' = Empty /\ spans' = NoSpans /\ due' = NoSpans /\ half' = {}
      /\ compacting' = FALSE /\ fresh' = Empty
      /\ todo' = {} /\ reading' = {} /\ disk' = disk
  BY DEF Restart
<1>2. /\ DOMAIN spans' = {} /\ spans' = [k \in {} |-> spans'[k]]
      /\ DOMAIN due' = {} /\ due' = [k \in {} |-> due'[k]]
  BY <1>1 DEF NoSpans
<1>3. ArenaInv'
  BY <1>1, <1>2, EmptySound DEF ArenaInv, ArenaOK, SpansOK, DueOK, DiskOK, ReadsOK
<1>4. /\ BodyMap' = Bodies!NoBodies /\ DueBodies' = Bodies!NoBodies
      /\ SavedBodies' = SavedBodies
  BY <1>1, <1>2 DEF BodyMap, DueBodies, SavedBodies, Bodies!NoBodies
<1>5. Bodies!Restart
  BY <1>4 DEF Bodies!Restart, BodyMap, DueBodies, SavedBodies
<1> QED
  BY <1>3, <1>5 DEF Bodies!Next

LEMMA ArenaStep ==
    ArenaInv /\ [Next]_vars => ArenaInv' /\ [Bodies!Next]_(Bodies!bodyVars)
<1> SUFFICES ASSUME ArenaInv, [Next]_vars
             PROVE  ArenaInv' /\ (Bodies!Next \/ UNCHANGED Bodies!bodyVars)
  OBVIOUS
<1>1. ASSUME NEW keys \in SpanKeySets, NEW run \in Runs, StartRegister(keys, run)
      PROVE  ArenaInv' /\ Bodies!Next
  BY <1>1, StartRegisterStep
<1>2. ASSUME NEW k \in DOMAIN due,
             PutSpan(k) \/ KeepBody(k) \/ StoreOffset(k)
      PROVE  ArenaInv' /\ Bodies!Next
  BY <1>2, PutSpanStep, KeepBodyStep, StoreOffsetStep
<1>3. ASSUME NEW k \in DOMAIN due, StoreLength(k)
      PROVE  ArenaInv' /\ UNCHANGED Bodies!bodyVars
  BY <1>3, StoreLengthStep
<1>4. ASSUME NEW kept \in SUBSET DOMAIN spans, StartCompact(kept)
      PROVE  ArenaInv' /\ Bodies!Next
  BY <1>4, StartCompactStep
<1>5. ASSUME NEW k \in todo, CopySpan(k)
      PROVE  ArenaInv' /\ UNCHANGED Bodies!bodyVars
  BY <1>5, CopyStep
<1>6. CASE EndCompact
  BY <1>6, EndCompactStep
<1>7. ASSUME NEW k \in DOMAIN spans, LoadOffset(k)
      PROVE  ArenaInv' /\ UNCHANGED Bodies!bodyVars
  BY <1>7, LoadOffsetStep
<1>8. ASSUME NEW read \in reading, LoadLength(read) \/ EndRead(read)
      PROVE  ArenaInv' /\ UNCHANGED Bodies!bodyVars
  BY <1>8, LoadLengthStep, EndReadStep
<1>9. CASE Save
  BY <1>9, SaveStep
<1>10. ASSUME NEW image \in disk, Load(image) PROVE ArenaInv' /\ Bodies!Next
  BY <1>10, LoadStep
<1>11. CASE Restart
  BY <1>11, RestartStep
<1>12. CASE UNCHANGED vars
  <2>1. UNCHANGED <<arena, spans, due, half, compacting, fresh, todo, disk, reading>>
    BY <1>12 DEF vars, registering, rebuild
  <2> QED
    BY <2>1, ReadCommon DEF ArenaInv, ReadsOK
<1> QED
  BY <1>1, <1>2, <1>3, <1>4, <1>5, <1>6, <1>7, <1>8, <1>9, <1>10, <1>11, <1>12 DEF Next

LEMMA ArenaInvariant == Spec => []ArenaInv
  BY ArenaInvInit, ArenaStep, PTL DEF Spec

-----------------------------------------------------------------------------
\* No offset of a dedup map outlives the tokens it was made for, through
\* compactions, loads and restarts.
THEOREM DedupStaysSound == Spec => []DedupSound
<1>1. ASSUME NEW a, Sound(a) PROVE DedupMatches(a)
  BY <1>1 DEF Sound, DedupMatches, Slice
<1>2. ArenaInv => DedupSound
  BY <1>1 DEF ArenaInv, ArenaOK, DedupSound
<1> QED
  BY <1>2, ArenaInvariant, PTL

\* A run is handed the offset of a span only if it is the span's body, so that
\* comparing offsets, as _flush_run does, compares tokens.
THEOREM OffsetsTellBodies == Spec => []SameOffsetSameBody
<1>1. ASSUME ArenaInv, ~compacting, NEW k \in DOMAIN spans \ half, NEW run \in Runs,
             Add(arena, run).at[run] = spans[k].off
      PROVE  Get(arena, spans[k]) = run
  <2> DEFINE a == Add(arena, run)
  <2>1. run \in Content /\ Sound(arena)
    BY <1>1, ArenaConstants DEF Content, ArenaInv, ArenaOK
  <2>2. Fits(arena, spans[k])
    BY <1>1, AtRest
  <2>3. /\ Sound(a) /\ run \in DOMAIN a.at
        /\ Fits(a, spans[k]) /\ Get(a, spans[k]) = Get(arena, spans[k])
    BY <2>1, <2>2, AddFacts
  <2>4. a.at[run] = spans[k].off
    BY <1>1
  <2> HIDE DEF a
  <2>5. Len(run) = spans[k].len
    BY <2>3, <2>4 DEF Fits
  <2>6. Get(a, spans[k]) = run
    BY <2>3, <2>4, <2>5, AddedSpan
  <2> QED
    BY <2>3, <2>6
<1>2. ArenaInv => SameOffsetSameBody
  BY <1>1 DEF SameOffsetSameBody
<1> QED
  BY <1>2, ArenaInvariant, PTL

\* Of two subsequences that start at the same place, the one that ends first
\* is a prefix of the other.
LEMMA SubSeqPrefix ==
    ASSUME NEW x \in Seq(Nat), NEW p \in 1..Len(x),
           NEW q \in p..Len(x), NEW r \in q..Len(x)
    PROVE  Ext!IsPrefix(SubSeq(x, p, q), SubSeq(x, p, r))
<1> DEFINE s == SubSeq(x, p, q)
           t == SubSeq(x, p, r)
<1>1. Len(x) \in Nat /\ \A i \in 1..Len(x) : x[i] \in Nat
  BY LenProperties, ElementOfSeq
<1>2. \A i \in p..r : x[i] \in Nat
  BY <1>1
<1>3. /\ s \in Seq(Nat) /\ Len(s) = q - p + 1
      /\ \A i \in 1..q - p + 1 : s[i] = x[p + i - 1]
  BY <1>1, <1>2, SubSeqProperties
<1>4. /\ t \in Seq(Nat) /\ Len(t) = r - p + 1
      /\ \A i \in 1..r - p + 1 : t[i] = x[p + i - 1]
  BY <1>1, <1>2, SubSeqProperties
<1> DEFINE n == q - p + 1
<1>5. n \in Nat \ {0} /\ n <= r - p + 1
  OBVIOUS
<1> HIDE DEF s, t
<1>6. \A i \in 1..n : t[i] \in Nat
  BY <1>1, <1>4, <1>5
<1>7. /\ SubSeq(t, 1, n) \in Seq(Nat) /\ Len(SubSeq(t, 1, n)) = n
      /\ \A i \in 1..n : SubSeq(t, 1, n)[i] = t[1 + i - 1]
  BY <1>5, <1>6, SubSeqProperties
<1>8. SubSeq(s, 1, n) = s
  BY <1>3, SubSeqFull
<1>9. SubSeq(t, 1, n) = s
  <2>1. ASSUME NEW i \in 1..n PROVE SubSeq(t, 1, n)[i] = s[i]
    <3>1. i \in 1..q - p + 1 /\ i \in 1..r - p + 1 /\ 1 + i - 1 = i
      BY <1>5
    <3> QED
      BY <1>3, <1>4, <1>7, <3>1
  <2> QED
    BY <1>3, <1>7, <2>1, SeqEqual
<1>10. Len(s) = n /\ Len(s) <= Len(t)
  BY <1>3, <1>4, <1>5
<1> QED
  BY <1>8, <1>9, <1>10 DEF Ext!IsPrefix, s, t

\* However long a slice is said to be, it starts like the one that lies within
\* the arena and has the same offset.
LEMMA SameStart ==
    ASSUME NEW a, a.toks \in Seq(Nat), NEW s, In(a.toks, s),
           NEW r, r.off = s.off, r.len \in Nat \ {0}
    PROVE  Ext!IsPrefix(Get(a, r), Get(a, s)) \/ Ext!IsPrefix(Get(a, s), Get(a, r))
<1> DEFINE x == a.toks
           p == s.off + 1
           q == IF r.off + r.len <= Len(x) THEN r.off + r.len ELSE Len(x)
           e == s.off + s.len
<1>1. Len(x) \in Nat /\ s.off \in Nat /\ s.len \in Nat \ {0} /\ s.off + s.len <= Len(x)
  BY LenProperties DEF In
<1>2. p \in 1..Len(x) /\ q \in p..Len(x) /\ e \in p..Len(x)
  BY <1>1
<1>3. Get(a, r) = SubSeq(x, p, q) /\ Get(a, s) = SubSeq(x, p, e)
  BY <1>1 DEF Get
<1> HIDE DEF p, q, e
<1>4. CASE q <= e
  <2>1. e \in q..Len(x)
    BY <1>1, <1>2, <1>4
  <2> QED
    BY <1>2, <1>3, <2>1, SubSeqPrefix
<1>5. CASE e <= q
  <2>1. q \in e..Len(x)
    BY <1>1, <1>2, <1>5
  <2> QED
    BY <1>2, <1>3, <2>1, SubSeqPrefix
<1>6. q <= e \/ e <= q
  BY <1>1, <1>2
<1> QED
  BY <1>4, <1>5, <1>6

\* A lookup beside the drain returns the body whose offset it loaded, whatever
\* is registered meanwhile; if that span was given another body between its two
\* loads, a beginning of the body, or the body with what follows it in the
\* arena.  A compaction may mislead it otherwise.
THEOREM WholeReads == Spec => []ReadsAreWhole
<1>1. ASSUME ArenaInv, NEW read \in reading, read.len > 0, ~read.astray
      PROVE  /\ ~read.beside => Get(arena, read) = read.body
             /\ \/ Ext!IsPrefix(Get(arena, read), read.body)
                \/ Ext!IsPrefix(read.body, Get(arena, read))
  <2> DEFINE s == [off |-> read.off, len |-> Len(read.body)]
  <2>1. TokensOK(read) /\ LengthOK(read) /\ Sound(arena)
    BY <1>1 DEF ArenaInv, ReadsOK, ArenaOK
  <2>2. In(arena.toks, s) /\ Get(arena, s) = read.body /\ read.len \in Nat \ {0}
    BY <1>1, <2>1 DEF TokensOK, Fits
  <2>3. s.off = read.off /\ s.len = Len(read.body)
    OBVIOUS
  <2> HIDE DEF s
  <2>4. ASSUME ~read.beside PROVE Get(arena, read) = read.body
    <3>1. read.len = s.len
      BY <1>1, <2>1, <2>3, <2>4 DEF LengthOK
    <3> QED
      BY <2>2, <2>3, <3>1 DEF Get
  <2> QED
    BY <2>1, <2>2, <2>3, <2>4, SameStart DEF Sound
<1>2. ArenaInv => ReadsAreWhole
  BY <1>1 DEF ReadsAreWhole
<1> QED
  BY <1>2, ArenaInvariant, PTL

\* Sharing, moving, saving and loading of tokens cannot be seen: the spans are
\* a table of bodies.
THEOREM ArenaIsBodies == Spec => ImplementsBodies
<1>1. Init => Bodies!Init
  BY DEF Init, Bodies!Init, Bodies!NoBodies, NoSpans
<1> QED
  BY <1>1, ArenaStep, ArenaInvariant, PTL DEF Spec, ImplementsBodies, Bodies!Spec

-----------------------------------------------------------------------------
(* What compaction leaves.                                                 *)

Place(a, c) == a.at[c] + 1..a.at[c] + Len(c)

\* The tokens of an arena are those of its contents, each in its own place.
Tight(a) ==
    /\ \A i \in 1..Len(a.toks) : \E c \in DOMAIN a.at : i \in Place(a, c)
    /\ \A c, d \in DOMAIN a.at :
          c # d => a.at[c] + Len(c) <= a.at[d] \/ a.at[d] + Len(d) <= a.at[c]

LEMMA EmptyTight == Tight(Empty) /\ DOMAIN Empty.at = {}
<1>1. Len(<<>>) = 0 /\ 1..0 = {}
  BY EmptySeq
<1> QED
  BY <1>1 DEF Empty, Tight

LEMMA AddTight ==
    ASSUME NEW a, Sound(a), Tight(a), NEW run \in Content
    PROVE  Tight(Add(a, run))
<1> DEFINE b == Add(a, run)
           m == Len(a.toks)
           n == Len(run)
<1>1. /\ m \in Nat /\ n \in Nat \ {0} /\ run \in Seq(Nat) /\ a.toks \in Seq(Nat)
  BY LenProperties, EmptySeq DEF Sound, Content
<1>2. CASE run \in DOMAIN a.at
  BY <1>2 DEF Add
<1>3. CASE run \notin DOMAIN a.at
  <2>1. /\ b.toks = a.toks \o run
        /\ DOMAIN b.at = DOMAIN a.at \cup {run}
        /\ b.at[run] = m
        /\ \A c \in DOMAIN a.at : c # run /\ b.at[c] = a.at[c]
    BY <1>3 DEF Add
  <2> HIDE DEF b
  <2>2. Len(b.toks) = m + n
    BY <2>1, <1>1, ConcatProperties
  <2>3. \A c \in DOMAIN a.at : /\ a.at[c] \in Nat /\ Len(c) \in Nat
                               /\ a.at[c] + Len(c) <= m
    BY LenProperties DEF Sound, Content
  <2> HIDE DEF m, n
  <2>4. ASSUME NEW i \in 1..Len(b.toks)
        PROVE  \E c \in DOMAIN b.at : i \in Place(b, c)
    <3>1. CASE i <= m
      <4>1. PICK c \in DOMAIN a.at : i \in Place(a, c)
        BY <1>1, <2>2, <3>1 DEF Tight, m
      <4> QED
        BY <2>1, <4>1 DEF Place
    <3>2. CASE i > m
      <4>1. i \in m + 1..m + n
        BY <1>1, <2>2, <3>2
      <4>2. Place(b, run) = m + 1..m + n
        BY <2>1 DEF Place, n
      <4> QED
        BY <2>1, <4>1, <4>2
    <3> QED
      BY <1>1, <2>2, <3>1, <3>2
  <2>5. ASSUME NEW c \in DOMAIN b.at, NEW d \in DOMAIN b.at, c # d
        PROVE  b.at[c] + Len(c) <= b.at[d] \/ b.at[d] + Len(d) <= b.at[c]
    <3>1. CASE c \in DOMAIN a.at /\ d \in DOMAIN a.at
      BY <2>1, <2>5, <3>1 DEF Tight
    <3>2. CASE c = run
      <4>1. d \in DOMAIN a.at
        BY <2>1, <2>5, <3>2
      <4> QED
        BY <2>1, <2>3, <3>2, <4>1
    <3>3. CASE d = run
      <4>1. c \in DOMAIN a.at
        BY <2>1, <2>5, <3>3
      <4> QED
        BY <2>1, <2>3, <3>3, <4>1
    <3> QED
      BY <2>1, <3>1, <3>2, <3>3
  <2> QED
    BY <2>4, <2>5 DEF Tight, b
<1> QED
  BY <1>2, <1>3

\* The fresh arena holds the bodies copied so far and nothing else.
Copied == {Body(k) : k \in DOMAIN spans \ todo}

TightInv == Tight(fresh) /\ (compacting => DOMAIN fresh.at = Copied)

LEMMA TightStep == ArenaInv /\ TightInv /\ [Next]_vars => TightInv'
<1> SUFFICES ASSUME ArenaInv, TightInv, [Next]_vars PROVE TightInv'
  OBVIOUS
<1>1. CASE UNCHANGED <<arena, spans, due, half, compacting, fresh, todo>>
  <2>1. \A k : Body(k)' = Body(k)
    BY <1>1 DEF Body, Whole, Holder
  <2> QED
    BY <1>1, <2>1 DEF TightInv, Copied
<1>2. CASE fresh' = fresh /\ compacting' = FALSE
  BY <1>2 DEF TightInv
<1>3. ASSUME \/ \E keys \in SpanKeySets, run \in Runs : StartRegister(keys, run)
             \/ \E k \in DOMAIN due :
                   PutSpan(k) \/ KeepBody(k) \/ StoreOffset(k) \/ StoreLength(k)
      PROVE  TightInv'
  <2>1. fresh' = fresh /\ compacting' = compacting
    BY <1>3 DEF StartRegister, PutSpan, KeepBody, StoreOffset, StoreLength, rebuild
  <2>2. ~compacting
    BY <1>3 DEF StartRegister, Idle, ArenaInv, DueOK, NoSpans
  <2> QED
    BY <1>2, <2>1, <2>2 DEF ArenaInv, ArenaOK
<1>4. ASSUME NEW kept \in SUBSET DOMAIN spans, StartCompact(kept)
      PROVE  TightInv'
  <2>1. fresh' = Empty /\ DOMAIN spans' = kept /\ todo' = kept
    BY <1>4 DEF StartCompact
  <2>2. Copied' = {}
    BY <2>1 DEF Copied
  <2> QED
    BY <2>1, <2>2, EmptyTight DEF TightInv
<1>5. ASSUME NEW k \in todo, CopySpan(k)
      PROVE  TightInv'
  <2> DEFINE body == Get(arena, spans[k])
  <2>1. /\ compacting /\ fresh' = Add(fresh, body) /\ todo' = todo \ {k}
        /\ DOMAIN spans' = DOMAIN spans /\ k \in DOMAIN spans
        /\ Sound(arena) /\ Sound(fresh)
    BY <1>5 DEF CopySpan, ArenaInv, ArenaOK
  <2>2. Fits(arena, spans[k]) /\ Body(k) = body
    BY <2>1, CompactingAlone DEF ArenaInv, SpansOK, Holder, Body
  <2>3. body \in Content
    BY <2>1, <2>2, GetContent DEF Fits
  <2>4. \A j \in DOMAIN spans : Body(j)' = Body(j)
    <3>1. BodyMap' = BodyMap
      BY <1>5, CopyStep DEF Bodies!bodyVars, BodyMap
    <3> QED
      BY <2>1, <3>1 DEF BodyMap
  <2> HIDE DEF body
  <2>5. DOMAIN fresh'.at = DOMAIN fresh.at \cup {body}
    BY <2>1, <2>3, AddFacts
  <2>6. Copied' = Copied \cup {body}
    BY <2>1, <2>2, <2>4 DEF Copied
  <2>7. Tight(fresh')
    BY <2>1, <2>3, AddTight DEF TightInv
  <2> QED
    BY <2>1, <2>5, <2>6, <2>7 DEF TightInv
<1>6. CASE EndCompact
  BY <1>6, EmptyTight DEF EndCompact, TightInv
<1>7. CASE \/ \E k \in DOMAIN spans : LoadOffset(k)
           \/ \E read \in reading : LoadLength(read) \/ EndRead(read)
  BY <1>1, <1>7 DEF LoadOffset, LoadLength, EndRead, rebuild, registering
<1>8. CASE Save
  BY <1>1, <1>8 DEF Save, rebuild, registering
<1>9. ASSUME NEW image \in disk, Load(image) PROVE TightInv'
  BY <1>2, <1>9 DEF Load, Idle, rebuild, ArenaInv, ArenaOK
<1>10. CASE Restart
  BY <1>10, EmptyTight DEF Restart, TightInv
<1>11. CASE UNCHANGED vars
  BY <1>1, <1>11 DEF vars, registering, rebuild
<1> QED
  BY <1>3, <1>4, <1>5, <1>6, <1>7, <1>8, <1>9, <1>10, <1>11 DEF Next

\* After compaction the arena holds the live bodies, each once, and nothing
\* in between.
THEOREM CompactionTight == Spec => CompactionIsTight
<1> DEFINE Left ==
         /\ DOMAIN arena'.at = BodiesLeft
         /\ \A i \in 1..Len(arena'.toks) : \E c \in BodiesLeft :
               i \in arena'.at[c] + 1..arena'.at[c] + Len(c)
         /\ \A c, d \in BodiesLeft : c # d =>
               (arena'.at[c] + 1..arena'.at[c] + Len(c))
                   \cap (arena'.at[d] + 1..arena'.at[d] + Len(d)) = {}
<1>1. ASSUME ArenaInv, TightInv, EndCompact PROVE Left
  <2>1. compacting /\ todo = {} /\ arena' = fresh
    BY <1>1 DEF EndCompact
  <2>2. \A k : Body(k) = Get(fresh, spans[k])
    BY <1>1, <2>1, CompactingAlone DEF Body, Holder
  <2>3. DOMAIN fresh.at = BodiesLeft
    BY <1>1, <2>1, <2>2 DEF TightInv, Copied, BodiesLeft
  <2>4. \A i \in 1..Len(fresh.toks) : \E c \in BodiesLeft : i \in Place(fresh, c)
    BY <1>1, <2>3 DEF TightInv, Tight
  <2>5. ASSUME NEW c \in BodiesLeft, NEW d \in BodiesLeft, c # d
        PROVE  Place(fresh, c) \cap Place(fresh, d) = {}
    <3>1. /\ fresh.at[c] \in Nat /\ Len(c) \in Nat /\ fresh.at[d] \in Nat /\ Len(d) \in Nat
      BY <1>1, <2>3, LenProperties DEF ArenaInv, ArenaOK, Sound, Content
    <3>2. fresh.at[c] + Len(c) <= fresh.at[d] \/ fresh.at[d] + Len(d) <= fresh.at[c]
      BY <1>1, <2>3, <2>5 DEF TightInv, Tight
    <3> QED
      BY <3>1, <3>2 DEF Place
  <2> QED
    BY <2>1, <2>3, <2>4, <2>5 DEF Place
<1>2. Init => TightInv
  BY EmptyTight DEF Init, TightInv
<1>3. ArenaInv /\ TightInv /\ [Next]_vars => [EndCompact => Left]_vars
  BY <1>1
<1> HIDE DEF Left
<1>4. Spec => [][EndCompact => Left]_vars
  BY <1>2, <1>3, TightStep, ArenaInvariant, PTL DEF Spec
<1> QED
  BY <1>4 DEF CompactionIsTight, Left
=============================================================================
