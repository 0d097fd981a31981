---------------------------- MODULE WalLogProofs ----------------------------
(***************************************************************************)
(* The segmented store implements the log of WalLog, as long as no I/O     *)
(* error leaves a gap.                                                     *)
(***************************************************************************)
EXTENDS WalStoreProofs, WellFoundedInduction

-----------------------------------------------------------------------------
(* Chains of frames. *)

\* Every non-empty set of natural numbers has a least element.
LEMMA NatMin ==
  ASSUME NEW T, T \subseteq Nat, T # {}
  PROVE  \E x \in T : \A y \in T : x <= y
  <1> DEFINE R == OpToRel(<, Nat)
  <1>1. IsWellFoundedOn(R, Nat)
    BY NatLessThanWellFounded, Zenon
  <1>2. \A x, y \in Nat : <<x, y>> \in R <=> x < y
    BY Zenon DEF OpToRel
  <1> HIDE DEF R
  <1>3. PICK x \in T : \A y \in T : ~(<<y, x>> \in R)
    BY <1>1, WFMin, Zenon
  <1>4. \A y \in T : x \in Nat /\ y \in Nat /\ ~(y < x)
    BY <1>2, <1>3, Zenon
  <1>5. \A a, b \in Nat : ~(b < a) => a <= b
    BY ONLY TRUE
  <1>6. \A y \in T : x <= y
    BY ONLY <1>4, <1>5, Zenon
  <1> QED
    BY <1>6, Zenon

\* Every non-empty set of natural numbers with an upper bound has a greatest element.
LEMMA NatMax ==
  ASSUME NEW T, T \subseteq Nat, T # {}, NEW b \in Nat, \A x \in T : x <= b
  PROVE  \E x \in T : \A y \in T : y <= x
  <1> DEFINE D == {b - x : x \in T}
  <1>0. \A x \in T : b - x \in Nat
    OBVIOUS
  <1>1. D \subseteq Nat /\ D # {}
    BY <1>0, Zenon
  <1>2. PICK d \in D : \A e \in D : d <= e
    BY <1>1, NatMin, Zenon
  <1>3. PICK x \in T : d = b - x
    BY <1>2, Zenon
  <1>4. ASSUME NEW y \in T PROVE y <= x
    <2>1. b - y \in D /\ x \in Nat /\ y \in Nat
      BY Zenon
    <2>2. b - x <= b - y
      BY <1>2, <1>3, <2>1, Zenon
    <2> QED
      BY <2>1, <2>2
  <1> QED
    BY <1>4, Zenon

\* What the lemmas below need of a file: it is well-formed and typed.
Tidy(file) ==
  /\ FileOK(file)
  /\ \A f \in file.frames :
       /\ f.off \in Nat /\ End(f) \in Nat /\ f.off < End(f)
       /\ PayloadLen[f.batch] <= MaxFramePayload

\* A chain: at every boundary up to an offset there is a frame.
ChainedTo(file, o) ==
  \A x \in Boundaries(file) : x <= o => \E h \in file.frames : h.off = x

\* The files of the store are tidy.
LEMMA TidyFiles ==
  ASSUME TypeOK, StoreInv, NEW s \in DOMAIN disk
  PROVE  Tidy(disk[s])
  <1>1. FileOK(disk[s])
    BY Zenon DEF StoreInv, DiskInv
  <1>2. ASSUME NEW f \in disk[s].frames
        PROVE  /\ f.off \in Nat /\ End(f) \in Nat /\ f.off < End(f)
               /\ PayloadLen[f.batch] <= MaxFramePayload
    <2>1. /\ f.off \in Nat /\ End(f) \in Nat /\ End(f) > f.off + FRAME_HEADER_LEN
          /\ f.batch \in Batch
      BY FrameType, Zenon
    <2> QED
      BY <2>1, FrameLen DEF FRAME_HEADER_LEN
  <1> QED
    BY <1>1, <1>2, Zenon DEF Tidy

\* In a tidy file every frame can be read.
LEMMA ChainedIs ==
  ASSUME NEW file, Tidy(file)
  PROVE  \A f : f \in Chained(file) <=> f \in file.frames /\ file.header /\ ChainedTo(file, f.off)
  <1>1. ASSUME NEW x PROVE read_frame_at(file, x) # {} <=> \E h \in file.frames : h.off = x
    BY Zenon DEF read_frame_at, Tidy
  <1> QED
    BY <1>1, Zenon DEF Chained, ChainedTo

\* All frames of a part of a file up to a chained one are in that part.
LEMMA ChainPrefix ==
  ASSUME NEW file, Tidy(file), NEW left, left.frames \subseteq file.frames,
         NEW f \in left.frames, ChainedTo(left, f.off),
         NEW g \in file.frames, g.off <= f.off
  PROVE  g \in left.frames
  <1> DEFINE T == {x \in Boundaries(left) : x <= g.off}
  <1>0. /\ \A h \in file.frames : /\ h.off \in Nat /\ End(h) \in Nat /\ h.off < End(h)
                                  /\ SEGMENT_HEADER_LEN <= h.off
        /\ \A h, k \in file.frames : h = k \/ End(h) <= k.off \/ End(k) <= h.off
    BY Zenon DEF Tidy, FileOK, SEGMENT_HEADER_LEN
  <1>1. Boundaries(left) \subseteq Nat
    BY <1>0 DEF Boundaries, SEGMENT_HEADER_LEN
  <1>2. T # {} /\ T \subseteq Nat
    BY <1>0, <1>1, Zenon DEF Boundaries
  <1>3. PICK m \in T : \A x \in T : x <= m
    BY <1>0, <1>2, NatMax, Zenon
  <1>4. m \in Boundaries(left) /\ m \in Nat /\ m <= g.off /\ m <= f.off
    BY <1>0, <1>2, <1>3
  <1>5. PICK h \in left.frames : h.off = m
    BY <1>4, Zenon DEF ChainedTo
  <1>6. CASE End(h) <= g.off
    <2>1. End(h) \in T
      BY <1>6, Zenon DEF Boundaries
    <2> QED
      BY <1>0, <1>3, <1>4, <1>5, <2>1
  <1>7. CASE End(g) <= h.off
    BY <1>0, <1>4, <1>5, <1>7
  <1> QED
    BY <1>0, <1>5, <1>6, <1>7, Zenon

\* So a frame that is chained in the part is chained in the whole file, and so is
\* in the part every frame before it.
LEMMA ChainLeft ==
  ASSUME NEW file, Tidy(file), NEW left, left.frames \subseteq file.frames,
         NEW f \in left.frames, ChainedTo(left, f.off)
  PROVE  /\ ChainedTo(file, f.off)
         /\ \A g \in file.frames : g.off <= f.off => g \in left.frames /\ ChainedTo(left, g.off)
  <1>0. \A h \in file.frames : h.off \in Nat /\ End(h) \in Nat /\ h.off < End(h)
    BY Zenon DEF Tidy
  <1>1. \A g \in file.frames : g.off <= f.off => g \in left.frames
    BY ChainPrefix, Zenon
  <1>2. ASSUME NEW x \in Boundaries(file), x <= f.off PROVE \E h \in file.frames : h.off = x
    <2>1. x \in Boundaries(left)
      <3>1. CASE x = SEGMENT_HEADER_LEN
        BY <3>1, Zenon DEF Boundaries
      <3>2. ASSUME NEW h \in file.frames, x = End(h) PROVE x \in Boundaries(left)
        <4>1. h.off <= f.off
          BY <1>0, <1>2, <3>2
        <4> QED
          BY <1>1, <3>2, <4>1, Zenon DEF Boundaries
      <3> QED
        BY <1>2, <3>1, <3>2, Zenon DEF Boundaries
    <2> QED
      BY <1>2, <2>1, Zenon DEF ChainedTo
  <1>3. ASSUME NEW g \in file.frames, g.off <= f.off PROVE ChainedTo(left, g.off)
    <2>1. \A x \in Boundaries(left) : x \in Nat
      BY <1>0 DEF Boundaries, SEGMENT_HEADER_LEN
    <2>2. \A x \in Boundaries(left) : x <= g.off => x <= f.off
      BY <1>0, <1>3, <2>1
    <2> QED
      BY <2>2, Zenon DEF ChainedTo
  <1> QED
    BY <1>1, <1>2, <1>3, Zenon DEF ChainedTo

\* In a file without gaps every frame is chained.
LEMMA FilledChained ==
  ASSUME NEW file, Tidy(file), NEW len \in Nat, Filled(file, len)
  PROVE  \A f : f \in Chained(file) <=> f \in file.frames
  <1>0. /\ \A h \in file.frames : /\ h.off \in Nat /\ End(h) \in Nat /\ h.off < End(h)
                                  /\ SEGMENT_HEADER_LEN <= h.off
    BY Zenon DEF Tidy, FileOK, SEGMENT_HEADER_LEN
  <1>1. ASSUME NEW f \in file.frames, NEW x \in Boundaries(file), x <= f.off
        PROVE  \E h \in file.frames : h.off = x
    <2>1. CASE x = SEGMENT_HEADER_LEN
      <3>1. len # SEGMENT_HEADER_LEN
        BY <1>0 DEF Filled, SEGMENT_HEADER_LEN
      <3> QED
        BY <2>1, <3>1, Zenon DEF Filled
    <2>2. ASSUME NEW g \in file.frames, x = End(g) PROVE \E h \in file.frames : h.off = x
      <3>1. End(g) # len
        BY <1>0, <1>1, <2>2 DEF Filled
      <3> QED
        BY <2>2, <3>1, Zenon DEF Filled
    <2> QED
      BY <1>1, <2>1, <2>2, Zenon DEF Boundaries
  <1>2. file.header
    BY Zenon DEF Filled
  <1> QED
    BY <1>1, <1>2, ChainedIs, Zenon DEF ChainedTo

\* The walk of recovery keeps exactly the chained frames.
LEMMA WalkChained ==
  ASSUME NEW file, Tidy(file), file.header, NEW o \in Nat, WalkEndsAt(file, o)
  PROVE  \A f : f \in Chained(file) <=> f \in file.frames /\ f.off < o
  <1>0. /\ \A h \in file.frames : h.off \in Nat /\ End(h) \in Nat
        /\ \A x \in Boundaries(file) : x \in Nat
    BY DEF Tidy, Boundaries, SEGMENT_HEADER_LEN
  <1>1. ASSUME NEW x PROVE read_frame_at(file, x) # {} <=> \E h \in file.frames : h.off = x
    BY Zenon DEF read_frame_at, Tidy
  <1>2. /\ o \in Boundaries(file) /\ ~\E h \in file.frames : h.off = o
        /\ \A x \in Boundaries(file) : x < o => \E h \in file.frames : h.off = x
    BY <1>1, Zenon DEF WalkEndsAt
  <1>3. ASSUME NEW f \in file.frames, ChainedTo(file, f.off) PROVE f.off < o
    <2>1. ~(o <= f.off)
      BY <1>2, <1>3, Zenon DEF ChainedTo
    <2> QED
      BY <1>0, <2>1
  <1>4. ASSUME NEW f \in file.frames, f.off < o PROVE ChainedTo(file, f.off)
    <2>1. \A x \in Boundaries(file) : x <= f.off => x < o
      BY <1>0, <1>4
    <2> QED
      BY <1>2, <2>1, Zenon DEF ChainedTo
  <1> QED
    BY <1>3, <1>4, ChainedIs, Zenon

\* Chains depend on frames and header only.
LEMMA SameChains ==
  ASSUME NEW F, NEW G, G.frames = F.frames, G.header = F.header
  PROVE  Chained(G) = Chained(F)
  BY Zenon DEF Chained, Boundaries, read_frame_at

-----------------------------------------------------------------------------
(* The log seen frame by frame. *)

\* Every file is known.
Known == DOMAIN disk = Seqs \cup found

\* The entries of the log, and those of them that are not replayed.
Held(s, f) == s \in DOMAIN disk /\ f \in Chained(disk[s])
Ahead(s, f) == s > read_seq \/ (s = read_seq /\ f.off >= read_offset)

LogIs ==
  /\ Consumed \subseteq OnDisk
  /\ \A x \in OnDisk : \E s, f : x = <<s, f>>
  /\ \A s, f : <<s, f>> \in OnDisk <=> Held(s, f)
  /\ \A s, f : <<s, f>> \in Consumed <=> Held(s, f) /\ ~Ahead(s, f)

LEMMA LogShape == Known => LogIs
  <1> SUFFICES ASSUME Known PROVE LogIs
    BY Zenon
  <1>1. \A x \in OnDisk : \E s, f : x = <<s, f>>
    BY Zenon DEF OnDisk
  <1>2. ASSUME NEW s, NEW f PROVE <<s, f>> \in OnDisk <=> Held(s, f)
    BY DEF OnDisk, Held, Known
  <1>3. ASSUME NEW s, NEW f, Held(s, f) PROVE <<s, f>> \in Backlog <=> Ahead(s, f)
    <2>1. f \in disk[s].frames /\ s \in Seqs \cup found
      BY <1>3, Zenon DEF Held, Chained, Known
    <2>2. Owed(s, f) <=> Ahead(s, f)
      BY <2>1, Zenon DEF Owed, Ahead
    <2>3. <<s, f>> \in Backlog <=> Owed(s, f)
      <3>1. ASSUME <<s, f>> \in Backlog PROVE Owed(s, f)
        <4>1. PICK t, g : <<s, f>> = <<t, g>> /\ Owed(t, g)
          BY <3>1, BacklogOwed, Zenon
        <4> QED
          BY <4>1, Zenon
      <3> QED
        BY <3>1, BacklogOwed, Zenon
    <2> QED
      BY <2>2, <2>3, Zenon
  <1> QED
    BY <1>1, <1>2, <1>3, Zenon DEF LogIs, Consumed

\* The log does not change.
LEMMA SameEntries ==
  ASSUME LogIs, LogIs', \A s, f : Held(s, f)' <=> Held(s, f),
         \A s, f : Held(s, f) => (Ahead(s, f)' <=> Ahead(s, f))
  PROVE  OnDisk' = OnDisk /\ Consumed' = Consumed
  <1>1. ASSUME NEW x \in OnDisk
        PROVE  x \in OnDisk' /\ (x \in Consumed' <=> x \in Consumed)
    <2>1. PICK s, f : x = <<s, f>>
      BY Zenon DEF LogIs
    <2>2. Held(s, f) /\ Held(s, f)'
      BY <2>1, Zenon DEF LogIs
    <2> QED
      BY <2>1, <2>2, Zenon DEF LogIs
  <1>2. ASSUME NEW x \in OnDisk' PROVE x \in OnDisk
    <2>1. PICK s, f : x = <<s, f>>
      BY Zenon DEF LogIs
    <2> QED
      BY <2>1, Zenon DEF LogIs
  <1>3. OnDisk' = OnDisk
    BY <1>1, <1>2, Zenon
  <1>4. Consumed \subseteq OnDisk /\ Consumed' \subseteq OnDisk'
    BY Zenon DEF LogIs
  <1>5. Consumed' = Consumed
    BY <1>1, <1>3, <1>4, Zenon
  <1> QED
    BY <1>3, <1>5, Zenon

\* One entry is replayed.
LEMMA OneReplayed ==
  ASSUME LogIs, LogIs', \A s, f : Held(s, f)' <=> Held(s, f),
         NEW t, NEW g, Held(t, g),
         \A s, f : Held(s, f) => (Ahead(s, f)' <=> Ahead(s, f) /\ ~(s = t /\ f = g))
  PROVE  OnDisk' = OnDisk /\ Consumed' = Consumed \cup {<<t, g>>}
  <1>1. ASSUME NEW x \in OnDisk
        PROVE  x \in OnDisk' /\ (x \in Consumed' <=> x \in Consumed \cup {<<t, g>>})
    <2>1. PICK s, f : x = <<s, f>>
      BY Zenon DEF LogIs
    <2>2. Held(s, f) /\ Held(s, f)'
      BY <2>1, Zenon DEF LogIs
    <2>3. x = <<t, g>> <=> s = t /\ f = g
      BY <2>1, Zenon
    <2>4. /\ x \in Consumed' <=> ~Ahead(s, f)'
          /\ x \in Consumed <=> ~Ahead(s, f)
      BY <2>1, <2>2, Zenon DEF LogIs
    <2> QED
      BY <2>1, <2>2, <2>3, <2>4, Zenon DEF LogIs
  <1>2. ASSUME NEW x \in OnDisk' PROVE x \in OnDisk
    <2>1. PICK s, f : x = <<s, f>>
      BY Zenon DEF LogIs
    <2> QED
      BY <2>1, Zenon DEF LogIs
  <1>3. OnDisk' = OnDisk
    BY <1>1, <1>2, Zenon
  <1>4. Consumed \subseteq OnDisk /\ Consumed' \subseteq OnDisk' /\ <<t, g>> \in OnDisk
    BY Zenon DEF LogIs
  <1>5. Consumed' = Consumed \cup {<<t, g>>}
    BY <1>1, <1>3, <1>4, Zenon
  <1> QED
    BY <1>3, <1>5, Zenon

\* One entry is appended.
LEMMA EntryAppended ==
  ASSUME LogIs, LogIs', NEW t, NEW g,
         \A s, f : Held(s, f)' <=> Held(s, f) \/ (s = t /\ f = g),
         \A s, f : Ahead(s, f)' <=> Ahead(s, f), Ahead(t, g),
         \A s, f : Held(s, f) => s < t \/ (s = t /\ f.off < g.off)
  PROVE  /\ OnDisk' = OnDisk \cup {<<t, g>>} /\ Consumed' = Consumed
         /\ WL!AllBefore(OnDisk, {<<t, g>>})
  <1>1. ASSUME NEW x \in OnDisk
        PROVE  x \in OnDisk' /\ (x \in Consumed' <=> x \in Consumed) /\ Before(x, <<t, g>>)
    <2>1. PICK s, f : x = <<s, f>>
      BY Zenon DEF LogIs
    <2>2. Held(s, f) /\ Held(s, f)'
      BY <2>1, Zenon DEF LogIs
    <2>3. x[1] = s /\ x[2] = f /\ <<t, g>>[1] = t /\ <<t, g>>[2] = g
      BY <2>1, Zenon
    <2>4. Before(x, <<t, g>>)
      BY <2>2, <2>3, Zenon DEF Before
    <2>5. x \in OnDisk' /\ (x \in Consumed' <=> ~Ahead(s, f)') /\ (x \in Consumed <=> ~Ahead(s, f))
      BY <2>1, <2>2, Zenon DEF LogIs
    <2> QED
      BY <2>4, <2>5, Zenon
  <1>2. ASSUME NEW x \in OnDisk' PROVE x \in OnDisk \/ (x = <<t, g>> /\ x \notin Consumed')
    <2>1. PICK s, f : x = <<s, f>>
      BY Zenon DEF LogIs
    <2>2. Held(s, f) \/ (s = t /\ f = g)
      BY <2>1, Zenon DEF LogIs
    <2>3. CASE Held(s, f)
      BY <2>1, <2>3, Zenon DEF LogIs
    <2>4. CASE s = t /\ f = g
      BY <2>1, <2>4, Zenon DEF LogIs
    <2> QED
      BY <2>2, <2>3, <2>4, Zenon
  <1>3. <<t, g>> \in OnDisk'
    BY Zenon DEF LogIs
  <1>4. OnDisk' = OnDisk \cup {<<t, g>>}
    BY <1>1, <1>2, <1>3, Zenon
  <1>5. Consumed \subseteq OnDisk /\ Consumed' \subseteq OnDisk'
    BY Zenon DEF LogIs
  <1>6. Consumed' = Consumed
    BY <1>1, <1>2, <1>5, Zenon
  <1> QED
    BY <1>1, <1>4, <1>6, Zenon DEF WL!AllBefore

\* The entry at the cursor is the oldest one that was not replayed.
LEMMA OldestAhead ==
  ASSUME LogIs, NEW s, NEW f, Held(s, f), Ahead(s, f),
         \A t, g : Held(t, g) /\ Ahead(t, g) =>
                     \/ t = s /\ g = f
                     \/ s < t \/ (s = t /\ f.off < g.off)
  PROVE  WL!Oldest(<<s, f>>, OnDisk \ Consumed)
  <1>1. <<s, f>> \in OnDisk \ Consumed
    BY Zenon DEF LogIs
  <1>2. ASSUME NEW x \in (OnDisk \ Consumed) \ {<<s, f>>} PROVE Before(<<s, f>>, x)
    <2>0. PICK t, g : x = <<t, g>>
      BY Zenon DEF LogIs
    <2>1. x = <<t, g>> /\ Held(t, g) /\ Ahead(t, g)
      BY <2>0, Zenon DEF LogIs
    <2>2. <<s, f>>[1] = s /\ <<s, f>>[2] = f /\ <<t, g>>[1] = t /\ <<t, g>>[2] = g
      BY Zenon
    <2>3. ~(t = s /\ g = f)
      BY <2>1, Zenon
    <2>4. s < t \/ (s = t /\ f.off < g.off)
      BY <2>1, <2>3, Zenon
    <2> QED
      BY <2>1, <2>2, <2>4, Zenon DEF Before
  <1> QED
    BY <1>1, <1>2, Zenon DEF WL!Oldest

\* In a running store every frame of every file is in the log.
LiveHeld == \A s, f : Held(s, f) <=> s \in DOMAIN disk /\ f \in disk[s].frames

LEMMA LiveFrames == TypeOK /\ StoreInv /\ Known /\ found = {} => LiveHeld
  <1> SUFFICES ASSUME TypeOK, StoreInv, Known, found = {}, NEW s \in DOMAIN disk
               PROVE  \A f : f \in Chained(disk[s]) <=> f \in disk[s].frames
    BY Zenon DEF LiveHeld, Held
  <1>1. PICK i \in DOMAIN segments : s = segments[i].seq
    BY Zenon DEF Known, Seqs
  <1>2. segments[i].bytes \in Nat /\ Filled(disk[s], segments[i].bytes)
    BY <1>1, SegType, Zenon DEF StoreInv, DiskInv
  <1> QED
    BY <1>2, TidyFiles, FilledChained, Zenon

\* The oldest segment is the first one in the order of their numbers.
LEMMA OldestFirst ==
  ASSUME TypeOK, StoreInv, Known, found = {}, NEW s \in DOMAIN disk
  PROVE  /\ segments # <<>> /\ s \in Nat /\ read_seq \in Nat /\ Oldest.seq \in Nat
         /\ Oldest.seq <= s /\ read_seq <= Oldest.seq /\ Oldest.seq \in DOMAIN disk
  <1>1. PICK i \in DOMAIN segments : s = segments[i].seq
    BY Zenon DEF Known, Seqs
  <1>2. /\ segments # <<>> /\ 1 \in DOMAIN segments /\ i \in Nat /\ 1 <= i
        /\ segments[i].seq \in Nat /\ segments[1].seq \in Nat
    BY <1>1, SegType
  <1>3. i = 1 \/ segments[1].seq < segments[i].seq
    BY <1>2 DEF StoreInv, SeqInv
  <1>4. read_seq \in Nat
    BY Zenon DEF TypeOK
  <1>5. read_seq <= segments[1].seq /\ segments[1].seq \in DOMAIN disk
    BY <1>2, Zenon DEF StoreInv, CursorInv, DiskInv
  <1> QED
    BY <1>1, <1>2, <1>3, <1>4, <1>5 DEF Oldest

\* Two frames of a file are not at the same offset.
LEMMA OneFrameAt ==
  ASSUME TypeOK, StoreInv, NEW s \in DOMAIN disk,
         NEW f \in disk[s].frames, NEW g \in disk[s].frames
  PROVE  /\ f.off \in Nat /\ g.off \in Nat /\ End(f) \in Nat /\ f.off < End(f)
         /\ SEGMENT_HEADER_LEN <= f.off
         /\ f = g \/ End(f) <= g.off \/ g.off < f.off
  <1>1. /\ f.off \in Nat /\ g.off \in Nat /\ End(f) \in Nat /\ f.off < End(f)
        /\ End(g) \in Nat /\ g.off < End(g) /\ f.off >= SEGMENT_HEADER_LEN
        /\ f = g \/ End(f) <= g.off \/ End(g) <= f.off
    BY TidyFiles, Zenon DEF Tidy, FileOK
  <1> QED
    BY <1>1 DEF SEGMENT_HEADER_LEN

\* The entry at the cursor is the oldest one that was not replayed.
LEMMA AtCursor ==
  ASSUME TypeOK, StoreInv, LogIs, NEW s, NEW f, Held(s, f), Ahead(s, f),
         \A t, g : Held(t, g) /\ Ahead(t, g) => s < t \/ (s = t /\ f.off <= g.off)
  PROVE  <<s, f>> \in OnDisk /\ WL!Oldest(<<s, f>>, OnDisk \ Consumed)
  <1>1. ASSUME NEW t, NEW g, Held(t, g), Ahead(t, g)
        PROVE  (t = s /\ g = f) \/ s < t \/ (s = t /\ f.off < g.off)
    <2>1. s < t \/ (s = t /\ f.off <= g.off)
      BY <1>1, Zenon
    <2>2. ASSUME s = t PROVE f.off \in Nat /\ g.off \in Nat /\ End(f) \in Nat /\ f.off < End(f)
                             /\ (f = g \/ End(f) <= g.off \/ g.off < f.off)
      BY <1>1, <2>2, OneFrameAt, Zenon DEF Held, Chained
    <2> QED
      BY <2>1, <2>2
  <1>2. <<s, f>> \in OnDisk
    BY Zenon DEF LogIs
  <1> QED
    BY <1>1, <1>2, OldestAhead, Zenon

-----------------------------------------------------------------------------
(* The steps of the store as steps of the log. *)

\* peek_next moves the cursor only over a gap: no entry is passed.
LEMMA Resync ==
  ASSUME TypeOK, StoreInv, Known, found = {}, segments # <<>>,
         read_seq' = PeekSeq, read_offset' = PeekOffset,
         NEW s, NEW f, Held(s, f)
  PROVE  Ahead(s, f)' <=> Ahead(s, f)
  <1>1. s \in DOMAIN disk /\ f \in disk[s].frames
    BY Zenon DEF Held, Chained
  <1>2. /\ s \in Nat /\ read_seq \in Nat /\ Oldest.seq \in Nat
        /\ Oldest.seq <= s /\ read_seq <= Oldest.seq
    BY <1>1, OldestFirst, Zenon
  <1>3. f.off \in Nat /\ SEGMENT_HEADER_LEN <= f.off
    BY <1>1, OneFrameAt, Zenon
  <1>4. PeekSeq = Oldest.seq
    BY PeekOldest, Zenon DEF StoreInv
  <1>5. CASE read_seq \in Seqs
    BY <1>5, Zenon DEF PeekSeq, PeekOffset, Ahead
  <1>6. CASE read_seq \notin Seqs
    <2>1. Oldest.seq \in Seqs
      BY SegType, Zenon DEF Oldest, Seqs
    <2>2. read_seq < s
      BY <1>2, <1>6, <2>1
    <2>3. read_seq' = Oldest.seq /\ read_offset' = SEGMENT_HEADER_LEN
      BY <1>4, <1>6, Zenon DEF PeekOffset
    <2>4. Ahead(s, f)' <=> s > read_seq' \/ (s = read_seq' /\ f.off >= read_offset')
      BY Zenon DEF Ahead
    <2> QED
      BY <1>2, <1>3, <2>2, <2>3, <2>4 DEF Ahead
  <1> QED
    BY <1>5, <1>6, Zenon

\* Entries stay when the files and what is known of them stay.
LEMMA SameFiles ==
  ASSUME UNCHANGED disk, NEW s, NEW f
  PROVE  Held(s, f)' <=> Held(s, f)
  BY Zenon DEF Held

LEMMA SameStore ==
  ASSUME LogIs, LogIs', UNCHANGED storeVars
  PROVE  OnDisk' = OnDisk /\ Consumed' = Consumed
  <1>1. \A s, f : Held(s, f)' <=> Held(s, f)
    BY Zenon DEF Held, storeVars
  <1>2. \A s, f : Held(s, f) => (Ahead(s, f)' <=> Ahead(s, f))
    BY Zenon DEF Ahead, storeVars
  <1> QED
    BY <1>1, <1>2, SameEntries, Zenon

\* PeekFrame offers the oldest entry that was not replayed.
LEMMA PeekOffers ==
  ASSUME TypeOK, StoreInv, LogInv, Known, LogIs, LogIs', PeekFrame
  PROVE  \E e \in OnDisk : WL!Offer(e)
  <1>0. found = {} /\ segments # <<>> /\ dbatch = NoBatch /\ disk' = disk
        /\ read_seq' = PeekSeq /\ read_offset' = PeekOffset
    BY Up, Zenon DEF PeekFrame, LogInv, StoreInv
  <1>1. PICK f \in read_frame_at(disk[PeekSeq], PeekOffset) : dbatch' = f.batch
    BY Zenon DEF PeekFrame
  <1>2. PeekSeq = Oldest.seq /\ Oldest.seq \in DOMAIN disk /\ PeekSeq \in Nat
    <2>1. PeekSeq = Oldest.seq /\ PeekSeq \in Nat
      BY <1>0, PeekOldest, PeekSegment, Zenon DEF StoreInv
    <2> QED
      BY <1>0, <2>1, SegType, Zenon DEF StoreInv, DiskInv, Oldest
  <1>3. f \in disk[PeekSeq].frames /\ f.off = PeekOffset
    BY <1>1, Zenon DEF read_frame_at
  <1>4. Held(PeekSeq, f) /\ f.off \in Nat
    BY <1>0, <1>2, <1>3, LiveFrames, OneFrameAt, Zenon DEF LiveHeld
  <1>5. ASSUME NEW s, NEW g, Held(s, g)
        PROVE  Ahead(s, g) <=> s > PeekSeq \/ (s = PeekSeq /\ g.off >= f.off)
    <2>1. Ahead(s, g)' <=> Ahead(s, g)
      BY <1>0, <1>5, Resync, Zenon
    <2> QED
      BY <1>0, <1>3, <2>1, Zenon DEF Ahead
  <1>6. Ahead(PeekSeq, f)
    BY <1>2, <1>4, <1>5
  <1>7. ASSUME NEW s, NEW g, Held(s, g), Ahead(s, g)
        PROVE  PeekSeq < s \/ (PeekSeq = s /\ f.off <= g.off)
    <2>1. s \in DOMAIN disk /\ g \in disk[s].frames
      BY <1>7, Zenon DEF Held, Chained
    <2>2. s \in Nat /\ g.off \in Nat
      BY <1>0, <2>1, OldestFirst, OneFrameAt, Zenon
    <2> QED
      BY <1>2, <1>4, <1>5, <1>7, <2>2, Zenon
  <1>8. <<PeekSeq, f>> \in OnDisk /\ WL!Oldest(<<PeekSeq, f>>, OnDisk \ Consumed)
    BY <1>4, <1>6, <1>7, AtCursor, Zenon
  <1>9. OnDisk' = OnDisk /\ Consumed' = Consumed
    <2>1. \A s, g : Held(s, g)' <=> Held(s, g)
      BY <1>0, SameFiles, Zenon
    <2>2. \A s, g : Held(s, g) => (Ahead(s, g)' <=> Ahead(s, g))
      BY <1>0, Resync, Zenon
    <2> QED
      BY <2>1, <2>2, SameEntries, Zenon
  <1>10. dbatch' = BatchOf(<<PeekSeq, f>>)
    BY <1>1, Zenon DEF BatchOf
  <1> QED
    BY <1>0, <1>8, <1>9, <1>10, Zenon DEF WL!Offer

\* commit_pending replays the oldest entry, or nothing if drop-oldest took it away.
LEMMA CommitReplays ==
  ASSUME TypeOK, StoreInv, Known, LogIs, LogIs', commit_pending
  PROVE  (\E e \in OnDisk : WL!Replayed(e)) \/ UNCHANGED WL!logVars
  <1>0. found = {} /\ disk' = disk /\ dbatch' = dbatch /\ read_seq' = read_seq
        /\ read_offset' = Advanced
    BY Up, Zenon DEF commit_pending, StoreInv
  <1>1. \A s, g : Held(s, g)' <=> Held(s, g)
    BY <1>0, SameFiles, Zenon
  <1>2. CASE pending_advance = None
    <2>1. \A s, g : Held(s, g) => (Ahead(s, g)' <=> Ahead(s, g))
      BY <1>0, <1>2, Zenon DEF Ahead, Advanced
    <2> QED
      BY <1>0, <1>1, <2>1, SameEntries, Zenon DEF WL!logVars
  <1>3. CASE pending_advance # None
    <2>1. segments # <<>> /\ read_seq = Oldest.seq
      BY <1>3, Zenon DEF StoreInv, CursorInv
    <2>2. PICK f \in disk[read_seq].frames : f.off = read_offset /\ pending_advance = End(f)
      BY <1>3, <2>1, Zenon DEF StoreInv, CursorInv
    <2>3. read_seq \in DOMAIN disk /\ read_seq \in Nat
      BY <1>3, PendingSegment, Zenon DEF TypeOK
    <2>4. /\ Held(read_seq, f) /\ f.off \in Nat /\ End(f) \in Nat /\ f.off < End(f)
      BY <1>0, <2>2, <2>3, LiveFrames, OneFrameAt, Zenon DEF LiveHeld
    <2>5. ASSUME NEW s, NEW g, Held(s, g)
          PROVE  /\ s \in Nat /\ g.off \in Nat
                 /\ s = read_seq => f = g \/ End(f) <= g.off \/ g.off < f.off
      <3>1. s \in DOMAIN disk /\ g \in disk[s].frames
        BY <2>5, Zenon DEF Held, Chained
      <3>2. s \in Nat /\ g.off \in Nat
        BY <1>0, <3>1, OldestFirst, OneFrameAt, Zenon
      <3>3. s = read_seq => f = g \/ End(f) <= g.off \/ g.off < f.off
        BY <2>2, <3>1, OneFrameAt, Zenon
      <3> QED
        BY <3>2, <3>3, Zenon
    <2>6. Ahead(read_seq, f)
      BY <2>2, <2>4 DEF Ahead
    <2>7. ASSUME NEW s, NEW g, Held(s, g), Ahead(s, g)
          PROVE  read_seq < s \/ (read_seq = s /\ f.off <= g.off)
      BY <2>2, <2>3, <2>4, <2>5, <2>7, Zenon DEF Ahead
    <2>8. <<read_seq, f>> \in OnDisk /\ WL!Oldest(<<read_seq, f>>, OnDisk \ Consumed)
      BY <2>4, <2>6, <2>7, AtCursor, Zenon
    <2>9. ASSUME NEW s, NEW g, Held(s, g)
          PROVE  Ahead(s, g)' <=> Ahead(s, g) /\ ~(s = read_seq /\ g = f)
      <3>1. Ahead(s, g)' <=> s > read_seq \/ (s = read_seq /\ g.off >= End(f))
        BY <1>0, <1>3, <2>2, Zenon DEF Ahead, Advanced
      <3>2. Ahead(s, g) <=> s > read_seq \/ (s = read_seq /\ g.off >= f.off)
        BY <2>2, Zenon DEF Ahead
      <3> QED
        BY <2>3, <2>4, <2>5, <2>9, <3>1, <3>2
    <2>10. OnDisk' = OnDisk /\ Consumed' = Consumed \cup {<<read_seq, f>>}
      BY <1>1, <2>4, <2>9, OneReplayed, Zenon
    <2> QED
      BY <1>0, <2>8, <2>10, Zenon DEF WL!Replayed
  <1> QED
    BY <1>2, <1>3, Zenon

\* The entries of a segment.
EntriesOf(s) == {x \in OnDisk : x[1] = s}

\* The entries of the oldest segment leave.
LEMMA SegmentDropped ==
  ASSUME LogIs, LogIs', dbatch' = dbatch, NEW o,
         \A s, f : Held(s, f)' <=> Held(s, f) /\ s # o,
         \A s, f : Held(s, f) /\ s # o => o < s /\ Ahead(s, f) /\ Ahead(s, f)'
  PROVE  WL!DropPrefix(EntriesOf(o))
  <1> DEFINE E == EntriesOf(o)
  <1>1. ASSUME NEW x \in OnDisk
        PROVE  \E s, f : /\ x = <<s, f>> /\ x[1] = s /\ Held(s, f) /\ (x \in E <=> s = o)
    <2>1. PICK s, f : x = <<s, f>>
      BY Zenon DEF LogIs
    <2>2. x[1] = s
      BY <2>1, Zenon
    <2> QED
      BY <2>1, <2>2, Zenon DEF LogIs, EntriesOf
  <1> HIDE DEF E
  <1>2. ASSUME NEW x \in E, NEW y \in OnDisk \ E PROVE Before(x, y)
    <2>1. x[1] = o
      BY <1>2, Zenon DEF E, EntriesOf
    <2>2. PICK s, f : y[1] = s /\ Held(s, f) /\ s # o
      BY <1>1, <1>2, Zenon
    <2> QED
      BY <2>1, <2>2, Zenon DEF Before
  <1>3. ASSUME NEW x \in OnDisk
        PROVE  /\ x \in OnDisk' <=> x \notin E
               /\ x \notin E => x \notin Consumed /\ x \notin Consumed'
    <2>1. PICK s, f : x = <<s, f>> /\ Held(s, f) /\ (x \in E <=> s = o)
      BY <1>1, Zenon
    <2>2. /\ x \in OnDisk' <=> Held(s, f)'
          /\ x \in Consumed' => ~Ahead(s, f)' /\ Held(s, f)'
          /\ x \in Consumed => ~Ahead(s, f)
      BY <2>1, Zenon DEF LogIs
    <2> QED
      BY <2>1, <2>2, Zenon
  <1>4. ASSUME NEW x \in OnDisk' PROVE x \in OnDisk
    <2>1. PICK s, f : x = <<s, f>>
      BY Zenon DEF LogIs
    <2> QED
      BY <2>1, Zenon DEF LogIs
  <1>5. OnDisk' = OnDisk \ E
    BY <1>3, <1>4, Zenon
  <1>6. Consumed \subseteq OnDisk /\ Consumed' \subseteq OnDisk'
    BY Zenon DEF LogIs
  <1>7. Consumed' = Consumed \ E
    BY <1>3, <1>5, <1>6, Zenon
  <1> QED
    BY <1>2, <1>5, <1>7, Zenon DEF WL!DropPrefix, WL!AllBefore, E

\* Drop-oldest and the deletion of a consumed segment take the oldest segment.
LEMMA OldestLeaves ==
  ASSUME TypeOK, TypeOK', StoreInv, StoreInv', Known, Known', LogIs, LogIs',
         EnforceCap \/ gc_front_consumed
  PROVE  WL!DropPrefix(EntriesOf(Oldest.seq))
  <1>i. SeqInv /\ CursorInv /\ ControlInv
    BY Zenon DEF StoreInv
  <1>0. mode = "up" /\ found = {} /\ found' = {} /\ dbatch' = dbatch
    BY <1>i, Up, Zenon DEF EnforceCap, gc_front_consumed, processVars, drainerVars
  <1>1. disk' = [s \in DOMAIN disk \ {Oldest.seq} |-> disk[s]] /\ 1 \in DOMAIN segments
    BY <1>i, OldestDropped, Zenon
  <1>2. ASSUME NEW s, NEW f PROVE Held(s, f)' <=> Held(s, f) /\ s # Oldest.seq
    BY <1>1, Zenon DEF Held
  <1>3. ASSUME NEW s, NEW f, Held(s, f), s # Oldest.seq
        PROVE  Oldest.seq < s /\ Ahead(s, f) /\ Ahead(s, f)'
    <2>1. s \in DOMAIN disk /\ f \in disk[s].frames
      BY <1>3, Zenon DEF Held, Chained
    <2>2. /\ s \in Nat /\ read_seq \in Nat /\ Oldest.seq \in Nat
          /\ Oldest.seq <= s /\ read_seq <= Oldest.seq
      BY <1>0, <2>1, OldestFirst, Zenon
    <2>3. Oldest.seq < s /\ read_seq < s
      BY <1>3, <2>2
    <2>4. Held(s, f)' /\ s \in DOMAIN disk' /\ f \in disk'[s].frames
      BY <1>1, <1>2, <1>3, <2>1, Zenon
    <2>5. CASE read_offset' = SEGMENT_HEADER_LEN
      <3>0. (TypeOK /\ StoreInv /\ read_offset = SEGMENT_HEADER_LEN => AllOwed)'
        BY StartOwed, PTL
      <3>1. AllOwed'
        BY <2>5, <3>0, Zenon
      <3>2. s \in (Seqs \cup found)'
        BY <2>4, Zenon DEF Known
      <3> QED
        BY <2>3, <2>4, <3>1, <3>2, Zenon DEF AllOwed, Owed, Ahead
    <2>6. CASE EnforceCap /\ read_offset' # SEGMENT_HEADER_LEN
      <3>1. read_seq' = read_seq
        BY <2>6, Zenon DEF EnforceCap, CursorAfterDrop, cursor
      <3> QED
        BY <2>3, <3>1, Zenon DEF Ahead
    <2>7. CASE gc_front_consumed /\ read_offset' # SEGMENT_HEADER_LEN
      <3>1. segments' = <<>>
        BY <2>7, Zenon DEF gc_front_consumed
      <3>2. s \in Seqs'
        BY <1>0, <2>4, Zenon DEF Known
      <3> QED
        BY <3>1, <3>2 DEF Seqs
    <2> QED
      BY <2>5, <2>6, <2>7, Zenon
  <1> QED
    BY <1>0, <1>2, <1>3, SegmentDropped, Zenon

\* gc_front_consumed deletes only what was replayed: its segment is at its end.
LEMMA ConsumedLeaves ==
  ASSUME TypeOK, StoreInv, Known, LogIs, gc_front_consumed
  PROVE  EntriesOf(Oldest.seq) \subseteq Consumed
  <1>i. SeqInv /\ CursorInv /\ ControlInv
    BY Zenon DEF StoreInv
  <1>0. found = {} /\ segments # <<>> /\ read_frame_at(disk[PeekSeq], PeekOffset) = {}
    BY <1>i, Up, Zenon DEF gc_front_consumed, AtEnd
  <1>1. PeekSeq = Oldest.seq /\ 1 \in DOMAIN segments /\ Oldest.seq \in DOMAIN disk
    BY <1>0, <1>i, PeekOldest, SegType, Zenon DEF StoreInv, DiskInv, Oldest
  <1>2. ASSUME NEW h \in disk[Oldest.seq].frames PROVE h.off # PeekOffset
    <2>1. PayloadLen[h.batch] <= MaxFramePayload
      BY <1>1, TidyFiles, Zenon DEF Tidy
    <2> QED
      BY <1>0, <1>1, <2>1, Zenon DEF read_frame_at
  <1>3. Filled(disk[Oldest.seq], Oldest.bytes) /\ Oldest.bytes \in Nat
    BY <1>1, SegType, Zenon DEF StoreInv, DiskInv, Oldest
  <1>4. ASSUME NEW f \in disk[Oldest.seq].frames PROVE ~Ahead(Oldest.seq, f)
    <2>1. f.off \in Nat /\ End(f) \in Nat /\ f.off < End(f) /\ SEGMENT_HEADER_LEN <= f.off
      BY <1>1, OneFrameAt, Zenon
    <2>2. End(f) <= Oldest.bytes
      BY <1>3, Zenon DEF Filled
    <2>3. read_seq \in Seqs
      <3>1. ASSUME read_seq \notin Seqs PROVE FALSE
        <4>1. \A h \in disk[Oldest.seq].frames : h.off # SEGMENT_HEADER_LEN
          BY <1>2, <3>1, Zenon DEF PeekOffset
        <4>2. Oldest.bytes = SEGMENT_HEADER_LEN
          BY <1>3, <4>1, Zenon DEF Filled
        <4> QED
          BY <2>1, <2>2, <4>2 DEF SEGMENT_HEADER_LEN
      <3> QED
        BY <3>1, Zenon
    <2>4. PeekOffset = read_offset /\ read_seq = Oldest.seq
      BY <1>1, <2>3, Zenon DEF PeekOffset, PeekSeq
    <2>5. read_offset = Oldest.bytes
      BY <1>0, <1>2, <1>i, <2>4, Zenon DEF CursorInv
    <2>6. read_seq \in Nat
      BY Zenon DEF TypeOK
    <2> QED
      BY <1>3, <2>1, <2>2, <2>4, <2>5, <2>6 DEF Ahead
  <1>5. ASSUME NEW x \in EntriesOf(Oldest.seq) PROVE x \in Consumed
    <2>1. PICK s, f : x = <<s, f>>
      BY Zenon DEF LogIs, EntriesOf
    <2>2. s = Oldest.seq /\ Held(s, f)
      BY <2>1, Zenon DEF LogIs, EntriesOf
    <2>3. f \in disk[Oldest.seq].frames
      BY <2>2, Zenon DEF Held, Chained
    <2> QED
      BY <1>4, <2>1, <2>2, <2>3, Zenon DEF LogIs
  <1> QED
    BY <1>5, Zenon

\* WriteFrame appends one entry behind all others.
LEMMA WriteAppends ==
  ASSUME TypeOK, TypeOK', StoreInv, StoreInv', Known, Known', LogIs, LogIs', WriteFrame
  PROVE  \E e \in OnDisk' : WL!Write(e)
  <1>a. PICK a, f : /\ a = active.seq
                    /\ f = [off |-> active.offset, batch |-> wbatch, batch_seq |-> next_batch_seq]
    BY Zenon
  <1>i. SeqInv /\ CursorInv /\ ControlInv /\ DiskInv
    BY Zenon DEF StoreInv
  <1>0. found = {} /\ found' = {} /\ UNCHANGED <<dbatch, read_seq, read_offset>>
    BY <1>i, Up, Zenon DEF WriteFrame, ReadyToWrite, processVars, drainerVars, cursor
  <1>1. /\ wbatch \in Batch /\ a = Newest.seq /\ active.offset = Newest.bytes
        /\ a \in DOMAIN disk /\ active.offset \in Nat /\ DOMAIN disk' = DOMAIN disk
        /\ \A s \in DOMAIN disk : s # a => disk'[s] = disk[s]
        /\ segments # <<>>
        /\ disk'[a].frames = disk[a].frames \cup
             {[off |-> active.offset, batch |-> wbatch, batch_seq |-> next_batch_seq]}
    BY <1>a, WriteEffect, Zenon
  <1>2. disk'[a].frames = disk[a].frames \cup {f}
    BY <1>1, <1>a, Zenon
  <1>3. LiveHeld /\ LiveHeld'
    <2>1. LiveHeld
      BY <1>0, LiveFrames, Zenon
    <2>2. (TypeOK /\ StoreInv /\ Known /\ found = {} => LiveHeld)'
      BY LiveFrames, PTL
    <2> QED
      BY <1>0, <2>1, <2>2, Zenon
  <1>4. f.off = active.offset /\ f.batch = wbatch
    BY <1>a, Zenon
  <1>5. ASSUME NEW s, NEW g PROVE Held(s, g)' <=> Held(s, g) \/ (s = a /\ g = f)
    <2>1. Held(s, g)' <=> s \in DOMAIN disk' /\ g \in disk'[s].frames
      BY <1>3, Zenon DEF LiveHeld
    <2>2. Held(s, g) <=> s \in DOMAIN disk /\ g \in disk[s].frames
      BY <1>3, Zenon DEF LiveHeld
    <2> QED
      BY <1>1, <1>2, <2>1, <2>2, Zenon
  <1>6. ASSUME NEW s, NEW g PROVE Ahead(s, g)' <=> Ahead(s, g)
    BY <1>0, Zenon DEF Ahead
  <1>7. Ahead(a, f)
    <2>1. Owed(a, f)'
      BY <1>2, <1>4, <1>a, AppendOwed, Zenon
    <2> QED
      BY <1>6, <2>1, Zenon DEF Owed, Ahead
  <1>8. ASSUME NEW s, NEW g, Held(s, g) PROVE s < a \/ (s = a /\ g.off < f.off)
    <2>1. s \in DOMAIN disk /\ g \in disk[s].frames
      BY <1>8, Zenon DEF Held, Chained
    <2>2. PICK i \in DOMAIN segments : s = segments[i].seq
      BY <1>0, <2>1, Zenon DEF Known, Seqs
    <2>3. /\ i \in Nat /\ 1 <= i /\ i <= Len(segments) /\ Len(segments) \in DOMAIN segments
          /\ Len(segments) \in Nat
      BY <1>1, SegType, Zenon
    <2>4. CASE i < Len(segments)
      BY <1>1, <1>i, <2>2, <2>3, <2>4, Zenon DEF SeqInv, Newest
    <2>5. CASE i = Len(segments)
      <3>1. s = a /\ Filled(disk[s], segments[i].bytes) /\ segments[i].bytes = active.offset
        BY <1>1, <1>i, <2>2, <2>5, Zenon DEF DiskInv, Newest
      <3>2. End(g) <= active.offset
        BY <2>1, <3>1, Zenon DEF Filled
      <3>3. g.off \in Nat /\ End(g) \in Nat /\ g.off < End(g)
        BY <2>1, OneFrameAt, Zenon
      <3> QED
        BY <1>1, <1>4, <3>1, <3>2, <3>3
    <2> QED
      BY <2>3, <2>4, <2>5
  <1>9. OnDisk' = OnDisk \cup {<<a, f>>} /\ Consumed' = Consumed /\ WL!AllBefore(OnDisk, {<<a, f>>})
    BY <1>5, <1>6, <1>7, <1>8, EntryAppended, Zenon
  <1>10. BatchOf(<<a, f>>) \in Batch
    BY <1>1, <1>4, Zenon DEF BatchOf
  <1> QED
    BY <1>0, <1>9, <1>10, Zenon DEF WL!Write

\* The newest entries are cut off, and nothing counts as replayed any more.
LEMMA EntriesCut ==
  ASSUME LogIs, LogIs', dbatch' = NoBatch,
         \A s, f : Held(s, f)' => Held(s, f) /\ Ahead(s, f)',
         \A s, f, t, g : Held(s, f)' /\ Held(t, g) /\ ~Held(t, g)' =>
                           s < t \/ (s = t /\ f.off < g.off)
  PROVE  WL!Restart(OnDisk \ OnDisk')
  <1>1. ASSUME NEW x \in OnDisk' PROVE x \in OnDisk /\ x \notin Consumed'
    <2>1. PICK s, f : x = <<s, f>>
      BY Zenon DEF LogIs
    <2>2. Held(s, f)'
      BY <2>1, Zenon DEF LogIs
    <2> QED
      BY <2>1, <2>2, Zenon DEF LogIs
  <1>2. ASSUME NEW x \in OnDisk', NEW y \in OnDisk \ OnDisk' PROVE Before(x, y)
    <2>1. PICK s, f : x = <<s, f>>
      BY Zenon DEF LogIs
    <2>2. PICK t, g : y = <<t, g>>
      BY Zenon DEF LogIs
    <2>3. Held(s, f)' /\ Held(t, g) /\ ~Held(t, g)'
      BY <2>1, <2>2, Zenon DEF LogIs
    <2>4. s < t \/ (s = t /\ f.off < g.off)
      BY <2>3, Zenon
    <2> QED
      BY <2>1, <2>2, <2>4, Zenon DEF Before
  <1>3. Consumed' \subseteq OnDisk'
    BY Zenon DEF LogIs
  <1>4. Consumed' = {}
    BY <1>1, <1>3, Zenon
  <1>5. OnDisk' = OnDisk \ (OnDisk \ OnDisk')
    BY <1>1, Zenon
  <1>6. WL!AllBefore(OnDisk \ (OnDisk \ OnDisk'), OnDisk \ OnDisk')
    BY <1>2, Zenon DEF WL!AllBefore
  <1> QED
    BY <1>4, <1>5, <1>6, Zenon DEF WL!Restart

\* In every file but the newest, all that is chained is on stable storage.
SealedFiles == \A s, t \in DOMAIN disk : s < t => Sealed(disk[s])

\* A crash cuts the log after its last entry that can be reached.
LEMMA CrashCuts ==
  ASSUME TypeOK, TypeOK', StoreInv, StoreInv', Known, Known', LogIs, LogIs', SealedFiles, Crash
  PROVE  WL!Restart(OnDisk \ OnDisk')
  <1>0. dbatch' = NoBatch /\ read_offset' = SEGMENT_HEADER_LEN
    BY Zenon DEF Crash
  <1>1. /\ DOMAIN disk' \subseteq DOMAIN disk
        /\ \A s \in DOMAIN disk' : Survives(disk[s], disk'[s])
        /\ \A s \in DOMAIN disk \ DOMAIN disk' : disk[s].synced = 0
    BY CrashEffect, Zenon
  <1>2. /\ \A s \in DOMAIN disk : Tidy(disk[s])
        /\ \A s \in DOMAIN disk' : Tidy(disk'[s])
    <2>1. \A s \in DOMAIN disk : Tidy(disk[s])
      BY TidyFiles, Zenon
    <2>2. ASSUME NEW s \in DOMAIN disk' PROVE Tidy(disk'[s])
      <3>1. FileOK(disk'[s])
        BY Zenon DEF StoreInv, DiskInv
      <3>2. disk'[s].frames \subseteq disk[s].frames /\ Tidy(disk[s])
        BY <1>1, <2>1, Zenon DEF Survives
      <3> QED
        BY <3>1, <3>2, Zenon DEF Tidy
    <2> QED
      BY <2>1, <2>2, Zenon
  <1>3. /\ \A s, f : Held(s, f) <=> /\ s \in DOMAIN disk /\ f \in disk[s].frames
                                    /\ disk[s].header /\ ChainedTo(disk[s], f.off)
        /\ \A s, f : Held(s, f)' <=> /\ s \in DOMAIN disk' /\ f \in disk'[s].frames
                                     /\ disk'[s].header /\ ChainedTo(disk'[s], f.off)
    BY <1>2, ChainedIs, Zenon DEF Held
  <1>4. ASSUME NEW s, NEW f, Held(s, f)'
        PROVE  /\ s \in DOMAIN disk /\ s \in DOMAIN disk'
               /\ f \in disk'[s].frames /\ disk'[s].frames \subseteq disk[s].frames
               /\ disk'[s].header /\ disk[s].header /\ ChainedTo(disk'[s], f.off)
               /\ ChainedTo(disk[s], f.off)
               /\ \A g \in disk[s].frames :
                    g.off <= f.off => g \in disk'[s].frames /\ ChainedTo(disk'[s], g.off)
    <2>1. /\ s \in DOMAIN disk /\ s \in DOMAIN disk' /\ f \in disk'[s].frames
          /\ disk'[s].header /\ ChainedTo(disk'[s], f.off)
      BY <1>1, <1>3, <1>4, Zenon
    <2>2. disk'[s].frames \subseteq disk[s].frames /\ disk[s].header
      BY <1>1, <2>1, Zenon DEF Survives
    <2> QED
      BY <1>2, <2>1, <2>2, ChainLeft, Zenon
  <1>5. ASSUME NEW s, NEW f, Held(s, f)' PROVE Held(s, f) /\ Ahead(s, f)'
    <2>1. Held(s, f)
      BY <1>3, <1>4, <1>5, Zenon
    <2>2. (TypeOK /\ StoreInv /\ read_offset = SEGMENT_HEADER_LEN => AllOwed)'
      BY StartOwed, PTL
    <2>3. AllOwed'
      BY <1>0, <2>2, Zenon
    <2>4. s \in (Seqs \cup found)' /\ f \in disk'[s].frames
      BY <1>4, <1>5, Zenon DEF Known
    <2> QED
      BY <2>1, <2>3, <2>4, Zenon DEF AllOwed, Owed, Ahead
  <1>6. ASSUME NEW s, NEW f, NEW t, NEW g, Held(s, f)', Held(t, g), ~Held(t, g)'
        PROVE  s < t \/ (s = t /\ f.off < g.off)
    <2>1. /\ s \in DOMAIN disk /\ t \in DOMAIN disk /\ f \in disk[s].frames
          /\ g \in disk[t].frames
      BY <1>3, <1>4, <1>6, Zenon
    <2>2. s \in Nat /\ t \in Nat /\ f.off \in Nat /\ g.off \in Nat
      BY <1>2, <2>1, Zenon DEF TypeOK, Tidy
    <2>3. ASSUME s = t PROVE ~(g.off <= f.off)
      BY <1>3, <1>4, <1>6, <2>1, <2>3, Zenon
    <2>4. ASSUME t < s PROVE FALSE
      <3>1. Sealed(disk[t])
        BY <2>1, <2>4, Zenon DEF SealedFiles
      <3>2. disk[t].synced > 0
        BY <3>1, Zenon DEF Sealed
      <3>3. t \in DOMAIN disk' /\ Survives(disk[t], disk'[t])
        BY <1>1, <2>1, <3>2
      <3>4. disk'[t].header = disk[t].header /\ disk'[t].frames = disk[t].frames
        BY <3>1, <3>3, Zenon DEF Survives, Sealed
      <3>5. Chained(disk'[t]) = Chained(disk[t])
        BY <3>4, SameChains, Zenon
      <3> QED
        BY <1>6, <3>3, <3>5, Zenon DEF Held
    <2> QED
      BY <2>2, <2>3, <2>4
  <1> QED
    BY <1>0, <1>5, <1>6, EntriesCut, Zenon

\* Rotation and fdatasync, and recovery file by file, leave the log as it is.
LEMMA QuietFiles ==
  ASSUME TypeOK, TypeOK', StoreInv, StoreInv', [Next]_vars, errors' = errors,
         \/ Rotate \/ BoundBurst \/ GroupCommit
         \/ \E r \in found : RecoverSegment(r) \/ RecoverDrops(r),
         NEW s, NEW f
  PROVE  Held(s, f)' <=> Held(s, f)
  <1>1. CASE Rotate
    <2>1. /\ next_seq \notin DOMAIN disk /\ DOMAIN disk' = DOMAIN disk \cup {next_seq}
          /\ \A r \in DOMAIN disk : disk'[r].frames = disk[r].frames /\ disk'[r].header = disk[r].header
          /\ disk'[next_seq] = NewFile(TRUE)
      BY <1>1, RotateEffect, Zenon
    <2>2. \A r \in DOMAIN disk : Chained(disk'[r]) = Chained(disk[r])
      BY <2>1, SameChains, Zenon
    <2>3. Chained(NewFile(TRUE)) = {}
      BY Zenon DEF Chained, NewFile
    <2> QED
      BY <2>1, <2>2, <2>3, Zenon DEF Held
  <1>2. CASE BoundBurst \/ GroupCommit
    <2>1. /\ DOMAIN disk' = DOMAIN disk
          /\ \A r \in DOMAIN disk : disk'[r].frames = disk[r].frames /\ disk'[r].header = disk[r].header
      BY <1>2, SyncEffect, Zenon
    <2>2. \A r \in DOMAIN disk : Chained(disk'[r]) = Chained(disk[r])
      BY <2>1, SameChains, Zenon
    <2> QED
      BY <2>1, <2>2, Zenon DEF Held
  <1>3. ASSUME NEW r \in found, RecoverSegment(r) PROVE Held(s, f)' <=> Held(s, f)
    <2> DEFINE kept(o) == {h \in disk[r].frames : h.off < o}
    <2>1. PICK o \in Boundaries(disk[r]) :
            /\ o \in Nat /\ WalkEndsAt(disk[r], o)
            /\ disk' = [disk EXCEPT ![r].frames = kept(o)]
      BY <1>3, WalkEffect, Zenon
    <2>2. r \in DOMAIN disk /\ disk[r] \in File /\ disk[r].header
      BY <1>3, Zenon DEF TypeOK, RecoverSegment
    <2>3. /\ DOMAIN disk' = DOMAIN disk /\ \A t \in DOMAIN disk : t # r => disk'[t] = disk[t]
          /\ disk'[r].frames = kept(o) /\ disk'[r].header
      BY <2>1, <2>2, Zenon DEF File
    <2>4. \A h : h \in Chained(disk[r]) <=> h \in kept(o)
      BY <2>1, <2>2, TidyFiles, WalkChained, Zenon
    <2>5. \A h : h \in Chained(disk'[r]) <=> h \in kept(o)
      <3>1. Filled(disk'[r], o)
        BY <2>1, <2>2, <2>3, WalkFills, Zenon DEF StoreInv, DiskInv
      <3>2. Tidy(disk[r])
        BY <2>2, TidyFiles, Zenon
      <3>3. Tidy(disk'[r])
        <4>1. disk'[r].frames \subseteq disk[r].frames
          BY <2>3, Zenon
        <4>2. FileOK(disk'[r])
          BY <3>2, <4>1, FewerFrames, Zenon DEF Tidy
        <4> QED
          BY <3>2, <4>1, <4>2, Zenon DEF Tidy
      <3> QED
        BY <2>1, <2>3, <3>1, <3>3, FilledChained, Zenon
    <2>6. CASE s = r
      BY <2>2, <2>3, <2>4, <2>5, <2>6, Zenon DEF Held
    <2>7. CASE s # r
      BY <2>3, <2>7, Zenon DEF Held
    <2> QED
      BY <2>6, <2>7, Zenon
  <1>4. ASSUME NEW r \in found, RecoverDrops(r) PROVE Held(s, f)' <=> Held(s, f)
    <2>1. errors \in Nat /\ r \in DOMAIN disk
      BY Zenon DEF TypeOK
    <2>2. ~IoError
      BY <2>1 DEF IoError
    <2>3. ~disk[r].header /\ disk' = [t \in DOMAIN disk \ {r} |-> disk[t]]
      BY <1>4, <2>2, Zenon DEF RecoverDrops
    <2>4. Chained(disk[r]) = {}
      BY <2>3, Zenon DEF Chained
    <2> QED
      BY <2>1, <2>3, <2>4, Zenon DEF Held
  <1> QED
    BY <1>1, <1>2, <1>3, <1>4, Zenon

\* What a step does to the drainer's hand: peek fills it, the handover and a crash
\* empty it.
LEMMA DrainerHand ==
  ASSUME TypeOK, StoreInv, LogInv, [Next]_vars
  PROVE  /\ \/ dbatch' = dbatch \/ PeekFrame \/ Crash
            \/ dbatch # NoBatch /\ dbatch' = NoBatch /\ UNCHANGED storeVars
         /\ dpc' = "send" <=> dbatch' # NoBatch
  <1> USE DEF writerVars, drainerVars
  <1>0. dpc = "send" <=> dbatch # NoBatch
    BY Zenon DEF LogInv
  <1>1. CASE Writer
    <2>1. ASSUME NEW b \in Batch, WriterRecv(b) \/ WriterTryRecv(b)
          PROVE  UNCHANGED <<dpc, dbatch>>
      BY <2>1, Zenon DEF WriterRecv, WriterTryRecv
    <2>2. ASSUME WriterLock \/ EnforceCap \/ Rotate PROVE UNCHANGED <<dpc, dbatch>>
      BY <2>2, Zenon DEF WriterLock, EnforceCap, Rotate
    <2>3. ASSUME RotateFails \/ WriteFrame \/ WriteFails PROVE UNCHANGED <<dpc, dbatch>>
      BY <2>3, Zenon DEF RotateFails, WriteFrame, WriteFails
    <2>4. ASSUME BoundBurst \/ GroupCommit PROVE UNCHANGED <<dpc, dbatch>>
      BY <2>4, Zenon DEF BoundBurst, GroupCommit
    <2>5. UNCHANGED <<dpc, dbatch>>
      BY <1>1, <2>1, <2>2, <2>3, <2>4, Zenon DEF Writer
    <2> QED
      BY <1>0, <2>5, Zenon
  <1>2. CASE Drainer
    <2>1. ASSUME NEW t \in BOOLEAN, Sweep(t) \/ DrainLoop(t)
          PROVE  dbatch' = dbatch /\ dpc # "send" /\ dpc' # "send"
      BY <2>1, Zenon DEF Sweep, DrainLoop
    <2>2. ASSUME NEW t \in BOOLEAN, Handover(t)
          PROVE  dbatch # NoBatch /\ dbatch' = NoBatch /\ dpc' # "send" /\ UNCHANGED storeVars
      BY <1>0, <2>2, Zenon DEF Handover, storeVars, walVars, cursor, processVars
    <2>3. ASSUME PeekFrame PROVE dpc' = "send" /\ dbatch' \in Batch
      <3>1. PICK f \in read_frame_at(disk[PeekSeq], PeekOffset) : dbatch' = f.batch
        BY <2>3, Zenon DEF PeekFrame
      <3>2. PICK i \in DOMAIN segments : segments[i].seq = PeekSeq
        BY <2>3, PeekSegment, Zenon DEF PeekFrame
      <3>3. PeekSeq \in DOMAIN disk /\ f \in disk[PeekSeq].frames
        BY <3>1, <3>2, Zenon DEF StoreInv, DiskInv, read_frame_at
      <3> QED
        BY <2>3, <3>1, <3>3, FrameType, Zenon DEF PeekFrame
    <2>4. ASSUME PeekLock \/ PeekEmpty \/ PeekNothing \/ gc_front_consumed \/ commit_pending
          PROVE  dbatch' = dbatch /\ dpc # "send" /\ dpc' # "send"
      BY <2>4, Zenon DEF PeekLock, PeekEmpty, PeekNothing, gc_front_consumed, commit_pending, PeekReturnsNone
    <2>5. NoBatch \notin Batch
      BY WalConfigAssumption, Zenon
    <2> QED
      BY <1>0, <1>2, <2>1, <2>2, <2>3, <2>4, <2>5, Zenon DEF Drainer
  <1>3. CASE Recovery
    <2>1. UNCHANGED <<dpc, dbatch>>
      BY <1>3, Zenon DEF Recovery, RecoverSegment, RecoverDrops, RecoverFinish, RecoverFails
    <2> QED
      BY <1>0, <2>1, Zenon
  <1>4. CASE Crash
    BY <1>4, Zenon DEF Crash
  <1>5. CASE UNCHANGED vars
    BY <1>0, <1>5, Zenon DEF vars
  <1> QED
    BY <1>1, <1>2, <1>3, <1>4, <1>5, Zenon DEF Next

-----------------------------------------------------------------------------
(* The invariant behind the refinement. *)

\* The newest segment is the last one in the order of their numbers.
LEMMA NewestLast ==
  ASSUME TypeOK, StoreInv, Known, found = {}, NEW s \in DOMAIN disk
  PROVE  /\ segments # <<>> /\ s \in Nat /\ Newest.seq \in Nat /\ s <= Newest.seq
         /\ Newest.seq \in DOMAIN disk
         /\ Filled(disk[Newest.seq], Newest.bytes) /\ Newest.bytes \in Nat
  <1>1. PICK i \in DOMAIN segments : s = segments[i].seq
    BY Zenon DEF Known, Seqs
  <1> DEFINE n == Len(segments)
  <1>2. /\ segments # <<>> /\ n \in DOMAIN segments /\ i \in Nat /\ i <= n /\ n \in Nat
        /\ segments[i].seq \in Nat /\ segments[n].seq \in Nat /\ segments[n].bytes \in Nat
    BY <1>1, SegType
  <1>3. i = n \/ segments[i].seq < segments[n].seq
    BY <1>2 DEF StoreInv, SeqInv
  <1>4. segments[n].seq \in DOMAIN disk /\ Filled(disk[segments[n].seq], segments[n].bytes)
    BY <1>2, Zenon DEF StoreInv, DiskInv
  <1> QED
    BY <1>1, <1>2, <1>3, <1>4 DEF Newest

\* A file that is sealed stays sealed.
LEMMA SealedKept ==
  ASSUME TypeOK, StoreInv, [Next]_vars, NEW s \in DOMAIN disk, s \in DOMAIN disk',
         Sealed(disk[s]), ~(WriteFrame /\ s = active.seq)
  PROVE  Sealed(disk'[s])
  <1>i. SeqInv /\ CursorInv /\ ControlInv
    BY Zenon DEF StoreInv
  <1>1. disk'[s].frames \subseteq disk[s].frames
    BY NewFrames, Zenon
  <1>2. disk[s].synced \in Nat /\ disk'[s].synced \in Nat /\ disk[s].synced <= disk'[s].synced
    BY SyncedKept, Zenon
  <1>3. disk[s].header /\ disk[s].synced > 0 /\ \A f \in disk[s].frames : f.off < disk[s].synced
    BY Zenon DEF Sealed
  <1>4. disk'[s].header
    <2>1. CASE UNCHANGED disk
      BY <1>3, <2>1, Zenon
    <2>2. CASE EnforceCap \/ gc_front_consumed
      <3>1. disk' = [t \in DOMAIN disk \ {Oldest.seq} |-> disk[t]]
        BY <1>i, <2>2, OldestDropped, Zenon
      <3> QED
        BY <1>3, <3>1, Zenon
    <2>3. CASE Rotate
      BY <1>3, <2>3, RotateEffect, Zenon
    <2>4. CASE RotateFails
      BY <1>3, <2>4, RotateFailsEffect, Zenon
    <2>5. CASE WriteFrame
      BY <1>3, <2>5, WriteEffect, Zenon
    <2>6. CASE BoundBurst \/ GroupCommit
      BY <1>3, <2>6, SyncEffect, Zenon
    <2>7. ASSUME NEW r \in found, RecoverSegment(r) PROVE disk'[s].header
      <3> DEFINE kept(o) == {h \in disk[r].frames : h.off < o}
      <3>1. PICK o \in Boundaries(disk[r]) : disk' = [disk EXCEPT ![r].frames = kept(o)]
        BY <2>7, WalkEffect, Zenon
      <3>2. disk[s] \in File /\ disk[r] \in File /\ r \in DOMAIN disk
        BY Zenon DEF TypeOK
      <3> HIDE DEF kept
      <3> QED
        BY <1>3, <3>1, <3>2, Zenon DEF File
    <2>8. ASSUME NEW r \in found, RecoverDrops(r) PROVE disk'[s].header
      <3>1. disk' = [t \in DOMAIN disk \ {r} |-> disk[t]] \/ disk' = disk
        BY <2>8, Zenon DEF RecoverDrops
      <3> QED
        BY <1>3, <3>1, Zenon
    <2>9. CASE Crash
      BY <1>3, <2>9, CrashEffect, Zenon DEF Survives
    <2>10. CASE PeekFrame \/ PeekNothing \/ commit_pending \/ RecoverFinish
      BY <2>1, <2>10, Zenon DEF PeekFrame, PeekNothing, commit_pending, RecoverFinish
    <2> QED
      BY <2>1, <2>2, <2>3, <2>4, <2>5, <2>6, <2>7, <2>8, <2>9, <2>10, StoreSteps, Zenon
         DEF StoreStep, storeVars
  <1>5. disk'[s].synced > 0
    BY <1>2, <1>3
  <1>6. ASSUME NEW f \in disk'[s].frames PROVE f.off < disk'[s].synced
    <2>1. f \in disk[s].frames /\ f.off < disk[s].synced
      BY <1>1, <1>3, Zenon
    <2>2. f.off \in Nat
      BY <2>1, FrameType, Zenon
    <2> QED
      BY <1>2, <2>1, <2>2
  <1> QED
    BY <1>4, <1>5, <1>6, Zenon DEF Sealed

\* Without an I/O error only rotate adds a file.
LEMMA OnlyRotateAdds ==
  ASSUME TypeOK, StoreInv, [Next]_vars, errors' = errors, ~Rotate
  PROVE  DOMAIN disk' \subseteq DOMAIN disk
  <1>i. SeqInv /\ CursorInv /\ ControlInv
    BY Zenon DEF StoreInv
  <1>1. CASE UNCHANGED disk
    BY <1>1, Zenon
  <1>2. CASE EnforceCap \/ gc_front_consumed
    <2>1. disk' = [t \in DOMAIN disk \ {Oldest.seq} |-> disk[t]]
      BY <1>2, <1>i, OldestDropped, Zenon
    <2> QED
      BY <2>1, Zenon
  <1>3. ~RotateFails
    <2>1. errors \in Nat /\ (RotateFails => errors' = errors + 1)
      BY RotateFailsEffect, Zenon DEF TypeOK
    <2> QED
      BY <2>1
  <1>4. CASE WriteFrame
    BY <1>4, WriteEffect, Zenon
  <1>5. CASE BoundBurst \/ GroupCommit
    BY <1>5, SyncEffect, Zenon
  <1>6. ASSUME NEW r \in found, RecoverSegment(r) PROVE DOMAIN disk' \subseteq DOMAIN disk
    <2> DEFINE kept(o) == {h \in disk[r].frames : h.off < o}
    <2>1. PICK o \in Boundaries(disk[r]) : disk' = [disk EXCEPT ![r].frames = kept(o)]
      BY <1>6, WalkEffect, Zenon
    <2> HIDE DEF kept
    <2> QED
      BY <2>1, Zenon
  <1>7. ASSUME NEW r \in found, RecoverDrops(r) PROVE DOMAIN disk' \subseteq DOMAIN disk
    <2>1. disk' = [t \in DOMAIN disk \ {r} |-> disk[t]] \/ disk' = disk
      BY <1>7, Zenon DEF RecoverDrops
    <2> QED
      BY <2>1, Zenon
  <1>8. CASE Crash
    BY <1>8, CrashEffect, Zenon
  <1>9. CASE PeekFrame \/ PeekNothing \/ commit_pending \/ RecoverFinish
    BY <1>1, <1>9, Zenon DEF PeekFrame, PeekNothing, commit_pending, RecoverFinish
  <1> QED
    BY <1>1, <1>2, <1>3, <1>4, <1>5, <1>6, <1>7, <1>8, <1>9, StoreSteps, Zenon
       DEF StoreStep, storeVars

\* Files other than the newest are sealed: rotate syncs the one it leaves.
LEMMA SealedStep ==
  ASSUME TypeOK, StoreInv, LogInv, [Next]_vars, errors = 0, errors' = 0
  PROVE  SealedFiles'
  <1>0. Known /\ SealedFiles /\ (mode = "up" /\ segments # <<>> => active # NoActive)
    BY Zenon DEF LogInv, Known, SealedFiles
  <1>1. CASE ~Rotate
    <2>1. DOMAIN disk' \subseteq DOMAIN disk
      BY <1>1, OnlyRotateAdds, Zenon
    <2>2. ASSUME NEW s \in DOMAIN disk', NEW t \in DOMAIN disk', s < t PROVE Sealed(disk'[s])
      <3>1. s \in DOMAIN disk /\ t \in DOMAIN disk /\ Sealed(disk[s])
        BY <1>0, <2>1, <2>2, Zenon DEF SealedFiles
      <3>2. ~(WriteFrame /\ s = active.seq)
        <4>1. ASSUME WriteFrame, s = active.seq PROVE FALSE
          <5>1. found = {}
            BY <4>1, Up, Zenon DEF WriteFrame, ReadyToWrite, StoreInv
          <5>2. active.seq = Newest.seq
            BY <4>1, WriteEffect, Zenon
          <5>3. t <= Newest.seq /\ t \in Nat /\ Newest.seq \in Nat
            BY <1>0, <3>1, <5>1, NewestLast, Zenon
          <5> QED
            BY <2>2, <4>1, <5>2, <5>3
        <4> QED
          BY <4>1, Zenon
      <3> QED
        BY <3>1, <3>2, SealedKept, Zenon
    <2> QED
      BY <2>2, Zenon DEF SealedFiles
  <1>2. CASE Rotate
    <2>1. /\ found = {} /\ mode = "up" /\ DOMAIN disk' = DOMAIN disk \cup {next_seq}
          /\ ~WriteFrame
      BY <1>2, RotateEffect, Up, Zenon DEF Rotate, WriteFrame, ReadyToWrite, StoreInv
    <2>2. \A s \in DOMAIN disk : s \in Nat /\ s < next_seq
      BY <2>1, Zenon DEF StoreInv, SeqInv, TypeOK
    <2>3. ASSUME NEW s \in DOMAIN disk', NEW t \in DOMAIN disk', s < t PROVE Sealed(disk'[s])
      <3>1. s \in DOMAIN disk
        <4>1. next_seq \in Nat
          BY Zenon DEF TypeOK
        <4> QED
          BY <2>1, <2>2, <2>3, <4>1
      <3>2. /\ segments # <<>> /\ s \in Nat /\ Newest.seq \in Nat /\ s <= Newest.seq
            /\ Newest.seq \in DOMAIN disk /\ Filled(disk[Newest.seq], Newest.bytes)
            /\ Newest.bytes \in Nat
        BY <1>0, <2>1, <3>1, NewestLast, Zenon
      <3>3. active # NoActive /\ active.seq = Newest.seq /\ active.offset = Newest.bytes
        BY <1>0, <2>1, <3>2, Zenon DEF StoreInv, ActiveInv
      <3>4. CASE s # Newest.seq
        <4>1. Sealed(disk[s])
          BY <1>0, <3>1, <3>2, <3>4 DEF SealedFiles
        <4> QED
          BY <2>1, <3>1, <4>1, SealedKept, Zenon
      <3>5. CASE s = Newest.seq
        <4>1. disk' = AddFile(DiskAfterRotate(TRUE), NewFile(TRUE))
          BY <1>2 DEF Rotate, IoError
        <4>2. /\ DiskAfterRotate(TRUE)[s].frames = disk[s].frames
              /\ DiskAfterRotate(TRUE)[s].header = disk[s].header
              /\ DiskAfterRotate(TRUE)[s].synced = active.offset
              /\ DOMAIN DiskAfterRotate(TRUE) = DOMAIN disk
          BY <3>1, <3>3, <3>5, RotatedFiles, Zenon
        <4>3. s # next_seq
          BY <2>2, <3>1
        <4>4. disk'[s] = DiskAfterRotate(TRUE)[s]
          BY <3>1, <4>1, <4>2, <4>3, Zenon DEF AddFile
        <4>5. ASSUME NEW f \in disk[s].frames PROVE f.off < active.offset
          <5>1. f.off \in Nat /\ End(f) \in Nat /\ f.off < End(f)
            BY <3>1, OneFrameAt, Zenon
          <5>2. End(f) <= Newest.bytes
            BY <3>2, <3>5, Zenon DEF Filled
          <5> QED
            BY <3>2, <3>3, <5>1, <5>2
        <4>6. disk[s].header /\ active.offset > 0
          BY <3>2, <3>3, <3>5 DEF Filled, SEGMENT_HEADER_LEN
        <4> QED
          BY <4>2, <4>4, <4>5, <4>6, Zenon DEF Sealed
      <3> QED
        BY <3>4, <3>5, Zenon
    <2> QED
      BY <2>3, Zenon DEF SealedFiles
  <1> QED
    BY <1>1, <1>2, Zenon

\* Only the end of recovery makes a store run.
LEMMA BecomesUp ==
  ASSUME [Next]_vars, mode' = "up"
  PROVE  mode = "up" \/ RecoverFinish
  <1> USE DEF processVars
  <1>1. ASSUME Writer PROVE mode' = mode
    <2>1. ASSUME NEW b \in Batch, WriterRecv(b) \/ WriterTryRecv(b) PROVE mode' = mode
      BY <2>1, Zenon DEF WriterRecv, WriterTryRecv
    <2>2. ASSUME WriterLock \/ EnforceCap \/ Rotate \/ BoundBurst \/ GroupCommit PROVE mode' = mode
      BY <2>2, Zenon DEF WriterLock, EnforceCap, Rotate, BoundBurst, GroupCommit
    <2>3. ASSUME RotateFails \/ WriteFrame \/ WriteFails PROVE mode' = mode
      BY <2>3, Zenon DEF RotateFails, WriteFrame, WriteFails
    <2> QED
      BY <1>1, <2>1, <2>2, <2>3, Zenon DEF Writer
  <1>2. ASSUME Drainer PROVE mode' = mode
    <2>1. ASSUME NEW t \in BOOLEAN, Sweep(t) \/ DrainLoop(t) \/ Handover(t) PROVE mode' = mode
      BY <2>1, Zenon DEF Sweep, DrainLoop, Handover
    <2>2. ASSUME PeekLock \/ PeekEmpty \/ PeekFrame \/ PeekNothing PROVE mode' = mode
      BY <2>2, Zenon DEF PeekLock, PeekEmpty, PeekFrame, PeekNothing
    <2>3. ASSUME gc_front_consumed \/ commit_pending PROVE mode' = mode
      BY <2>3, Zenon DEF gc_front_consumed, commit_pending
    <2> QED
      BY <1>2, <2>1, <2>2, <2>3, Zenon DEF Drainer
  <1>3. ASSUME Recovery PROVE RecoverFinish \/ mode' = mode \/ mode' = "disabled"
    BY <1>3, Zenon DEF Recovery, RecoverSegment, RecoverDrops, RecoverFails
  <1>4. ASSUME UNCHANGED vars PROVE mode' = mode
    BY <1>4, Zenon DEF vars
  <1>5. ~Crash
    BY Zenon DEF Crash
  <1> QED
    BY <1>1, <1>2, <1>3, <1>4, <1>5, Zenon DEF Next

\* Without an I/O error a running store with segments has an active one.
LEMMA ActiveKept ==
  ASSUME TypeOK, StoreInv, LogInv, [Next]_vars, errors = 0, errors' = 0,
         mode' = "up", segments' # <<>>
  PROVE  active' # NoActive
  <1>i. SeqInv /\ CursorInv /\ ControlInv
    BY Zenon DEF StoreInv
  <1>0. mode = "up" /\ segments # <<>> => active # NoActive
    BY Zenon DEF LogInv
  <1>1. mode = "up" \/ RecoverFinish
    BY BecomesUp, Zenon
  <1>2. CASE RecoverFinish
    <2>1. segments # <<>> /\ active' = [seq |-> Newest.seq, offset |-> Newest.bytes]
      BY <1>2, Zenon DEF RecoverFinish
    <2>2. Newest.seq \in Nat
      BY <2>1, SegType, Zenon DEF Newest
    <2> QED
      BY <2>1, <2>2 DEF NoActive, None
  <1>3. CASE Rotate
    <2>1. active' = [seq |-> next_seq, offset |-> SEGMENT_HEADER_LEN] /\ next_seq \in Nat
      BY <1>3, Zenon DEF Rotate, TypeOK
    <2> QED
      BY <2>1 DEF NoActive, None
  <1>4. CASE WriteFrame
    <2>1. /\ active' = [seq |-> active.seq, offset |-> active.offset + frame_len_on_disk(wbatch)]
          /\ active.seq \in DOMAIN disk
      BY <1>4, WriteEffect, Zenon
    <2>2. active.seq \in Nat
      BY <2>1, Zenon DEF TypeOK
    <2> QED
      BY <2>1, <2>2 DEF NoActive, None
  <1>5. CASE ~RecoverFinish /\ segments # <<>> /\ active' = active
    BY <1>0, <1>1, <1>5, Zenon
  <1>6. CASE EnforceCap \/ gc_front_consumed
    <2>1. segments # <<>> /\ active' = active /\ ~RecoverFinish
      <3>1. segments # <<>>
        BY <1>6, <1>i, OldestDropped, Zenon
      <3>2. active' = active
        BY <1>6, Zenon DEF EnforceCap, gc_front_consumed
      <3>3. mode = "up"
        BY <1>6, <1>i, Up, Zenon DEF EnforceCap, gc_front_consumed
      <3> QED
        BY <3>1, <3>2, <3>3, Zenon DEF RecoverFinish
    <2> QED
      BY <1>5, <2>1, Zenon
  <1>7. ~RotateFails
    <2>1. RotateFails => errors' = errors + 1
      BY RotateFailsEffect, Zenon
    <2> QED
      BY <2>1
  <1>8. ASSUME NEW r \in found, RecoverSegment(r) \/ RecoverDrops(r) PROVE FALSE
    BY <1>8, Zenon DEF RecoverSegment, RecoverDrops
  <1>9. ~Crash
    BY Zenon DEF Crash
  <1>10. CASE UNCHANGED <<segments, active>>
    BY <1>2, <1>5, <1>10, Zenon
  <1>11. CASE BoundBurst \/ GroupCommit
    BY <1>10, <1>11, SyncEffect, Zenon
  <1>12. CASE PeekFrame \/ PeekNothing \/ commit_pending
    BY <1>10, <1>12, Zenon DEF PeekFrame, PeekNothing, commit_pending
  <1> QED
    BY <1>2, <1>3, <1>4, <1>6, <1>7, <1>8, <1>9, <1>10, <1>11, <1>12, StoreSteps, Zenon
       DEF StoreStep, storeVars

\* LogInv holds at the start, and every step keeps it.
LEMMA LogInvInit == Init => LogInv
  <1> SUFFICES ASSUME Init PROVE LogInv
    BY Zenon
  <1>1. DOMAIN disk = {} /\ Seqs = {} /\ found = {} /\ segments = <<>>
    BY DEF Init, Seqs
  <1> QED
    BY <1>1, Zenon DEF Init, LogInv

LEMMA LogInvStep ==
  TypeOK /\ TypeOK' /\ StoreInv /\ StoreInv' /\ LogInv /\ [Next]_vars => LogInv'
  <1> SUFFICES ASSUME TypeOK, TypeOK', StoreInv, StoreInv', LogInv, [Next]_vars PROVE LogInv'
    BY Zenon
  <1>1. (dpc = "send" <=> dbatch # NoBatch)'
    BY DrainerHand, Zenon
  <1>2. ASSUME errors' = 0
        PROVE  /\ DOMAIN disk' = (Seqs \cup found)'
               /\ mode' = "up" /\ segments' # <<>> => active' # NoActive
               /\ SealedFiles'
    <2>1. errors = 0
      BY <1>2, ErrorCount
    <2>2. DOMAIN disk = Seqs \cup found
      BY <2>1, Zenon DEF LogInv
    <2>3. DOMAIN disk' \subseteq (Seqs \cup found)'
      BY <1>2, <2>2, FilesKnown, Zenon
    <2>4. (Seqs \cup found)' \subseteq DOMAIN disk'
      BY Zenon DEF Seqs, StoreInv, DiskInv, TypeOK
    <2>5. SealedFiles'
      BY <1>2, <2>1, SealedStep, Zenon
    <2>6. mode' = "up" /\ segments' # <<>> => active' # NoActive
      BY <1>2, <2>1, ActiveKept, Zenon
    <2> QED
      BY <2>3, <2>4, <2>5, <2>6, Zenon
  <1> QED
    BY <1>1, <1>2, Zenon DEF LogInv, SealedFiles

\* LogInvCorrect: without I/O errors, every file in the directory is known, and all
\* but the newest are complete on stable storage: rotate's fdatasync of the segment
\* it leaves comes before the first frame of the next one.
THEOREM LogInvCorrect == Spec => []LogInv
  BY LogInvInit, LogInvStep, TypeCorrect, StoreCorrect, PTL DEF Spec

-----------------------------------------------------------------------------
(* The refinement. *)

\* A step of the store without I/O errors is a step of the log, or leaves it alone.
LEMMA LogStep ==
  ASSUME TypeOK, TypeOK', StoreInv, StoreInv', LogInv, LogInv', [Next]_vars,
         errors = 0, errors' = 0
  PROVE  WL!LogNext \/ UNCHANGED WL!logVars
  <1>0. Known /\ Known' /\ SealedFiles
    BY Zenon DEF LogInv, Known, SealedFiles
  <1>1. LogIs /\ LogIs'
    <2>1. (Known => LogIs)'
      BY LogShape, PTL
    <2> QED
      BY <1>0, <2>1, LogShape, Zenon
  <1>2. CASE Crash
    <2>1. WL!Restart(OnDisk \ OnDisk')
      BY <1>0, <1>1, <1>2, CrashCuts, Zenon
    <2>2. (OnDisk \ OnDisk') \in SUBSET OnDisk
      BY Zenon
    <2> QED
      BY <2>1, <2>2, Zenon DEF WL!LogNext
  <1>3. CASE PeekFrame
    BY <1>0, <1>1, <1>3, PeekOffers, Zenon DEF WL!LogNext
  <1>4. CASE dbatch # NoBatch /\ dbatch' = NoBatch /\ UNCHANGED storeVars
    <2>1. OnDisk' = OnDisk /\ Consumed' = Consumed
      BY <1>1, <1>4, SameStore, Zenon
    <2> QED
      BY <1>4, <2>1, Zenon DEF WL!LogNext, WL!Offered
  <1>5. CASE WriteFrame
    BY <1>0, <1>1, <1>5, WriteAppends, Zenon DEF WL!LogNext
  <1>6. CASE EnforceCap
    <2>1. WL!DropPrefix(EntriesOf(Oldest.seq)) /\ wpc = "cap" /\ OverCap
      BY <1>0, <1>1, <1>6, OldestLeaves, Zenon DEF EnforceCap
    <2>2. EntriesOf(Oldest.seq) \in SUBSET OnDisk
      BY Zenon DEF EntriesOf
    <2> QED
      BY <2>1, <2>2, Zenon DEF WL!LogNext, WL!DropOldest
  <1>7. CASE gc_front_consumed
    <2>1. WL!DropPrefix(EntriesOf(Oldest.seq))
      BY <1>0, <1>1, <1>7, OldestLeaves, Zenon
    <2>2. EntriesOf(Oldest.seq) \in SUBSET OnDisk
      BY Zenon DEF EntriesOf
    <2>3. EntriesOf(Oldest.seq) \subseteq Consumed
      BY <1>0, <1>1, <1>7, ConsumedLeaves, Zenon
    <2> QED
      BY <2>1, <2>2, <2>3, Zenon DEF WL!LogNext, WL!Trim
  <1>8. CASE commit_pending
    BY <1>0, <1>1, <1>8, CommitReplays, Zenon DEF WL!LogNext
  <1>9. CASE dbatch' = dbatch /\ UNCHANGED storeVars
    BY <1>1, <1>9, SameStore, Zenon DEF WL!logVars
  <1>10. ~RotateFails
    <2>1. RotateFails => errors' = errors + 1
      BY RotateFailsEffect, Zenon
    <2> QED
      BY <2>1
  <1>11. ASSUME dbatch' = dbatch, \A s, f : Held(s, f)' <=> Held(s, f),
                \A s, f : Held(s, f) => (Ahead(s, f)' <=> Ahead(s, f))
         PROVE  UNCHANGED WL!logVars
    BY <1>1, <1>11, SameEntries, Zenon DEF WL!logVars
  <1>12. CASE dbatch' = dbatch /\ PeekNothing
    <2>1. /\ found = {} /\ segments # <<>> /\ disk' = disk
          /\ read_seq' = PeekSeq /\ read_offset' = PeekOffset
      BY <1>12, Up, Zenon DEF PeekNothing, StoreInv
    <2>2. \A s, f : Held(s, f)' <=> Held(s, f)
      BY <2>1, SameFiles, Zenon
    <2>3. \A s, f : Held(s, f) => (Ahead(s, f)' <=> Ahead(s, f))
      BY <1>0, <2>1, Resync, Zenon
    <2> QED
      BY <1>11, <1>12, <2>2, <2>3, Zenon
  <1>13. CASE /\ dbatch' = dbatch
              /\ \/ Rotate \/ BoundBurst \/ GroupCommit
                 \/ \E r \in found : RecoverSegment(r) \/ RecoverDrops(r)
    <2>1. \A s, f : Held(s, f)' <=> Held(s, f)
      BY <1>13, QuietFiles, Zenon
    <2>2. UNCHANGED <<read_seq, read_offset>>
      BY <1>13, Zenon DEF Rotate, BoundBurst, GroupCommit, RecoverSegment, RecoverDrops, cursor
    <2>3. \A s, f : Held(s, f) => (Ahead(s, f)' <=> Ahead(s, f))
      BY <2>2, Zenon DEF Ahead
    <2>4. dbatch' = dbatch
      BY <1>13, Zenon
    <2>5. UNCHANGED WL!logVars
      BY <1>11, <2>1, <2>3, <2>4, Zenon
    <2> QED
      BY <2>5, Zenon
  <1>14. CASE dbatch' = dbatch /\ RecoverFinish
    <2>1. disk' = disk /\ read_offset = SEGMENT_HEADER_LEN /\ read_offset' = SEGMENT_HEADER_LEN
      BY <1>14, Zenon DEF RecoverFinish, StoreInv, ControlInv
    <2>2. (TypeOK /\ StoreInv /\ read_offset = SEGMENT_HEADER_LEN => AllOwed)'
      BY StartOwed, PTL
    <2>3. AllOwed /\ AllOwed'
      BY <2>1, <2>2, StartOwed, Zenon
    <2>4. \A s, f : Held(s, f)' <=> Held(s, f)
      BY <2>1, SameFiles, Zenon
    <2>5. ASSUME NEW s, NEW f, Held(s, f) PROVE Ahead(s, f)' /\ Ahead(s, f)
      <3>1. s \in DOMAIN disk /\ s \in DOMAIN disk' /\ f \in disk[s].frames /\ f \in disk'[s].frames
        BY <2>1, <2>5, Zenon DEF Held, Chained
      <3>2. Owed(s, f) /\ Owed(s, f)'
        BY <1>0, <2>3, <3>1, Zenon DEF AllOwed, Known
      <3> QED
        BY <3>2, Zenon DEF Owed, Ahead
    <2> QED
      BY <1>11, <1>14, <2>4, <2>5, Zenon
  <1> QED
    BY <1>2, <1>3, <1>4, <1>5, <1>6, <1>7, <1>8, <1>9, <1>10, <1>12, <1>13, <1>14,
       DrainerHand, StoreSteps, Zenon DEF StoreStep

\* ImplementsLog: until an I/O error leaves a gap, the segmented store implements the
\* log of WalLog.  peek_next offers, and commit_pending passes, always the oldest
\* batch that was not replayed; gc_front_consumed deletes only replayed batches;
\* enforce_cap drops the oldest ones and only over the cap; and a crash followed by
\* recover loses only the newest.
THEOREM ImplementsLog == Spec => FifoLog
  <1>1. Init => WL!LogInit
    <2> SUFFICES ASSUME Init PROVE WL!LogInit
      BY Zenon
    <2>1. Seqs = {} /\ found = {} /\ dbatch = NoBatch
      BY DEF Init, Seqs
    <2>2. OnDisk = {}
      BY <2>1, Zenon DEF OnDisk
    <2> QED
      BY <2>1, <2>2, Zenon DEF WL!LogInit, Consumed
  <1>2. TypeOK /\ TypeOK' /\ StoreInv /\ StoreInv' /\ LogInv /\ LogInv' /\ [Next]_vars
          => [errors' > 0 \/ WL!LogNext]_(WL!logVars)
    <2> SUFFICES ASSUME TypeOK, TypeOK', StoreInv, StoreInv', LogInv, LogInv', [Next]_vars,
                        ~(errors' > 0)
                 PROVE  WL!LogNext \/ UNCHANGED WL!logVars
      BY Zenon
    <2>1. errors = 0 /\ errors' = 0
      BY ErrorCount
    <2> QED
      BY <2>1, LogStep, Zenon
  <1> QED
    BY <1>1, <1>2, TypeCorrect, StoreCorrect, LogInvCorrect, PTL DEF Spec, FifoLog

-----------------------------------------------------------------------------
(* The byte count. *)

\* The bytes of the first n segments are the distance from the first one's base.
LEMMA BytesSum == TypeOK /\ StoreInv => TotalBytesExact
  <1> SUFFICES ASSUME TypeOK, StoreInv PROVE TotalBytesExact
    BY Zenon
  <1>a. PICK L, seg : L = Len(segments) /\ seg = segments
    BY Zenon
  <1> DEFINE h == [n \in 0..L |-> IF n = 0 THEN 0 ELSE seg[n].base + seg[n].bytes - seg[1].base]
             Sums(f) == f = [n \in 0..L |-> IF n = 0 THEN 0 ELSE f[n - 1] + seg[n].bytes]
  <1>1. /\ L \in Nat /\ DOMAIN seg = 1..L
        /\ \A n \in 1..L : seg[n].base \in Nat /\ seg[n].bytes \in Nat
        /\ \A n \in 1..L : n > 1 => seg[n].base = seg[n - 1].base + seg[n - 1].bytes
    BY <1>a, SegType, Zenon DEF StoreInv, BytesInv
  <1>2. ASSUME NEW n \in 1..L PROVE h[n] = h[n - 1] + seg[n].bytes
    <2>1. n \in 0..L /\ n - 1 \in 0..L /\ n # 0 /\ n \in Nat /\ 1 \in 1..L
      BY <1>1
    <2>2. CASE n = 1
      <3>1. h[n] = seg[1].base + seg[1].bytes - seg[1].base /\ h[n - 1] = 0
        BY <2>1, <2>2
      <3> QED
        BY <1>1, <2>1, <2>2, <3>1
    <2>3. CASE n > 1
      <3>1. n - 1 \in 1..L /\ n - 1 # 0
        BY <2>1, <2>3
      <3>2. /\ h[n] = seg[n].base + seg[n].bytes - seg[1].base
            /\ h[n - 1] = seg[n - 1].base + seg[n - 1].bytes - seg[1].base
        BY <2>1, <3>1, Zenon
      <3>3. seg[n].base = seg[n - 1].base + seg[n - 1].bytes
        BY <1>1, <2>3, Zenon
      <3> QED
        BY <1>1, <2>1, <3>1, <3>2, <3>3
    <2> QED
      BY <2>1, <2>2, <2>3
  <1>3. Sums(h)
    <2>1. ASSUME NEW n \in 0..L PROVE h[n] = IF n = 0 THEN 0 ELSE h[n - 1] + seg[n].bytes
      <3>1. n = 0 \/ n \in 1..L
        BY <1>1
      <3>2. CASE n = 0
        <4>1. h[n] = 0
          BY <1>1, <3>2, Zenon
        <4> QED
          BY <3>2, <4>1, Zenon
      <3>3. CASE n \in 1..L
        <4>1. n # 0
          BY <1>1, <3>3
        <4> QED
          BY <1>2, <3>3, <4>1, Zenon
      <3> QED
        BY <3>1, <3>2, <3>3, Zenon
    <2> QED
      BY <2>1, Zenon
  <1>4. ASSUME NEW f, Sums(f) PROVE f = h
    <2> DEFINE T == {n \in 0..L : f[n] # h[n]}
    <2>1. \A n \in 0..L : f[n] = IF n = 0 THEN 0 ELSE f[n - 1] + seg[n].bytes
      BY <1>4, Zenon
    <2>2. f = [n \in 0..L |-> f[n]]
      BY <1>4, Zenon
    <2>3. ASSUME T # {} PROVE FALSE
      <3>1. T \subseteq Nat
        BY <1>1
      <3> HIDE DEF h, Sums
      <3>2. PICK m \in T : \A n \in T : m <= n
        BY <2>3, <3>1, NatMin, Zenon
      <3>3. m \in 0..L /\ m \in Nat /\ f[m] # h[m]
        BY <3>1, <3>2, Zenon
      <3>4. CASE m = 0
        BY <2>1, <3>3, <3>4, Zenon DEF h
      <3>5. CASE m # 0
        <4>1. m \in 1..L /\ m - 1 \in 0..L /\ ~(m <= m - 1)
          BY <1>1, <3>3, <3>5
        <4>2. f[m - 1] = h[m - 1]
          BY <3>2, <4>1, Zenon
        <4>3. f[m] = f[m - 1] + seg[m].bytes /\ h[m] = h[m - 1] + seg[m].bytes
          BY <1>2, <2>1, <3>3, <3>5, <4>1, Zenon
        <4> QED
          BY <3>3, <4>2, <4>3, Zenon
      <3> QED
        BY <3>4, <3>5, Zenon
    <2>4. \A n \in 0..L : f[n] = h[n]
      BY <2>3, Zenon
    <2> QED
      BY <2>2, <2>4, Zenon
  <1> HIDE DEF h
  <1>5. BytesUpTo = CHOOSE f : Sums(f)
    BY <1>a, Zenon DEF BytesUpTo
  <1> HIDE DEF Sums
  <1>6. BytesUpTo = h
    BY <1>3, <1>4, <1>5, Zenon
  <1>7. CASE segments = <<>>
    <2>1. L = 0 /\ total_bytes = 0
      BY <1>a, <1>7, Zenon DEF StoreInv, BytesInv
    <2> QED
      BY <1>6, <1>a, <2>1 DEF h, TotalBytesExact
  <1>8. CASE segments # <<>>
    <2>1. L \in 1..L /\ L # 0 /\ L \in 0..L
      BY <1>1, <1>8, <1>a, SegType
    <2>2. total_bytes = seg[L].base + seg[L].bytes - seg[1].base
      BY <1>8, <1>a, Zenon DEF StoreInv, BytesInv, Newest, Oldest
    <2> QED
      BY <1>6, <1>a, <2>1, <2>2, Zenon DEF h, TotalBytesExact
  <1> QED
    BY <1>7, <1>8, Zenon

\* TotalBytesCorrect: total_bytes, which every append, rotation, drop, collection and
\* recovery adjusts by one difference, is always the sum of the bytes of the live
\* segments.
THEOREM TotalBytesCorrect == Spec => []TotalBytesExact
  BY BytesSum, TypeCorrect, StoreCorrect, PTL
=============================================================================
