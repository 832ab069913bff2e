--------------------------- MODULE PageBufferProofs ---------------------------
(***************************************************************************)
(* What is proved of PageBuffer, for any arrays, any size of the file and  *)
(* of the buffer, and through every failure and restart: no page is given  *)
(* away twice (PagesApart), none is lost but by a write that failed        *)
(* (LostByFailureOnly), and the buffer and the files together are the      *)
(* abstract store (ImplementsStore); the buffer keeps to its capacity      *)
(* (BufferTypeOK).                                                         *)
(***************************************************************************)
EXTENDS PageBuffer, SequenceTheorems, FiniteSetTheorems, TLAPS

\* A table of pages, a stack of empty pages and a next page, page by page: each page
\* is at one place.
Sound(table, stack, next) ==
    /\ next \in Nat /\ stack \in Seq(Nat)
    /\ \A id \in DOMAIN table :
          table[id] \in Seq(Nat) /\ table[id] # <<>> /\ table[id][1] = id
    /\ \A id, other \in DOMAIN table :
          \A m \in 1 .. Len(table[id]), n \in 1 .. Len(table[other]) :
              table[id][m] = table[other][n] => id = other /\ m = n
    /\ \A m, n \in 1 .. Len(stack) : stack[m] = stack[n] => m = n
    /\ \A id \in DOMAIN table :
          \A m \in 1 .. Len(table[id]), n \in 1 .. Len(stack) : table[id][m] # stack[n]
    /\ \A id \in DOMAIN table : \A m \in 1 .. Len(table[id]) : table[id][m] < next
    /\ \A n \in 1 .. Len(stack) : stack[n] < next

SoundManager(d) == Sound(d.m_pageIndex, d.m_emptyPages, d.m_nextPage)

IsManager(d) ==
    DOMAIN d = {"m_pageIndex", "m_emptyPages", "m_nextPage", "data", "behind", "fail"}

LEMMA SoundApart ==
    ASSUME NEW d, SoundManager(d)
    PROVE  Apart(d)
<1> DEFINE I == d.m_pageIndex
           E == d.m_emptyPages
<1>1. ASSUME NEW id \in DOMAIN I
      PROVE  /\ I[id][1] = id
             /\ \A m, n \in 1 .. Len(I[id]) : I[id][m] = I[id][n] => m = n
             /\ \A other \in DOMAIN I \ {id} : Elements(I[id]) \cap Elements(I[other]) = {}
  <2>1. I[id][1] = id
    BY DEF SoundManager, Sound
  <2>2. \A m, n \in 1 .. Len(I[id]) : I[id][m] = I[id][n] => m = n
    BY DEF SoundManager, Sound
  <2>3. ASSUME NEW other \in DOMAIN I \ {id} PROVE Elements(I[id]) \cap Elements(I[other]) = {}
    <3>1. \A m \in 1 .. Len(I[id]), n \in 1 .. Len(I[other]) : I[id][m] # I[other][n]
      BY DEF SoundManager, Sound
    <3>2. QED
      BY <3>1 DEF Elements
  <2>4. QED
    BY <2>1, <2>2, <2>3
<1>2. \A m, n \in 1 .. Len(E) : E[m] = E[n] => m = n
  BY DEF SoundManager, Sound
<1>3. \A p \in Used(d) : \E id \in DOMAIN I : \E m \in 1 .. Len(I[id]) : p = I[id][m]
  BY DEF Used, Elements
<1>4. \A p \in Elements(E) : \E n \in 1 .. Len(E) : p = E[n]
  BY DEF Elements
<1>5. Used(d) \cap Elements(E) = {}
  BY <1>3, <1>4 DEF SoundManager, Sound
<1>6. ASSUME NEW p \in Used(d) \cup Elements(E) PROVE p \in 0 .. d.m_nextPage - 1
  <2>1. CASE p \in Used(d)
    <3>1. PICK id \in DOMAIN I : \E m \in 1 .. Len(I[id]) : p = I[id][m]
      BY <1>3, <2>1
    <3>2. PICK m \in 1 .. Len(I[id]) : p = I[id][m]
      BY <3>1
    <3>3. I[id] \in Seq(Nat) /\ I[id][m] < d.m_nextPage /\ d.m_nextPage \in Nat
      BY DEF SoundManager, Sound
    <3>4. QED
      BY <3>2, <3>3
  <2>2. CASE p \in Elements(E)
    <3>1. PICK n \in 1 .. Len(E) : p = E[n]
      BY <1>4, <2>2
    <3>2. E \in Seq(Nat) /\ E[n] < d.m_nextPage /\ d.m_nextPage \in Nat
      BY DEF SoundManager, Sound
    <3>3. QED
      BY <3>1, <3>2
  <2>3. QED
    BY <1>6, <2>1, <2>2
<1>7. QED
  BY <1>1, <1>2, <1>5, <1>6 DEF Apart
-----------------------------------------------------------------------------
\* The pages of a new version of an array of n blocks, one by one.
LEMMA PagesAre ==
    ASSUME NEW d, SoundManager(d), NEW old \in Seq(Nat), NEW n \in Nat \ {0}
    PROVE  /\ Reused(old, n) \in Nat /\ Reused(old, n) <= n /\ Reused(old, n) <= Len(old)
           /\ Reused(old, n) = n \/ Reused(old, n) = Len(old)
           /\ Taken(d, old, n) \in Nat /\ Taken(d, old, n) <= Len(d.m_emptyPages)
           /\ Reused(old, n) + Taken(d, old, n) <= n
           /\ Next0(d, old, n) \in Nat /\ Next0(d, old, n) >= d.m_nextPage
           /\ Pages(d, old, n) \in Seq(Nat) /\ Len(Pages(d, old, n)) = n
           /\ \A k \in 1 .. n :
                 \/ k <= Reused(old, n) /\ Pages(d, old, n)[k] = old[k]
                 \/ /\ k > Reused(old, n) /\ k <= Reused(old, n) + Taken(d, old, n)
                    /\ Pages(d, old, n)[k] = d.m_emptyPages[k - Reused(old, n)]
                 \/ /\ k > Reused(old, n) + Taken(d, old, n)
                    /\ Pages(d, old, n)[k] = d.m_nextPage + k - Reused(old, n) - Taken(d, old, n) - 1
                    /\ Pages(d, old, n)[k] < Next0(d, old, n)
<1> DEFINE r == Reused(old, n)
           t == Taken(d, old, n)
           E == d.m_emptyPages
<1>1. d.m_nextPage \in Nat /\ E \in Seq(Nat) /\ Len(old) \in Nat /\ Len(E) \in Nat
  BY DEF SoundManager, Sound
<1>2. r \in Nat /\ r <= n /\ r <= Len(old) /\ (r = n \/ r = Len(old))
  BY <1>1 DEF Reused, Least
<1>3. t \in Nat /\ t <= Len(E) /\ r + t <= n
  BY <1>1, <1>2 DEF Taken, Least
<1> HIDE DEF r, t
<1>4. Next0(d, old, n) \in Nat /\ Next0(d, old, n) >= d.m_nextPage
  BY <1>1, <1>2, <1>3 DEF Next0, r, t
<1>5. ASSUME NEW k \in 1 .. n
      PROVE  /\ Pages(d, old, n)[k] \in Nat
             /\ \/ k <= r /\ Pages(d, old, n)[k] = old[k]
                \/ k > r /\ k <= r + t /\ Pages(d, old, n)[k] = E[k - r]
                \/ /\ k > r + t /\ Pages(d, old, n)[k] = d.m_nextPage + k - r - t - 1
                   /\ Pages(d, old, n)[k] < Next0(d, old, n)
  <2>1. Pages(d, old, n)[k] = IF k <= r THEN old[k]
                              ELSE IF k <= r + t THEN E[k - r]
                              ELSE d.m_nextPage + k - r - t - 1
    BY DEF Pages, r, t
  <2>2. Next0(d, old, n) = d.m_nextPage + n - r - t
    BY DEF Next0, r, t
  <2>3. CASE k <= r
    <3>1. k \in 1 .. Len(old)
      BY <1>1, <1>2, <2>3
    <3>2. old[k] \in Nat
      BY <3>1
    <3>3. QED
      BY <2>1, <2>3, <3>2
  <2>4. CASE k > r /\ k <= r + t
    <3>1. k - r \in 1 .. Len(E)
      BY <1>1, <1>2, <1>3, <2>4
    <3>2. E[k - r] \in Nat
      BY <1>1, <3>1
    <3>3. QED
      BY <1>2, <2>1, <2>4, <3>2
  <2>5. CASE k > r + t
    BY <1>1, <1>2, <1>3, <2>1, <2>2, <2>5
  <2>6. QED
    BY <1>2, <1>3, <2>3, <2>4, <2>5
<1>6. Pages(d, old, n) \in [1 .. n -> Nat]
  <2>1. Pages(d, old, n) = [k \in 1 .. n |-> Pages(d, old, n)[k]]
    BY DEF Pages
  <2>2. QED
    BY <1>5, <2>1
<1>7. Pages(d, old, n) \in Seq(Nat) /\ Len(Pages(d, old, n)) = n
  BY <1>6
<1>8. QED
  BY <1>2, <1>3, <1>4, <1>5, <1>7 DEF r, t
-----------------------------------------------------------------------------
\* The rest of a sequence, and a stack with a sequence pushed, place by place.
LEMMA BehindIs ==
    ASSUME NEW s \in Seq(Nat), NEW n \in Nat, n <= Len(s)
    PROVE  /\ Behind(s, n) \in Seq(Nat) /\ Len(Behind(s, n)) = Len(s) - n
           /\ \A k \in 1 .. Len(s) - n : Behind(s, n)[k] = s[n + k]
<1>1. Len(s) \in Nat
  OBVIOUS
<1>2. Behind(s, n) = [k \in 1 .. Len(s) - n |-> s[n + k]]
  BY <1>1 DEF Behind
<1>3. \A k \in 1 .. Len(s) - n : s[n + k] \in Nat
  BY <1>1
<1>4. QED
  BY <1>1, <1>2, <1>3

LEMMA PushedIs ==
    ASSUME NEW s \in Seq(Nat), NEW stack \in Seq(Nat)
    PROVE  /\ Pushed(s, stack) \in Seq(Nat) /\ Len(Pushed(s, stack)) = Len(s) + Len(stack)
           /\ \A k \in 1 .. Len(s) + Len(stack) :
                 \/ k <= Len(s) /\ Pushed(s, stack)[k] = s[Len(s) + 1 - k]
                 \/ k > Len(s) /\ Pushed(s, stack)[k] = stack[k - Len(s)]
<1> DEFINE turned == [k \in 1 .. Len(s) |-> s[Len(s) + 1 - k]]
<1>1. Len(s) \in Nat /\ Len(stack) \in Nat
  OBVIOUS
<1>2. \A k \in 1 .. Len(s) : s[Len(s) + 1 - k] \in Nat
  BY <1>1
<1>3. turned \in Seq(Nat) /\ Len(turned) = Len(s) /\ \A k \in 1 .. Len(s) : turned[k] = s[Len(s) + 1 - k]
  BY <1>1, <1>2
<1>4. Pushed(s, stack) = turned \o stack
  BY DEF Pushed
<1> HIDE DEF turned
<1>5. /\ turned \o stack \in Seq(Nat) /\ Len(turned \o stack) = Len(s) + Len(stack)
      /\ \A k \in 1 .. Len(s) + Len(stack) :
            (turned \o stack)[k] = IF k <= Len(s) THEN turned[k] ELSE stack[k - Len(s)]
  <2>1. \A t \in Seq(Nat) :
           /\ t \o stack \in Seq(Nat) /\ Len(t \o stack) = Len(t) + Len(stack)
           /\ \A k \in 1 .. Len(t) + Len(stack) :
                 (t \o stack)[k] = IF k <= Len(t) THEN t[k] ELSE stack[k - Len(t)]
    BY ConcatProperties
  <2>2. QED
    BY <2>1, <1>3, Zenon
<1>6. ASSUME NEW k \in 1 .. Len(s) + Len(stack)
      PROVE  \/ k <= Len(s) /\ Pushed(s, stack)[k] = s[Len(s) + 1 - k]
             \/ k > Len(s) /\ Pushed(s, stack)[k] = stack[k - Len(s)]
  <2>1. CASE k <= Len(s)
    BY <1>1, <1>3, <1>4, <1>5, <2>1
  <2>2. CASE k > Len(s)
    BY <1>1, <1>4, <1>5, <2>2
  <2>3. QED
    BY <1>1, <2>1, <2>2
<1>7. QED
  BY <1>4, <1>5, <1>6

\* The stack after a new version of an array of n blocks: first the pages the old one
\* has too many, then the empty pages that were not taken.
LEMMA StackIs ==
    ASSUME NEW d, SoundManager(d), NEW old \in Seq(Nat), NEW n \in Nat \ {0}
    PROVE  LET b == Len(old) - Reused(old, n)
           IN  /\ Stack(d, old, n) \in Seq(Nat)
               /\ Len(Stack(d, old, n)) = b + Len(d.m_emptyPages) - Taken(d, old, n)
               /\ \A k \in 1 .. Len(Stack(d, old, n)) :
                    \/ k <= b /\ Stack(d, old, n)[k] = old[Len(old) + 1 - k]
                    \/ k > b /\ Stack(d, old, n)[k] = d.m_emptyPages[Taken(d, old, n) + k - b]
<1> DEFINE r == Reused(old, n)
           t == Taken(d, old, n)
           b == Len(old) - r
           E == d.m_emptyPages
           over == Behind(old, n)
           rest == Behind(E, t)
<1>1. /\ E \in Seq(Nat) /\ Len(old) \in Nat /\ Len(E) \in Nat
      /\ r \in Nat /\ r <= n /\ r <= Len(old) /\ (r = n \/ r = Len(old))
      /\ t \in Nat /\ t <= Len(E)
  <2>1. E \in Seq(Nat) /\ Len(old) \in Nat /\ Len(E) \in Nat
    BY DEF SoundManager, Sound
  <2>2. r \in Nat /\ r <= n /\ r <= Len(old) /\ (r = n \/ r = Len(old)) /\ t \in Nat /\ t <= Len(E)
    BY PagesAre
  <2>3. QED
    BY <2>1, <2>2
<1>2. /\ over \in Seq(Nat) /\ Len(over) = b
      /\ \A k \in 1 .. b : over[k] = old[r + k]
  <2>1. CASE n <= Len(old)
    <3>1. r = n
      BY <1>1, <2>1
    <3>2. QED
      BY <2>1, <3>1, BehindIs
  <2>2. CASE n > Len(old)
    <3>1. r = Len(old) /\ b = 0
      BY <1>1, <2>2
    <3>2. over = <<>>
      BY <1>1, <2>2 DEF Behind
    <3> HIDE DEF b, r, over
    <3>3. QED
      BY <1>1, <3>1, <3>2
  <2>3. QED
    BY <1>1, <2>1, <2>2
<1>3. /\ rest \in Seq(Nat) /\ Len(rest) = Len(E) - t
      /\ \A k \in 1 .. Len(E) - t : rest[k] = E[t + k]
  BY <1>1, BehindIs
<1>4. Stack(d, old, n) = Pushed(over, rest)
  BY DEF Stack
<1> HIDE DEF r, t, E, over, rest
<1>5. /\ Stack(d, old, n) \in Seq(Nat) /\ Len(Stack(d, old, n)) = b + Len(E) - t
      /\ \A k \in 1 .. b + Len(E) - t :
            \/ k <= b /\ Stack(d, old, n)[k] = over[b + 1 - k]
            \/ k > b /\ Stack(d, old, n)[k] = rest[k - b]
  <2>1. /\ Pushed(over, rest) \in Seq(Nat) /\ Len(Pushed(over, rest)) = Len(over) + Len(rest)
        /\ \A k \in 1 .. Len(over) + Len(rest) :
              \/ k <= Len(over) /\ Pushed(over, rest)[k] = over[Len(over) + 1 - k]
              \/ k > Len(over) /\ Pushed(over, rest)[k] = rest[k - Len(over)]
    BY <1>2, <1>3, PushedIs
  <2>2. Len(over) = b /\ Len(over) + Len(rest) = b + Len(E) - t
    BY <1>1, <1>2, <1>3
  <2>3. QED
    BY <1>4, <2>1, <2>2
<1>6. ASSUME NEW k \in 1 .. b + Len(E) - t
      PROVE  \/ k <= b /\ Stack(d, old, n)[k] = old[Len(old) + 1 - k]
             \/ k > b /\ Stack(d, old, n)[k] = E[t + k - b]
  <2>1. CASE k <= b
    <3>1. b + 1 - k \in 1 .. b /\ r + (b + 1 - k) = Len(old) + 1 - k
      BY <1>1, <2>1
    <3>2. over[b + 1 - k] = old[Len(old) + 1 - k]
      BY <1>2, <3>1
    <3>3. Stack(d, old, n)[k] = over[b + 1 - k]
      BY <1>1, <1>5, <2>1
    <3>4. QED
      BY <2>1, <3>2, <3>3
  <2>2. CASE k > b
    <3>1. k - b \in 1 .. Len(E) - t /\ t + (k - b) = t + k - b
      BY <1>1, <2>2
    <3>2. rest[k - b] = E[t + k - b]
      BY <1>3, <3>1
    <3>3. QED
      BY <1>1, <1>5, <2>2, <3>2
  <2>3. QED
    BY <1>1, <2>1, <2>2
<1>7. QED
  BY <1>5, <1>6 DEF r, t, E
-----------------------------------------------------------------------------
(* The operations of the manager keep its pages apart                      *)

\* A store, new or in place of an array of the table.
LEMMA PutSound ==
    ASSUME NEW d, SoundManager(d), NEW n \in Nat \ {0}, NEW old \in Seq(Nat),
           old = <<>> \/ \E id \in DOMAIN d.m_pageIndex : old = d.m_pageIndex[id]
    PROVE  Sound(With(d.m_pageIndex, Pages(d, old, n)[1], Pages(d, old, n)),
                 Stack(d, old, n), Next0(d, old, n))
<1> DEFINE r == Reused(old, n)
           t == Taken(d, old, n)
           b == Len(old) - r
           E == d.m_emptyPages
           I == d.m_pageIndex
           ps == Pages(d, old, n)
           S == Stack(d, old, n)
           next == Next0(d, old, n)
           J == With(I, ps[1], ps)
<1>1. /\ d.m_nextPage \in Nat /\ E \in Seq(Nat) /\ Len(E) \in Nat
      /\ \A id \in DOMAIN I : I[id] \in Seq(Nat) /\ I[id] # <<>> /\ I[id][1] = id
      /\ \A id, other \in DOMAIN I :
            \A k \in 1 .. Len(I[id]), j \in 1 .. Len(I[other]) :
                I[id][k] = I[other][j] => id = other /\ k = j
      /\ \A k, j \in 1 .. Len(E) : E[k] = E[j] => k = j
      /\ \A id \in DOMAIN I :
            \A k \in 1 .. Len(I[id]), j \in 1 .. Len(E) : I[id][k] # E[j]
      /\ \A id \in DOMAIN I : \A k \in 1 .. Len(I[id]) : I[id][k] < d.m_nextPage
      /\ \A k \in 1 .. Len(E) : E[k] < d.m_nextPage
  <2>1. Sound(I, E, d.m_nextPage)
    BY DEF SoundManager
  <2> HIDE DEF I, E
  <2>2. Len(E) \in Nat
    BY <2>1 DEF Sound
  <2>3. QED
    BY <2>1, <2>2, Zenon DEF Sound
<1>0. d.m_nextPage \in Nat /\ Len(E) \in Nat
  BY <1>1
<1>30. \A k, j \in 1 .. Len(E) : E[k] = E[j] => k = j
  BY <1>1
<1>2. /\ r \in Nat /\ r <= n /\ r <= Len(old) /\ (r = n \/ r = Len(old))
      /\ t \in Nat /\ t <= Len(E) /\ r + t <= n
      /\ next \in Nat /\ next >= d.m_nextPage
      /\ ps \in Seq(Nat) /\ Len(ps) = n
  BY PagesAre
<1>3. \A k \in 1 .. n :
         \/ k <= r /\ ps[k] = old[k]
         \/ k > r /\ k <= r + t /\ ps[k] = E[k - r]
         \/ k > r + t /\ ps[k] = d.m_nextPage + k - r - t - 1 /\ ps[k] < next
  BY PagesAre
<1>4. /\ S \in Seq(Nat) /\ Len(S) = b + Len(E) - t
      /\ \A k \in 1 .. Len(S) :
            \/ k <= b /\ S[k] = old[Len(old) + 1 - k]
            \/ k > b /\ S[k] = E[t + k - b]
  BY StackIs
<1>5. Len(old) \in Nat
  OBVIOUS
\* What is in the old array, if there is one.
<1>6. /\ \A k, j \in 1 .. Len(old) : old[k] = old[j] => k = j
      /\ \A k \in 1 .. Len(old), j \in 1 .. Len(E) : old[k] # E[j]
      /\ \A k \in 1 .. Len(old) : old[k] \in Nat /\ old[k] < d.m_nextPage
      /\ Len(old) > 0 => old[1] \in DOMAIN I /\ old = I[old[1]]
  <2>1. CASE old = <<>>
    BY <2>1
  <2>2. CASE \E id \in DOMAIN I : old = I[id]
    <3>1. PICK id \in DOMAIN I : old = I[id]
      BY <2>2
    <3>2. old[1] = id
      BY <1>1, <3>1
    <3>3. \A k \in 1 .. Len(old) : old[k] \in Nat
      OBVIOUS
    <3>4. QED
      BY <1>1, <3>1, <3>2, <3>3
  <2>3. QED
    BY <2>1, <2>2
<1> HIDE DEF r, t, E, I, ps, S, next
\* An array of the table that is not replaced does not meet the old one.
<1>7. ASSUME NEW id \in DOMAIN I, id # ps[1], NEW k \in 1 .. Len(I[id]), NEW j \in 1 .. Len(old)
      PROVE  I[id][k] # old[j]
  <2>1. Len(old) > 0 /\ r >= 1
    BY <1>2, <1>5
  <2>2. ps[1] = old[1]
    BY <1>2, <1>3, <2>1
  <2>3. QED
    BY <1>1, <1>6, <1>7, <2>1, <2>2
\* Where page k comes from: the old array, the stack, or behind all pages.
<1> DEFINE np == d.m_nextPage
           InOld(k)   == k <= r /\ k \in 1 .. Len(old) /\ ps[k] = old[k] /\ ps[k] < np
           InStack(k) == /\ k > r /\ k - r \in 1 .. t /\ k - r \in 1 .. Len(E)
                         /\ ps[k] = E[k - r] /\ ps[k] < np
           IsNew(k)   == /\ k > r + t /\ ps[k] = np + k - r - t - 1 /\ ps[k] >= np
                         /\ ps[k] < next
<1>8. ASSUME NEW k \in 1 .. n PROVE InOld(k) \/ InStack(k) \/ IsNew(k)
  <2>1. CASE k <= r /\ ps[k] = old[k]
    <3>1. k \in 1 .. Len(old)
      BY <1>2, <1>5, <2>1
    <3>2. QED
      BY <1>6, <2>1, <3>1
  <2>2. CASE k > r /\ k <= r + t /\ ps[k] = E[k - r]
    <3>1. k - r \in 1 .. t /\ k - r \in 1 .. Len(E)
      BY <1>0, <1>2, <2>2
    <3>2. E[k - r] < np
      BY <1>1, <3>1
    <3>3. QED
      BY <2>2, <3>1, <3>2
  <2>3. CASE k > r + t /\ ps[k] = np + k - r - t - 1 /\ ps[k] < next
    BY <1>0, <1>2, <2>3
  <2>4. QED
    BY <1>3, <2>1, <2>2, <2>3
<1>9. ASSUME NEW k \in 1 .. n, NEW j \in 1 .. n
      PROVE  /\ InOld(k) /\ InStack(j) => ps[k] # ps[j]
             /\ InOld(k) /\ IsNew(j) => ps[k] # ps[j]
             /\ InStack(k) /\ IsNew(j) => ps[k] # ps[j]
             /\ InOld(k) /\ InOld(j) /\ ps[k] = ps[j] => k = j
             /\ InStack(k) /\ InStack(j) /\ ps[k] = ps[j] => k = j
             /\ IsNew(k) /\ IsNew(j) /\ ps[k] = ps[j] => k = j
  <2>1. ps[k] \in Nat /\ ps[j] \in Nat /\ k \in Nat /\ j \in Nat
    <3>1. ps \in Seq(Nat) /\ k \in 1 .. Len(ps) /\ j \in 1 .. Len(ps)
      BY <1>2
    <3>2. QED
      BY <3>1
  <2>2. InOld(k) /\ InStack(j) => ps[k] # ps[j]
    BY <1>6
  <2>3. (InOld(k) \/ InStack(k)) /\ IsNew(j) => ps[k] # ps[j]
    BY <1>0, <2>1
  <2>4. InOld(k) /\ InOld(j) /\ ps[k] = ps[j] => k = j
    BY <1>6
  <2>5. InStack(k) /\ InStack(j) /\ ps[k] = ps[j] => k = j
    <3>1. InStack(k) /\ InStack(j) /\ ps[k] = ps[j] => k - r = j - r
      BY <1>30
    <3>2. QED
      BY <1>2, <2>1, <3>1
  <2>6. IsNew(k) /\ IsNew(j) /\ ps[k] = ps[j] => k = j
    BY <1>0, <1>2, <2>1
  <2>7. QED
    BY <2>2, <2>3, <2>4, <2>5, <2>6
<1> DEFINE OfOld(k)   == /\ Len(old) + 1 - k \in r + 1 .. Len(old) /\ Len(old) + 1 - k \in 1 .. Len(old)
                         /\ S[k] = old[Len(old) + 1 - k] /\ S[k] < np
           OfStack(k) == /\ t + k - b \in t + 1 .. Len(E) /\ t + k - b \in 1 .. Len(E)
                         /\ S[k] = E[t + k - b] /\ S[k] < np
<1>29. ASSUME NEW k \in 1 .. n, NEW j \in 1 .. n, ps[k] = ps[j] PROVE k = j
  <2> HIDE DEF InOld, InStack, IsNew
  <2>1. QED
    BY <1>8, <1>9, <1>29
<1>10. ASSUME NEW k \in 1 .. Len(S) PROVE OfOld(k) \/ OfStack(k)
  <2>1. CASE k <= b /\ S[k] = old[Len(old) + 1 - k]
    <3>1. Len(old) + 1 - k \in r + 1 .. Len(old) /\ Len(old) + 1 - k \in 1 .. Len(old)
      BY <1>2, <1>5, <2>1
    <3>2. QED
      BY <1>6, <2>1, <3>1
  <2>2. CASE k > b /\ S[k] = E[t + k - b]
    <3>1. t + k - b \in t + 1 .. Len(E) /\ t + k - b \in 1 .. Len(E)
      <4>1. k \in Nat /\ b \in Nat /\ k <= b + Len(E) - t
        BY <1>2, <1>4, <1>5
      <4> HIDE DEF b
      <4>2. QED
        BY <1>0, <1>2, <2>2, <4>1
    <3>2. E[t + k - b] < np
      BY <1>1, <3>1
    <3>3. QED
      BY <2>2, <3>1, <3>2
  <2>3. QED
    BY <1>4, <2>1, <2>2
<1>11. ASSUME NEW k \in 1 .. Len(S), NEW j \in 1 .. Len(S), S[k] = S[j] PROVE k = j
  <2>1. k \in Nat /\ j \in Nat
    BY <1>4
  <2>2. ~(OfOld(k) /\ OfStack(j)) /\ ~(OfStack(k) /\ OfOld(j))
    BY <1>6, <1>11
  <2>3. OfOld(k) /\ OfOld(j) => k = j
    <3>1. OfOld(k) /\ OfOld(j) => Len(old) + 1 - k = Len(old) + 1 - j
      BY <1>6, <1>11
    <3>2. QED
      BY <1>5, <2>1, <3>1
  <2>4. OfStack(k) /\ OfStack(j) => k = j
    <3>1. OfStack(k) /\ OfStack(j) => t + k - b = t + j - b
      BY <1>30, <1>11
    <3>2. QED
      BY <1>2, <1>5, <2>1, <3>1
  <2> HIDE DEF OfOld, OfStack
  <2>5. QED
    BY <1>10, <2>2, <2>3, <2>4
<1>12. ASSUME NEW k \in 1 .. n, NEW j \in 1 .. Len(S) PROVE ps[k] # S[j]
  <2>1. ps[k] \in Nat /\ S[j] \in Nat
    <3>1. ps[k] \in Nat
      BY <1>2
    <3>2. S[j] \in Nat
      BY <1>4
    <3>3. QED
      BY <3>1, <3>2
  <2>2. InOld(k) /\ OfOld(j) => ps[k] # S[j]
    <3>1. InOld(k) /\ OfOld(j) /\ ps[k] = S[j] => k = Len(old) + 1 - j
      BY <1>6
    <3>2. InOld(k) /\ OfOld(j) => k # Len(old) + 1 - j
      BY <1>2, <1>5
    <3>3. QED
      BY <3>1, <3>2
  <2>3. InStack(k) /\ OfStack(j) => ps[k] # S[j]
    <3>1. InStack(k) /\ OfStack(j) /\ ps[k] = S[j] => k - r = t + j - b
      BY <1>30
    <3>2. InStack(k) /\ OfStack(j) => k - r # t + j - b
      BY <1>2
    <3>3. QED
      BY <3>1, <3>2
  <2>4. (InOld(k) /\ OfStack(j)) \/ (InStack(k) /\ OfOld(j)) => ps[k] # S[j]
    BY <1>6
  <2>5. IsNew(k) /\ (OfOld(j) \/ OfStack(j)) => ps[k] # S[j]
    <3>1. IsNew(k) => ps[k] >= np
      OBVIOUS
    <3>2. OfOld(j) \/ OfStack(j) => S[j] < np
      OBVIOUS
    <3> HIDE DEF IsNew, OfOld, OfStack
    <3>3. QED
      BY <1>0, <2>1, <3>1, <3>2
  <2> HIDE DEF InOld, InStack, IsNew, OfOld, OfStack
  <2>6. QED
    BY <1>8, <1>10, <2>2, <2>3, <2>4, <2>5
<1>13. ASSUME NEW id \in DOMAIN I, id # ps[1], NEW k \in 1 .. Len(I[id])
       PROVE  /\ \A j \in 1 .. n : I[id][k] # ps[j]
              /\ \A j \in 1 .. Len(S) : I[id][k] # S[j]
              /\ I[id][k] < next
  <2>1. I[id][k] \in Nat /\ I[id][k] < d.m_nextPage
    BY <1>1
  <2>2. \A j \in 1 .. Len(E) : I[id][k] # E[j]
    BY <1>1
  <2>3. \A j \in 1 .. Len(old) : I[id][k] # old[j]
    BY <1>7, <1>13
  <2>4. ASSUME NEW j \in 1 .. n PROVE I[id][k] # ps[j]
    <3>1. CASE IsNew(j)
      BY <1>0, <2>1, <3>1
    <3>2. CASE InOld(j)
      BY <2>3, <3>2
    <3>3. CASE InStack(j)
      BY <2>2, <3>3
    <3> HIDE DEF InOld, InStack, IsNew
    <3>4. QED
      BY <1>8, <3>1, <3>2, <3>3
  <2>5. ASSUME NEW j \in 1 .. Len(S) PROVE I[id][k] # S[j]
    <3>1. CASE OfOld(j)
      BY <2>3, <3>1
    <3>2. CASE OfStack(j)
      BY <2>2, <3>2
    <3> HIDE DEF OfOld, OfStack
    <3>3. QED
      BY <1>10, <3>1, <3>2
  <2>6. I[id][k] < next
    BY <1>0, <1>2, <2>1
  <2>7. QED
    BY <2>4, <2>5, <2>6
<1>14. /\ DOMAIN J = DOMAIN I \cup {ps[1]}
       /\ J[ps[1]] = ps
       /\ \A id \in DOMAIN J : id # ps[1] => id \in DOMAIN I /\ J[id] = I[id]
  BY DEF With
<1> HIDE DEF J
<1>15. /\ next \in Nat /\ S \in Seq(Nat)
       /\ \A id \in DOMAIN J : J[id] \in Seq(Nat) /\ J[id] # <<>> /\ J[id][1] = id
  <2>1. ps # <<>>
    BY <1>2
  <2>2. QED
    BY <1>1, <1>2, <1>4, <1>14, <2>1
<1>16. ASSUME NEW id \in DOMAIN J, NEW other \in DOMAIN J,
              NEW k \in 1 .. Len(J[id]), NEW j \in 1 .. Len(J[other]), J[id][k] = J[other][j]
       PROVE  id = other /\ k = j
  <2>1. CASE id = ps[1] /\ other = ps[1]
    BY <1>2, <1>29, <1>14, <1>16, <2>1
  <2>2. CASE id = ps[1] /\ other # ps[1]
    BY <1>2, <1>13, <1>14, <1>16, <2>2
  <2>3. CASE id # ps[1] /\ other = ps[1]
    BY <1>2, <1>13, <1>14, <1>16, <2>3
  <2>4. CASE id # ps[1] /\ other # ps[1]
    BY <1>1, <1>14, <1>16, <2>4
  <2>5. QED
    BY <2>1, <2>2, <2>3, <2>4
<1>17. ASSUME NEW id \in DOMAIN J, NEW k \in 1 .. Len(J[id])
       PROVE  J[id][k] < next /\ \A j \in 1 .. Len(S) : J[id][k] # S[j]
  <2>1. CASE id = ps[1]
    <3>1. k \in 1 .. n /\ J[id][k] = ps[k] /\ ps[k] \in Nat
      BY <1>2, <1>14, <2>1
    <3>2. ps[k] < next
      <4>1. ps[k] < np \/ ps[k] < next
        BY <1>8, <3>1
      <4>2. QED
        BY <1>0, <1>2, <3>1, <4>1
    <3>3. QED
      BY <1>12, <3>1, <3>2
  <2>2. CASE id # ps[1]
    BY <1>13, <1>14, <2>2
  <2>3. QED
    BY <2>1, <2>2
<1>18. ASSUME NEW k \in 1 .. Len(S) PROVE S[k] < next
  <2>1. S[k] \in Nat /\ S[k] < d.m_nextPage
    BY <1>4, <1>10
  <2>2. QED
    BY <1>0, <1>2, <2>1
<1>19. Sound(J, S, next)
  BY <1>11, <1>15, <1>16, <1>17, <1>18 DEF Sound
<1>20. QED
  BY <1>19 DEF J, I, S, next, ps

\* A store whose write of block n fails.
LEMMA PutFailsSound ==
    ASSUME NEW d, SoundManager(d), NEW n \in Nat \ {0}, NEW old \in Seq(Nat),
           NEW J, \A id \in DOMAIN J : id \in DOMAIN d.m_pageIndex /\ J[id] = d.m_pageIndex[id]
    PROVE  Sound(J, Behind(d.m_emptyPages, Taken(d, old, n)), Next0(d, old, n))
<1> DEFINE t == Taken(d, old, n)
           E == d.m_emptyPages
           I == d.m_pageIndex
           rest == Behind(E, t)
           next == Next0(d, old, n)
<1>1. E \in Seq(Nat) /\ Len(E) \in Nat /\ d.m_nextPage \in Nat
  BY DEF SoundManager, Sound
<1>2. t \in Nat /\ t <= Len(E) /\ next \in Nat /\ next >= d.m_nextPage
  BY PagesAre
<1>3. /\ rest \in Seq(Nat) /\ Len(rest) = Len(E) - t
      /\ \A k \in 1 .. Len(E) - t : rest[k] = E[t + k]
  BY <1>1, <1>2, BehindIs
<1>4. /\ \A id \in DOMAIN I : I[id] \in Seq(Nat) /\ I[id] # <<>> /\ I[id][1] = id
      /\ \A id, other \in DOMAIN I :
            \A k \in 1 .. Len(I[id]), j \in 1 .. Len(I[other]) :
                I[id][k] = I[other][j] => id = other /\ k = j
  BY DEF SoundManager, Sound
<1>5. \A k, j \in 1 .. Len(E) : E[k] = E[j] => k = j
  BY DEF SoundManager, Sound
<1>6. \A id \in DOMAIN I : \A k \in 1 .. Len(I[id]), j \in 1 .. Len(E) : I[id][k] # E[j]
  BY DEF SoundManager, Sound
<1>7. \A id \in DOMAIN I : \A k \in 1 .. Len(I[id]) : I[id][k] < d.m_nextPage /\ I[id][k] \in Nat
  BY DEF SoundManager, Sound
<1>8. \A k \in 1 .. Len(E) : E[k] < d.m_nextPage /\ E[k] \in Nat
  BY DEF SoundManager, Sound
<1> HIDE DEF t, E, I, rest, next
<1>9. ASSUME NEW k \in 1 .. Len(rest)
      PROVE  t + k \in 1 .. Len(E) /\ rest[k] = E[t + k]
  BY <1>1, <1>2, <1>3
<1>10. ASSUME NEW k \in 1 .. Len(rest), NEW j \in 1 .. Len(rest), rest[k] = rest[j] PROVE k = j
  <2>1. t + k = t + j
    BY <1>5, <1>9, <1>10
  <2>2. QED
    BY <1>2, <2>1
<1>11. ASSUME NEW k \in 1 .. Len(rest) PROVE rest[k] < next
  <2>1. rest[k] \in Nat /\ rest[k] < d.m_nextPage
    BY <1>8, <1>9
  <2>2. QED
    BY <1>1, <1>2, <2>1
<1>12. \A id \in DOMAIN J : id \in DOMAIN I /\ J[id] = I[id]
  BY DEF I
<1>13. \A id \in DOMAIN J : \A k \in 1 .. Len(J[id]), j \in 1 .. Len(rest) : J[id][k] # rest[j]
  <2> SUFFICES ASSUME NEW id \in DOMAIN J, NEW k \in 1 .. Len(J[id]), NEW j \in 1 .. Len(rest)
               PROVE  J[id][k] # rest[j]
    OBVIOUS
  <2>1. id \in DOMAIN I /\ J[id] = I[id] /\ k \in 1 .. Len(I[id])
    BY <1>12
  <2>2. t + j \in 1 .. Len(E) /\ rest[j] = E[t + j]
    BY <1>9
  <2>3. QED
    BY <1>6, <2>1, <2>2
<1>14. \A id \in DOMAIN J : \A k \in 1 .. Len(J[id]) : J[id][k] < next
  BY <1>1, <1>2, <1>7, <1>12
<1>15. /\ \A id \in DOMAIN J : J[id] \in Seq(Nat) /\ J[id] # <<>> /\ J[id][1] = id
       /\ \A id, other \in DOMAIN J :
             \A k \in 1 .. Len(J[id]), j \in 1 .. Len(J[other]) :
                 J[id][k] = J[other][j] => id = other /\ k = j
  BY <1>4, <1>12
<1>16. Sound(J, rest, next)
  BY <1>2, <1>3, <1>10, <1>11, <1>13, <1>14, <1>15 DEF Sound
<1>17. QED
  BY <1>16 DEF rest, next, E, t

\* A delete.
LEMMA EraseSound ==
    ASSUME NEW d, SoundManager(d), NEW id \in DOMAIN d.m_pageIndex
    PROVE  Sound(Without(d.m_pageIndex, id), Pushed(d.m_pageIndex[id], d.m_emptyPages), d.m_nextPage)
<1> DEFINE E == d.m_emptyPages
           I == d.m_pageIndex
           J == Without(I, id)
           S == Pushed(I[id], E)
           l == Len(I[id])
           next == d.m_nextPage
<1>1. E \in Seq(Nat) /\ Len(E) \in Nat /\ next \in Nat /\ I[id] \in Seq(Nat) /\ l \in Nat
  BY DEF SoundManager, Sound
<1>2. /\ \A x \in DOMAIN I : I[x] \in Seq(Nat) /\ I[x] # <<>> /\ I[x][1] = x
      /\ \A x, y \in DOMAIN I :
            \A k \in 1 .. Len(I[x]), j \in 1 .. Len(I[y]) : I[x][k] = I[y][j] => x = y /\ k = j
  BY DEF SoundManager, Sound
<1>3. \A k, j \in 1 .. Len(E) : E[k] = E[j] => k = j
  BY DEF SoundManager, Sound
<1>4. \A x \in DOMAIN I : \A k \in 1 .. Len(I[x]), j \in 1 .. Len(E) : I[x][k] # E[j]
  BY DEF SoundManager, Sound
<1>5. \A x \in DOMAIN I : \A k \in 1 .. Len(I[x]) : I[x][k] < next
  BY DEF SoundManager, Sound
<1>6. \A k \in 1 .. Len(E) : E[k] < next
  BY DEF SoundManager, Sound
<1>7. /\ S \in Seq(Nat) /\ Len(S) = l + Len(E)
      /\ \A k \in 1 .. l + Len(E) :
            \/ k <= l /\ S[k] = I[id][l + 1 - k]
            \/ k > l /\ S[k] = E[k - l]
  BY <1>1, PushedIs
<1>8. DOMAIN J = DOMAIN I \ {id} /\ \A x \in DOMAIN J : J[x] = I[x]
  BY DEF Without
<1> HIDE DEF E, I, J, S, l, next
<1>9. ASSUME NEW k \in 1 .. Len(S)
      PROVE  \/ k <= l /\ l + 1 - k \in 1 .. l /\ S[k] = I[id][l + 1 - k]
             \/ k > l /\ k - l \in 1 .. Len(E) /\ S[k] = E[k - l]
  <2>1. k \in 1 .. l + Len(E)
    BY <1>7
  <2>2. CASE k <= l /\ S[k] = I[id][l + 1 - k]
    BY <1>1, <2>1, <2>2
  <2>3. CASE k > l /\ S[k] = E[k - l]
    BY <1>1, <2>1, <2>3
  <2>4. QED
    BY <1>7, <2>1, <2>2, <2>3
<1>10. id \in DOMAIN I /\ l = Len(I[id])
  BY DEF l, I
<1>32. \A k, j \in 1 .. l : I[id][k] = I[id][j] => k = j
  BY <1>2, <1>10
<1>11. ASSUME NEW k \in 1 .. Len(S), NEW j \in 1 .. Len(S), S[k] = S[j] PROVE k = j
  <2>1. CASE k <= l /\ l + 1 - k \in 1 .. l /\ S[k] = I[id][l + 1 - k]
    <3>1. ~(k > l)
      BY <1>1, <1>7, <2>1
    <3>2. ~(j - l \in 1 .. Len(E) /\ S[j] = E[j - l])
      BY <1>4, <1>10, <1>11, <2>1
    <3>3. l + 1 - j \in 1 .. l /\ S[j] = I[id][l + 1 - j]
      BY <1>9, <3>2
    <3>4. l + 1 - k = l + 1 - j
      BY <1>32, <1>11, <2>1, <3>3
    <3>5. QED
      BY <1>1, <1>7, <3>4
  <2>2. CASE k > l /\ k - l \in 1 .. Len(E) /\ S[k] = E[k - l]
    <3>1. ~(l + 1 - j \in 1 .. l /\ S[j] = I[id][l + 1 - j])
      BY <1>4, <1>10, <1>11, <2>2
    <3>2. j - l \in 1 .. Len(E) /\ S[j] = E[j - l]
      BY <1>9, <3>1
    <3>3. k - l = j - l
      BY <1>3, <1>11, <2>2, <3>2
    <3>4. QED
      BY <1>1, <1>7, <3>3
  <2>3. QED
    BY <1>9, <2>1, <2>2
<1>12. ASSUME NEW x \in DOMAIN J, NEW k \in 1 .. Len(J[x]), NEW j \in 1 .. Len(S)
       PROVE  J[x][k] # S[j]
  <2>1. x \in DOMAIN I /\ x # id /\ J[x] = I[x] /\ k \in 1 .. Len(I[x])
    BY <1>8
  <2>2. CASE l + 1 - j \in 1 .. l /\ S[j] = I[id][l + 1 - j]
    BY <1>2, <1>10, <2>1, <2>2
  <2>3. CASE j - l \in 1 .. Len(E) /\ S[j] = E[j - l]
    BY <1>4, <2>1, <2>3
  <2>4. QED
    BY <1>9, <2>2, <2>3
<1>13. ASSUME NEW k \in 1 .. Len(S) PROVE S[k] < next
  BY <1>5, <1>6, <1>9, <1>10
<1>14. \A x \in DOMAIN J : \A k \in 1 .. Len(J[x]) : J[x][k] < next
  BY <1>5, <1>8
<1>15. \A x \in DOMAIN J : J[x] \in Seq(Nat) /\ J[x] # <<>> /\ J[x][1] = x
  BY <1>2, <1>8
<1>16. \A x, y \in DOMAIN J :
          \A k \in 1 .. Len(J[x]), j \in 1 .. Len(J[y]) : J[x][k] = J[y][j] => x = y /\ k = j
  BY <1>2, <1>8
<1>17. Sound(J, S, next)
  BY <1>1, <1>7, <1>11, <1>12, <1>13, <1>14, <1>15, <1>16 DEF Sound
<1>18. QED
  BY <1>17 DEF J, I, S, E, next

\* The stack turned around on its way through the index file.
LEMMA TurnedSound ==
    ASSUME NEW table, NEW stack, NEW next, Sound(table, stack, next)
    PROVE  Sound(table, Pushed(stack, <<>>), next)
<1> DEFINE S == Pushed(stack, <<>>)
<1>1. stack \in Seq(Nat) /\ Len(stack) \in Nat /\ <<>> \in Seq(Nat) /\ Len(<<>>) = 0
  BY DEF Sound
<1>2. /\ S \in Seq(Nat) /\ Len(S) = Len(stack)
      /\ \A k \in 1 .. Len(stack) + 0 :
            \/ k <= Len(stack) /\ S[k] = stack[Len(stack) + 1 - k]
            \/ k > Len(stack)
  <2>1. \A e \in Seq(Nat) :
           /\ Pushed(stack, e) \in Seq(Nat) /\ Len(Pushed(stack, e)) = Len(stack) + Len(e)
           /\ \A k \in 1 .. Len(stack) + Len(e) :
                 \/ k <= Len(stack) /\ Pushed(stack, e)[k] = stack[Len(stack) + 1 - k]
                 \/ k > Len(stack)
    BY <1>1, PushedIs
  <2>2. /\ S \in Seq(Nat) /\ Len(S) = Len(stack) + 0
        /\ \A k \in 1 .. Len(stack) + 0 :
              \/ k <= Len(stack) /\ S[k] = stack[Len(stack) + 1 - k]
              \/ k > Len(stack)
    BY <1>1, <2>1, Zenon
  <2>3. QED
    BY <1>1, <2>2
<1> HIDE DEF S
<1>3. ASSUME NEW k \in 1 .. Len(S)
      PROVE  Len(stack) + 1 - k \in 1 .. Len(stack) /\ S[k] = stack[Len(stack) + 1 - k]
  <2>1. k \in 1 .. Len(stack) + 0 /\ ~(k > Len(stack))
    BY <1>1, <1>2
  <2>2. S[k] = stack[Len(stack) + 1 - k]
    BY <1>2, <2>1
  <2>3. QED
    BY <1>1, <2>1, <2>2
<1>33. \A k, j \in 1 .. Len(stack) : stack[k] = stack[j] => k = j
  BY DEF Sound
<1>4. ASSUME NEW k \in 1 .. Len(S), NEW j \in 1 .. Len(S), S[k] = S[j] PROVE k = j
  <2>1. Len(stack) + 1 - k = Len(stack) + 1 - j
    BY <1>3, <1>4, <1>33
  <2>2. QED
    BY <1>1, <1>2, <2>1
<1>5. \A k \in 1 .. Len(S) : S[k] < next
  BY <1>3 DEF Sound
<1>6. \A id \in DOMAIN table : \A k \in 1 .. Len(table[id]), j \in 1 .. Len(S) : table[id][k] # S[j]
  BY <1>3 DEF Sound
<1>7. Sound(table, S, next)
  BY <1>2, <1>4, <1>5, <1>6 DEF Sound
<1>8. QED
  BY <1>7 DEF S
-----------------------------------------------------------------------------
(* The same as operations on a manager                                     *)

Good(d) == IsManager(d) /\ SoundManager(d)

\* The pages of an array of the table, or of none.
OfTable(d, old) == old = <<>> \/ \E id \in DOMAIN d.m_pageIndex : old = d.m_pageIndex[id]

LEMMA OldTyped ==
    ASSUME NEW d, Good(d), NEW old, OfTable(d, old)
    PROVE  old \in Seq(Nat) /\ (old # <<>> => old[1] \in DOMAIN d.m_pageIndex /\ old = d.m_pageIndex[old[1]])
<1>1. \A id \in DOMAIN d.m_pageIndex :
          d.m_pageIndex[id] \in Seq(Nat) /\ d.m_pageIndex[id][1] = id
  BY DEF Good, SoundManager, Sound
<1>2. CASE old = <<>>
  BY <1>2
<1>3. CASE \E id \in DOMAIN d.m_pageIndex : old = d.m_pageIndex[id]
  BY <1>1, <1>3
<1>4. QED
  BY <1>2, <1>3 DEF OfTable

LEMMA LengthOfArray ==
    ASSUME NEW a \in Array
    PROVE  Len(a) \in Nat \ {0}
<1>1. a \in Seq(Block) /\ a # <<>>
  BY ArrayAssumption
<1>2. QED
  BY <1>1

LEMMA PutGood ==
    ASSUME NEW d, Good(d), NEW old, OfTable(d, old), NEW a \in Array
    PROVE  Good(Put(d, old, a))
<1> DEFINE ps == Pages(d, old, Len(a))
           e == Put(d, old, a)
<1>1. DOMAIN d = {"m_pageIndex", "m_emptyPages", "m_nextPage", "data", "behind", "fail"}
  BY DEF Good, IsManager
<1>2. /\ DOMAIN e = DOMAIN d
      /\ e.m_pageIndex = With(d.m_pageIndex, ps[1], ps) /\ e.m_emptyPages = Stack(d, old, Len(a))
      /\ e.m_nextPage = Next0(d, old, Len(a))
  BY <1>1 DEF Put, Touch
<1>3. IsManager(e)
  BY <1>1, <1>2 DEF IsManager
<1>5. SoundManager(e)
  BY <1>2, OldTyped, LengthOfArray, PutSound DEF SoundManager, Good, OfTable
<1>6. QED
  BY <1>3, <1>5 DEF Good

LEMMA PutFailsGood ==
    ASSUME NEW d, Good(d), NEW old, OfTable(d, old), NEW a, NEW n \in Nat \ {0}
    PROVE  Good(PutFails(d, old, a, n))
<1> DEFINE J == IF old = <<>> THEN d.m_pageIndex ELSE Without(d.m_pageIndex, old[1])
           e == PutFails(d, old, a, n)
<1>1. DOMAIN d = {"m_pageIndex", "m_emptyPages", "m_nextPage", "data", "behind", "fail"}
  BY DEF Good, IsManager
<1>2. /\ DOMAIN e = DOMAIN d
      /\ e.m_pageIndex = J /\ e.m_emptyPages = Behind(d.m_emptyPages, Taken(d, old, n))
      /\ e.m_nextPage = Next0(d, old, n)
  BY <1>1 DEF PutFails, Touch
<1>3. IsManager(e)
  BY <1>1, <1>2 DEF IsManager
<1>5. \A id \in DOMAIN J : id \in DOMAIN d.m_pageIndex /\ J[id] = d.m_pageIndex[id]
  BY DEF Without
<1>6. SoundManager(e)
  <2> HIDE DEF J
  <2>1. old \in Seq(Nat) /\ SoundManager(d)
    BY OldTyped DEF Good
  <2>2. Sound(J, Behind(d.m_emptyPages, Taken(d, old, n)), Next0(d, old, n))
    BY <1>5, <2>1, PutFailsSound
  <2>3. QED
    BY <1>2, <2>2 DEF SoundManager
<1>7. QED
  BY <1>3, <1>6 DEF Good

LEMMA EraseGood ==
    ASSUME NEW d, Good(d), NEW id \in DOMAIN d.m_pageIndex
    PROVE  Good(Erase(d, id))
<1> DEFINE e == Erase(d, id)
<1>1. DOMAIN d = {"m_pageIndex", "m_emptyPages", "m_nextPage", "data", "behind", "fail"}
  BY DEF Good, IsManager
<1>2. /\ DOMAIN e = DOMAIN d
      /\ e.m_pageIndex = Without(d.m_pageIndex, id)
      /\ e.m_emptyPages = Pushed(d.m_pageIndex[id], d.m_emptyPages) /\ e.m_nextPage = d.m_nextPage
  BY <1>1 DEF Erase, OldPages
<1>3. IsManager(e)
  BY <1>1, <1>2 DEF IsManager
<1>5. SoundManager(e)
  BY <1>2, EraseSound DEF SoundManager, Good
<1>6. QED
  BY <1>3, <1>5 DEF Good

LEMMA FreshGood == Good(Fresh)
<1>1. IsManager(Fresh)
  BY DEF Fresh, IsManager
<1>2. Fresh.m_pageIndex = <<>> /\ Fresh.m_emptyPages = <<>> /\ Fresh.m_nextPage = 0
  BY DEF Fresh
<1>3. Sound(<<>>, <<>>, 0)
  BY DEF Sound
<1>4. QED
  BY <1>1, <1>2, <1>3 DEF Good, SoundManager

GoodFile(file) == file.valid => Sound(file.table, file.empty, file.next)

LEMMA OpenedGood ==
    ASSUME NEW file, file.valid, GoodFile(file), NEW data
    PROVE  Good(Opened(file, data))
<1>1. IsManager(Opened(file, data))
  BY DEF Opened, IsManager
<1>2. Sound(file.table, Pushed(file.empty, <<>>), file.next)
  BY TurnedSound DEF GoodFile
<1>3. QED
  BY <1>1, <1>2 DEF Opened, Good, SoundManager

LEMMA WrittenFile ==
    ASSUME NEW d, Good(d)
    PROVE  GoodFile(IndexFile(d))
  BY DEF GoodFile, IndexFile, Good, SoundManager
-----------------------------------------------------------------------------
(* The invariant                                                           *)

\* Dirty arrays can be stored: they came from a store.
DirtyStored == \A id \in DOMAIN m_buffer : m_buffer[id].m_bDirty => m_buffer[id].array \in Array

BufferInv ==
    /\ phase # "down" => Good(disk)
    /\ GoodFile(indexFile)
    /\ DirtyStored

LEMMA OverwriteGood ==
    ASSUME NEW d, Good(d), NEW id, NEW a \in Array
    PROVE  /\ CanOverwrite(d, id) => Good(Overwrite(d, id, a))
           /\ \A x \in OverwriteFails(d, id, a) : Good(x)
<1>1. id \in DOMAIN d.m_pageIndex => OfTable(d, OldPages(d, id))
  BY DEF OfTable, OldPages
<1>2. CanOverwrite(d, id) => Good(Overwrite(d, id, a))
  BY <1>1, PutGood DEF CanOverwrite, Overwrite
<1>3. ASSUME NEW x \in OverwriteFails(d, id, a) PROVE Good(x)
  <2>1. CASE id \in DOMAIN d.m_pageIndex
    <3>1. PICK n \in FailAt(d, a) : x = PutFails(d, OldPages(d, id), a, n)
      BY <1>3, <2>1 DEF OverwriteFails
    <3>2. n \in Nat \ {0}
      BY LengthOfArray DEF FailAt
    <3>3. QED
      BY <1>1, <2>1, <3>1, <3>2, PutFailsGood
  <2>2. CASE id \notin DOMAIN d.m_pageIndex
    BY <1>3, <2>2 DEF OverwriteFails
  <2>3. QED
    BY <2>1, <2>2
<1>4. QED
  BY <1>2, <1>3

\* An entry that comes into the buffer, and the one that leaves it.
LEMMA AddEntryGood ==
    ASSUME NEW d, Good(d), DirtyStored, NEW id, NEW a, NEW dirty, dirty => a \in Array,
           NEW S, AddEntry(d, id, Entry(a, dirty), S)
    PROVE  Good(disk') /\ DirtyStored'
<1> DEFINE e == Entry(a, dirty)
<1>1. e.m_bDirty => e.array \in Array
  BY DEF Entry
<1> HIDE DEF e
<1>2. CASE disk' = d /\ m_buffer' = With(m_buffer, id, e)
  BY <1>1, <1>2 DEF DirtyStored, With
<1>3. ASSUME NEW out \in DOMAIN m_buffer, m_buffer' = With(Without(m_buffer, out), id, e)
      PROVE  DirtyStored'
  <2>1. ASSUME NEW x \in DOMAIN m_buffer' 
        PROVE  m_buffer'[x] = e \/ (x \in DOMAIN m_buffer /\ m_buffer'[x] = m_buffer[x])
    <3> DEFINE w == Without(m_buffer, out)
    <3>1. DOMAIN w = DOMAIN m_buffer \ {out} /\ \A y \in DOMAIN w : w[y] = m_buffer[y]
      BY DEF Without
    <3> HIDE DEF w
    <3>2. m_buffer' = With(w, id, e)
      BY <1>3 DEF w
    <3>3. /\ DOMAIN m_buffer' = DOMAIN w \cup {id}
          /\ \A y \in DOMAIN m_buffer' : m_buffer'[y] = IF y = id THEN e ELSE w[y]
      BY <3>2 DEF With
    <3>4. CASE x = id
      BY <2>1, <3>3, <3>4
    <3>5. CASE x # id
      <4>1. x \in DOMAIN w /\ m_buffer'[x] = w[x]
        BY <2>1, <3>3, <3>5
      <4>2. QED
        BY <3>1, <4>1
    <3>6. QED
      BY <3>4, <3>5
  <2>2. QED
    BY <1>1, <2>1 DEF DirtyStored
<1>4. ASSUME NEW out \in DOMAIN m_buffer, disk' = d, m_buffer' = With(Without(m_buffer, out), id, e)
      PROVE  Good(disk') /\ DirtyStored'
  BY <1>3, <1>4
<1>5. ASSUME NEW out \in DOMAIN m_buffer, m_buffer[out].m_bDirty, CanOverwrite(d, out),
             disk' = Overwrite(d, out, m_buffer[out].array),
             m_buffer' = With(Without(m_buffer, out), id, e)
      PROVE  Good(disk') /\ DirtyStored'
  BY <1>3, <1>5, OverwriteGood DEF DirtyStored
<1>6. ASSUME NEW out \in DOMAIN m_buffer, m_buffer[out].m_bDirty,
             disk' \in OverwriteFails(d, out, m_buffer[out].array), UNCHANGED m_buffer
      PROVE  Good(disk') /\ DirtyStored'
  BY <1>6, OverwriteGood DEF DirtyStored
<1>7. QED
  BY <1>2, <1>4, <1>5, <1>6 DEF AddEntry, e

LEMMA InvariantInit == BufferInit => BufferInv
<1>1. GoodFile(NoFile)
  BY DEF GoodFile, NoFile
<1>2. QED
  BY <1>1, FreshGood DEF BufferInit, BufferInv, DirtyStored

LEMMA InvariantNext == BufferInv /\ [BufferNext]_bufferVars => BufferInv'
<1> SUFFICES ASSUME BufferInv, [BufferNext]_bufferVars PROVE BufferInv'
  OBVIOUS
<1> USE DEF BufferInv
\* The operations of a program that is up.
<1>1. ASSUME NEW a \in Array, StoreNew(a) PROVE BufferInv'
  <2>1. OfTable(disk, <<>>) /\ Good(Put(disk, <<>>, a))
    BY <1>1, PutGood DEF OfTable, StoreNew
  <2>2. PICK id : AddEntry(Put(disk, <<>>, a), id, Entry(a, FALSE), {id})
    BY <1>1 DEF StoreNew
  <2>3. Good(disk') /\ DirtyStored'
    BY <2>1, <2>2, AddEntryGood
  <2>4. QED
    BY <1>1, <2>3 DEF StoreNew
<1>2. ASSUME NEW a \in Array, StoreNewFails(a) PROVE BufferInv'
  <2>1. PICK n \in FailAt(disk, a) : disk' = PutFails(disk, <<>>, a, n)
    BY <1>2 DEF StoreNewFails
  <2>2. n \in Nat \ {0}
    BY LengthOfArray DEF FailAt
  <2>3. Good(disk')
    BY <1>2, <2>1, <2>2, PutFailsGood DEF StoreNewFails, OfTable
  <2>4. QED
    BY <1>2, <2>3 DEF StoreNewFails, DirtyStored
<1>3. ASSUME NEW a \in Array, NEW id \in Page, Store(id, a) PROVE BufferInv'
  <2> DEFINE d == IF m_bWriteThrough THEN Overwrite(disk, id, a) ELSE disk
  <2>1. Good(d)
    BY <1>3, OverwriteGood DEF Store
  <2> HIDE DEF d
  <2>2. CASE id \in DOMAIN m_buffer
    <3>1. disk' = d /\ m_buffer' = With(m_buffer, id, Entry(a, ~m_bWriteThrough))
      BY <1>3, <2>2 DEF Store, d
    <3>2. DirtyStored'
      BY <3>1 DEF DirtyStored, With, Entry
    <3>3. QED
      BY <1>3, <2>1, <3>1, <3>2 DEF Store
  <2>3. CASE id \notin DOMAIN m_buffer
    <3>1. AddEntry(d, id, Entry(a, ~m_bWriteThrough), {id})
      BY <1>3, <2>3 DEF Store, d
    <3>2. Good(disk') /\ DirtyStored'
      BY <2>1, <3>1, AddEntryGood
    <3>3. QED
      BY <1>3, <3>2 DEF Store
  <2>4. QED
    BY <2>2, <2>3
<1>4. ASSUME NEW a \in Array, NEW id \in Page, StoreFails(id, a) PROVE BufferInv'
  BY <1>4, OverwriteGood DEF StoreFails, DirtyStored
<1>5. ASSUME NEW id \in Page, Load(id) PROVE BufferInv'
  <2>1. AddEntry(disk, id, Entry(Contents(disk)[id], FALSE), {})
    BY <1>5 DEF Load
  <2>2. Good(disk') /\ DirtyStored'
    BY <1>5, <2>1, AddEntryGood DEF Load
  <2>3. QED
    BY <1>5, <2>2 DEF Load
<1>6. ASSUME NEW id \in Page, Delete(id) PROVE BufferInv'
  <2>1. Good(disk')
    BY <1>6, EraseGood DEF Delete
  <2>2. DirtyStored'
    BY <1>6 DEF Delete, DirtyStored, Without
  <2>3. QED
    BY <1>6, <2>1, <2>2 DEF Delete
\* The writes of clear and of the destructor, and their end.
<1>7. ASSUME NEW id \in Page, WriteBack(id) PROVE BufferInv'
  <2>1. Good(disk')
    BY <1>7, OverwriteGood DEF WriteBack, FirstToWrite, DirtyStored
  <2>2. DirtyStored'
    BY <1>7 DEF WriteBack, DirtyStored, Without
  <2>3. QED
    BY <1>7, <2>1, <2>2 DEF WriteBack
<1>8. ASSUME NEW id \in Page, WriteBackFails(id) PROVE BufferInv'
  BY <1>8 DEF WriteBackFails, DirtyStored
<1>9. CASE Clear
  BY <1>9 DEF Clear, DirtyStored
<1>10. CASE Cleared
  BY <1>10 DEF Cleared, DirtyStored
<1>11. CASE Close
  BY <1>11, WrittenFile DEF Close, DirtyStored
\* A failure, and the constructors.
<1>12. CASE Crash
  BY <1>12 DEF Crash, DirtyStored
<1>13. CASE Open
  BY <1>13, OpenedGood DEF Open, DirtyStored
<1>14. CASE Create
  BY <1>14, FreshGood DEF Create, DirtyStored, GoodFile, NoFile
<1>15. CASE UNCHANGED bufferVars
  BY <1>15 DEF bufferVars, DirtyStored
<1>16. QED
  BY <1>1, <1>2, <1>3, <1>4, <1>5, <1>6, <1>7, <1>8, <1>9, <1>10, <1>11, <1>12, <1>13, <1>14,
     <1>15 DEF BufferNext

\* Through all reuse of pages, and after every failure and restart, no page of the data
\* file belongs to two arrays, nor to an array and to the empty ones.
THEOREM PagesStayApart == BufferSpec => []PagesApart
<1>1. BufferInv => PagesApart
  BY SoundApart, OpenedGood DEF BufferInv, PagesApart, Good
<1>2. QED
  BY <1>1, InvariantInit, InvariantNext, PTL DEF BufferSpec
-----------------------------------------------------------------------------
(* No page gets lost but by a write that fails                             *)

\* The pages of a new version of an array are in no other array.
LEMMA PagesFree ==
    ASSUME NEW d, SoundManager(d), NEW n \in Nat \ {0}, NEW old \in Seq(Nat),
           old = <<>> \/ \E id \in DOMAIN d.m_pageIndex : old = d.m_pageIndex[id],
           NEW x \in DOMAIN d.m_pageIndex, old = <<>> \/ x # old[1],
           NEW j \in 1 .. Len(d.m_pageIndex[x]), NEW k \in 1 .. n
    PROVE  Pages(d, old, n)[k] # d.m_pageIndex[x][j]
<1> DEFINE r == Reused(old, n)
           t == Taken(d, old, n)
           E == d.m_emptyPages
           I == d.m_pageIndex
           ps == Pages(d, old, n)
           np == d.m_nextPage
<1>1. /\ np \in Nat /\ E \in Seq(Nat) /\ Len(E) \in Nat /\ Len(old) \in Nat
      /\ \A id \in DOMAIN I : I[id] \in Seq(Nat) /\ I[id][1] = id
      /\ \A id, other \in DOMAIN I :
            \A m \in 1 .. Len(I[id]), i \in 1 .. Len(I[other]) :
                I[id][m] = I[other][i] => id = other /\ m = i
  BY DEF SoundManager, Sound
<1>2. \A m \in 1 .. Len(I[x]), i \in 1 .. Len(E) : I[x][m] # E[i]
  BY DEF SoundManager, Sound
<1>3. I[x][j] \in Nat /\ I[x][j] < np
  BY DEF SoundManager, Sound
<1>4. /\ r \in Nat /\ r <= n /\ r <= Len(old)
      /\ t \in Nat /\ t <= Len(E) /\ r + t <= n
  BY PagesAre
<1>5. \/ k <= r /\ ps[k] = old[k]
      \/ k > r /\ k <= r + t /\ ps[k] = E[k - r]
      \/ k > r + t /\ ps[k] = np + k - r - t - 1
  BY PagesAre
<1>6. old = <<>> \/ \E id \in DOMAIN I : old = I[id]
  OBVIOUS
<1>7. j \in 1 .. Len(I[x]) /\ x \in DOMAIN I /\ (old = <<>> \/ x # old[1])
  OBVIOUS
<1> HIDE DEF r, t, E, I, ps, np
<1>8. CASE k <= r /\ ps[k] = old[k]
  <2>1. k \in 1 .. Len(old) /\ old # <<>>
    BY <1>1, <1>4, <1>8
  <2>2. PICK id \in DOMAIN I : old = I[id]
    BY <1>6, <2>1
  <2>3. id # x
    BY <1>1, <1>7, <2>1, <2>2
  <2>4. k \in 1 .. Len(I[id])
    BY <2>1, <2>2
  <2>5. I[id][k] # I[x][j]
    BY <1>1, <1>7, <2>3, <2>4
  <2>6. QED
    BY <1>8, <2>2, <2>5 DEF I, ps
<1>9. CASE k > r /\ k <= r + t /\ ps[k] = E[k - r]
  <2>1. k - r \in 1 .. Len(E)
    BY <1>1, <1>4, <1>9
  <2>2. QED
    BY <1>2, <1>7, <1>9, <2>1 DEF I, ps
<1>10. CASE k > r + t /\ ps[k] = np + k - r - t - 1
  <2>1. ps[k] >= np
    BY <1>1, <1>4, <1>10
  <2>2. QED
    BY <1>1, <1>3, <2>1 DEF I, ps
<1>11. QED
  BY <1>5, <1>8, <1>9, <1>10

\* The first page of a new array is the id of no array.
LEMMA NewId ==
    ASSUME NEW d, SoundManager(d), NEW n \in Nat \ {0}
    PROVE  Pages(d, <<>>, n)[1] \notin DOMAIN d.m_pageIndex
<1> SUFFICES ASSUME Pages(d, <<>>, n)[1] \in DOMAIN d.m_pageIndex PROVE FALSE
  OBVIOUS
<1> DEFINE x == Pages(d, <<>>, n)[1]
<1>1. x \in DOMAIN d.m_pageIndex
  OBVIOUS
<1>2. 1 \in 1 .. n /\ <<>> \in Seq(Nat)
  OBVIOUS
<1>3. d.m_pageIndex[x] \in Seq(Nat) /\ d.m_pageIndex[x] # <<>> /\ d.m_pageIndex[x][1] = x
  BY <1>1 DEF SoundManager, Sound
<1>4. 1 \in 1 .. Len(d.m_pageIndex[x])
  BY <1>3
<1>5. \A old \in Seq(Nat) : old = <<>> => Pages(d, old, n)[1] # d.m_pageIndex[x][1]
  BY <1>1, <1>2, <1>4, PagesFree
<1>6. QED
  BY <1>2, <1>3, <1>5

\* After a store, a page that was in the table or on the stack, or that was given away
\* now, is in the new array, on the stack, or in another array.
LEMMA PutKeepsPage ==
    ASSUME NEW d, SoundManager(d), NEW n \in Nat \ {0}, NEW old \in Seq(Nat),
           old = <<>> \/ \E id \in DOMAIN d.m_pageIndex : old = d.m_pageIndex[id],
           NEW p \in 0 .. Next0(d, old, n) - 1,
           p < d.m_nextPage => p \in Used(d) \cup Elements(d.m_emptyPages)
    PROVE  \/ \E k \in 1 .. n : Pages(d, old, n)[k] = p
           \/ \E k \in 1 .. Len(Stack(d, old, n)) : Stack(d, old, n)[k] = p
           \/ \E id \in DOMAIN d.m_pageIndex \ {Pages(d, old, n)[1]} :
                  \E k \in 1 .. Len(d.m_pageIndex[id]) : d.m_pageIndex[id][k] = p
<1> DEFINE r == Reused(old, n)
           t == Taken(d, old, n)
           b == Len(old) - r
           E == d.m_emptyPages
           I == d.m_pageIndex
           ps == Pages(d, old, n)
           S == Stack(d, old, n)
           next == Next0(d, old, n)
           np == d.m_nextPage
<1>1. /\ np \in Nat /\ E \in Seq(Nat) /\ Len(E) \in Nat /\ Len(old) \in Nat
      /\ \A id \in DOMAIN I : I[id] \in Seq(Nat) /\ I[id][1] = id
  BY DEF SoundManager, Sound
<1>2. /\ r \in Nat /\ r <= n /\ r <= Len(old) /\ (r = n \/ r = Len(old))
      /\ t \in Nat /\ t <= Len(E) /\ r + t <= n
      /\ next \in Nat /\ next >= np
  BY PagesAre
<1>3. \A k \in 1 .. n :
         \/ k <= r /\ ps[k] = old[k]
         \/ k > r /\ k <= r + t /\ ps[k] = E[k - r]
         \/ k > r + t /\ ps[k] = np + k - r - t - 1 /\ ps[k] < next
  BY PagesAre
<1>4. /\ S \in Seq(Nat) /\ Len(S) = b + Len(E) - t
      /\ \A k \in 1 .. Len(S) :
            \/ k <= b /\ S[k] = old[Len(old) + 1 - k]
            \/ k > b /\ S[k] = E[t + k - b]
  <2>1. S \in Seq(Nat) /\ Len(S) = b + Len(E) - t
    BY StackIs
  <2>2. ASSUME NEW k \in 1 .. Len(S)
        PROVE  \/ k <= b /\ S[k] = old[Len(old) + 1 - k]
               \/ k > b /\ S[k] = E[t + k - b]
    BY StackIs
  <2>3. QED
    BY <2>1, <2>2
<1>5. next = np + n - r - t
  BY DEF Next0
<1>6. p \in Nat /\ p < next
  BY <1>1, <1>2
<1>7. p < np => p \in Used(d) \cup Elements(E)
  OBVIOUS
<1>8. old = <<>> \/ \E id \in DOMAIN I : old = I[id]
  OBVIOUS
<1>9. Used(d) = UNION {Elements(I[id]) : id \in DOMAIN I}
  BY DEF Used
<1> HIDE DEF r, t, E, I, ps, S, next, np
<1>10. CASE p >= np
  <2>1. p - np + r + t + 1 \in 1 .. n
    <3>1. /\ np \in Nat /\ r \in Nat /\ t \in Nat /\ n \in Nat /\ p \in Nat
          /\ p >= np /\ p < np + n - r - t
      BY <1>1, <1>2, <1>5, <1>6, <1>10
    <3>2. QED
      BY <3>1
  <2>2. PICK k \in 1 .. n : k = p - np + r + t + 1
    BY <2>1
  <2>3. k > r + t /\ ps[k] = np + k - r - t - 1
    BY <1>1, <1>2, <1>3, <1>6, <1>10, <2>2
  <2>4. ps[k] = p
    <3>1. /\ np \in Nat /\ r \in Nat /\ t \in Nat /\ p \in Nat
          /\ k = p - np + r + t + 1 /\ ps[k] = np + k - r - t - 1
      BY <1>1, <1>2, <1>6, <2>2, <2>3
    <3>2. QED
      BY <3>1
  <2>5. QED
    BY <2>4 DEF ps
<1>11. CASE p \in Elements(E)
  <2>1. PICK j \in 1 .. Len(E) : E[j] = p
    BY <1>11 DEF Elements
  <2>2. CASE j <= t
    <3>1. r + j \in 1 .. n /\ r + j > r /\ r + j <= r + t /\ (r + j) - r = j
      BY <1>1, <1>2, <2>2
    <3>2. ps[r + j] = p
      BY <1>2, <1>3, <2>1, <3>1
    <3>3. QED
      BY <3>1, <3>2 DEF ps
  <2>3. CASE j > t
    <3>1. /\ b + j - t \in 1 .. Len(S) /\ b + j - t > b
          /\ t + (b + j - t) - b = j
      <4>1. /\ b \in Nat /\ t \in Nat /\ Len(E) \in Nat /\ j \in Nat
            /\ j > t /\ j <= Len(E) /\ Len(S) = b + Len(E) - t
        BY <1>1, <1>2, <1>4, <2>3
      <4> HIDE DEF b
      <4>2. QED
        BY <4>1
    <3>2. S[b + j - t] = p
      <4>1. PICK k \in 1 .. Len(S) : k = b + j - t
        BY <3>1
      <4>2. k > b /\ t + k - b = j
        BY <3>1, <4>1
      <4>3. S[k] = E[t + k - b]
        <5>1. ~(k <= b)
          <6>1. k \in Nat /\ b \in Nat
            BY <1>1, <1>2, <4>1
          <6> HIDE DEF b
          <6>2. QED
            BY <4>2, <6>1
        <5>2. QED
          BY <1>4, <5>1
      <4>4. QED
        BY <2>1, <4>1, <4>2, <4>3
    <3>3. QED
      BY <3>1, <3>2 DEF S
  <2>4. QED
    BY <1>1, <1>2, <2>2, <2>3
<1>12. CASE p \in Used(d)
  <2>1. PICK id \in DOMAIN I : p \in Elements(I[id])
    BY <1>9, <1>12
  <2>2. PICK j \in 1 .. Len(I[id]) : I[id][j] = p
    BY <2>1 DEF Elements
  <2>3. CASE id # ps[1]
    BY <2>2, <2>3 DEF I, ps
  <2>4. CASE old # I[id]
    <3>1. CASE old = <<>>
      <4>1. \A o : o = <<>> => Pages(d, o, n)[1] \notin DOMAIN d.m_pageIndex
        BY NewId
      <4>2. ps[1] \notin DOMAIN I
        BY <3>1, <4>1 DEF I, ps
      <4>3. QED
        BY <2>3, <4>2
    <3>2. CASE old # <<>>
      <4>1. old[1] # id
        BY <1>1, <1>8, <2>4, <3>2
      <4>2. 1 <= r /\ 1 \in 1 .. n
        BY <1>1, <1>2, <3>2
      <4>3. ps[1] = old[1]
        BY <1>2, <1>3, <4>2
      <4>4. QED
        BY <2>3, <4>1, <4>3
    <3>3. QED
      BY <3>1, <3>2
  <2>5. CASE old = I[id]
    <3>1. CASE j <= r
      <4>0. j \in 1 .. n
        BY <1>1, <1>2, <2>5, <3>1
      <4>1. ps[j] = old[j]
        <5>1. ~(j > r) /\ ~(j > r + t)
          BY <1>2, <3>1, <4>0
        <5>2. QED
          BY <1>3, <4>0, <5>1
      <4>2. QED
        BY <2>2, <2>5, <4>0, <4>1 DEF ps
    <3>2. CASE j > r
      <4>1. Len(old) + 1 - j \in 1 .. Len(S) /\ Len(old) + 1 - j <= b
        BY <1>1, <1>2, <1>4, <2>5, <3>2
      <4>2. PICK k \in 1 .. Len(S) : k = Len(old) + 1 - j
        BY <4>1
      <4>3. ~(k > b) /\ Len(old) + 1 - k = j
        BY <1>1, <1>2, <2>5, <4>1, <4>2
      <4>4. S[k] = p
        BY <1>4, <2>2, <2>5, <4>3
      <4>5. QED
        BY <4>4 DEF S
    <3>3. QED
      BY <1>1, <1>2, <2>5, <3>1, <3>2
  <2>6. QED
    BY <2>4, <2>5
<1>13. QED
  BY <1>1, <1>6, <1>7, <1>10, <1>11, <1>12
-----------------------------------------------------------------------------
LEMMA PutNoLoss ==
    ASSUME NEW d, Good(d), NEW old, OfTable(d, old), NEW a \in Array
    PROVE  Lost(Put(d, old, a)) \subseteq Lost(d)
<1> DEFINE n == Len(a)
           ps == Pages(d, old, n)
           S == Stack(d, old, n)
           I == d.m_pageIndex
           e == Put(d, old, a)
<1>1. /\ e.m_pageIndex = With(I, ps[1], ps) /\ e.m_emptyPages = S
      /\ e.m_nextPage = Next0(d, old, n)
  BY DEF Put, Touch, Good, IsManager
<1>2. SoundManager(d) /\ old \in Seq(Nat) /\ n \in Nat \ {0}
  BY OldTyped, LengthOfArray DEF Good
<1>3. d.m_nextPage \in Nat /\ Next0(d, old, n) \in Nat /\ Next0(d, old, n) >= d.m_nextPage
      /\ Len(ps) = n
  <2>1. d.m_nextPage \in Nat
    BY <1>2 DEF SoundManager, Sound
  <2>2. QED
    BY <1>2, <2>1, PagesAre
<1>4. old = <<>> \/ \E id \in DOMAIN I : old = I[id]
  BY DEF OfTable
<1>5. /\ DOMAIN e.m_pageIndex = DOMAIN I \cup {ps[1]} /\ e.m_pageIndex[ps[1]] = ps
      /\ \A id \in DOMAIN I \ {ps[1]} : e.m_pageIndex[id] = I[id]
  BY <1>1 DEF With
<1> HIDE DEF e, n, ps, S, I
<1>6. SUFFICES ASSUME NEW p \in Lost(e) PROVE p \in Lost(d)
  BY DEF e
<1>7. p \in 0 .. e.m_nextPage - 1 /\ p \notin Used(e) /\ p \notin Elements(e.m_emptyPages)
  BY DEF Lost
<1>8. ASSUME p < d.m_nextPage => p \in Used(d) \cup Elements(d.m_emptyPages)
      PROVE  FALSE
  <2>1. \/ \E k \in 1 .. n : ps[k] = p
        \/ \E k \in 1 .. Len(S) : S[k] = p
        \/ \E id \in DOMAIN I \ {ps[1]} : \E k \in 1 .. Len(I[id]) : I[id][k] = p
    BY <1>1, <1>2, <1>4, <1>7, <1>8, PutKeepsPage DEF n, ps, S, I
  <2>2. CASE \E k \in 1 .. n : ps[k] = p
    <3>1. p \in Elements(e.m_pageIndex[ps[1]])
      BY <1>3, <1>5, <2>2 DEF Elements
    <3>2. QED
      BY <1>5, <1>7, <3>1 DEF Used
  <2>3. CASE \E k \in 1 .. Len(S) : S[k] = p
    BY <1>1, <1>7, <2>3 DEF Elements
  <2>4. CASE \E id \in DOMAIN I \ {ps[1]} : \E k \in 1 .. Len(I[id]) : I[id][k] = p
    <3>1. PICK id \in DOMAIN I \ {ps[1]} : p \in Elements(e.m_pageIndex[id])
      BY <1>5, <2>4 DEF Elements
    <3>2. QED
      BY <1>5, <1>7, <3>1 DEF Used
  <2>5. QED
    BY <2>1, <2>2, <2>3, <2>4
<1>9. p \in 0 .. d.m_nextPage - 1
  BY <1>1, <1>3, <1>7, <1>8
<1>10. QED
  BY <1>8, <1>9 DEF Lost

LEMMA EraseNoLoss ==
    ASSUME NEW d, Good(d), NEW id \in DOMAIN d.m_pageIndex
    PROVE  Lost(Erase(d, id)) \subseteq Lost(d)
<1> DEFINE I == d.m_pageIndex
           E == d.m_emptyPages
           S == Pushed(I[id], E)
           e == Erase(d, id)
<1>1. e.m_pageIndex = Without(I, id) /\ e.m_emptyPages = S /\ e.m_nextPage = d.m_nextPage
  BY DEF Erase, OldPages, Good, IsManager
<1>2. I[id] \in Seq(Nat) /\ E \in Seq(Nat)
  BY DEF Good, SoundManager, Sound
<1>3. /\ S \in Seq(Nat) /\ Len(S) = Len(I[id]) + Len(E)
      /\ \A k \in 1 .. Len(I[id]) + Len(E) :
            \/ k <= Len(I[id]) /\ S[k] = I[id][Len(I[id]) + 1 - k]
            \/ k > Len(I[id]) /\ S[k] = E[k - Len(I[id])]
  BY <1>2, PushedIs
<1>4. DOMAIN e.m_pageIndex = DOMAIN I \ {id} /\ \A x \in DOMAIN I \ {id} : e.m_pageIndex[x] = I[x]
  BY <1>1 DEF Without
<1>5. Len(I[id]) \in Nat /\ Len(E) \in Nat
  BY <1>2
<1> HIDE DEF e, S, E, I
<1>6. ASSUME NEW p \in Elements(I[id]) PROVE p \in Elements(S)
  <2>1. PICK j \in 1 .. Len(I[id]) : I[id][j] = p
    BY <1>6 DEF Elements
  <2>2. Len(I[id]) + 1 - j \in 1 .. Len(I[id])
    BY <1>5
  <2>3. PICK k \in 1 .. Len(I[id]) : k = Len(I[id]) + 1 - j
    BY <2>2
  <2>4. k \in 1 .. Len(S) /\ ~(k > Len(I[id])) /\ Len(I[id]) + 1 - k = j
    BY <1>3, <1>5, <2>3
  <2>5. S[k] = p
    BY <1>3, <2>1, <2>4
  <2>6. QED
    BY <2>4, <2>5 DEF Elements
<1>7. ASSUME NEW p \in Elements(E) PROVE p \in Elements(S)
  <2>1. PICK j \in 1 .. Len(E) : E[j] = p
    BY <1>7 DEF Elements
  <2>2. PICK k \in Nat : k = Len(I[id]) + j
    BY <1>5
  <2>3. k \in 1 .. Len(S) /\ ~(k <= Len(I[id])) /\ k - Len(I[id]) = j
    BY <1>3, <1>5, <2>2
  <2>4. S[k] = p
    BY <1>3, <2>1, <2>3
  <2>5. QED
    BY <2>3, <2>4 DEF Elements
<1>8. ASSUME NEW p \in Used(d) PROVE p \in Used(e) \cup Elements(S)
  <2>1. PICK x \in DOMAIN I : p \in Elements(I[x])
    BY <1>8 DEF Used, I
  <2>2. CASE x = id
    BY <1>6, <2>1, <2>2
  <2>3. CASE x # id
    BY <1>4, <2>1, <2>3 DEF Used
  <2>4. QED
    BY <2>2, <2>3
<1>9. QED
  BY <1>1, <1>7, <1>8 DEF Lost, e, E

LEMMA OverwriteNoLoss ==
    ASSUME NEW d, Good(d), NEW id, CanOverwrite(d, id), NEW a \in Array
    PROVE  Lost(Overwrite(d, id, a)) \subseteq Lost(d)
  BY PutNoLoss DEF CanOverwrite, Overwrite, OfTable, OldPages

\* A write that fails is remembered.
LEMMA FailsFails ==
    ASSUME NEW d, Good(d), NEW id, NEW a, NEW e \in OverwriteFails(d, id, a)
    PROVE  e.fail \/ e = d
  BY DEF OverwriteFails, PutFails, Touch, Good, IsManager

LEMMA AddEntryNoLoss ==
    ASSUME NEW d, Good(d), DirtyStored, NEW id, NEW e, NEW S, AddEntry(d, id, e, S)
    PROVE  disk'.fail \/ Lost(disk') \subseteq Lost(d)
<1>1. CASE disk' = d
  BY <1>1
<1>2. ASSUME NEW out \in DOMAIN m_buffer, m_buffer[out].m_bDirty, CanOverwrite(d, out),
             disk' = Overwrite(d, out, m_buffer[out].array)
      PROVE  Lost(disk') \subseteq Lost(d)
  BY <1>2, OverwriteNoLoss DEF DirtyStored
<1>3. ASSUME NEW out \in DOMAIN m_buffer, disk' \in OverwriteFails(d, out, m_buffer[out].array)
      PROVE  disk'.fail \/ Lost(disk') \subseteq Lost(d)
  BY <1>3, FailsFails
<1>4. QED
  BY <1>1, <1>2, <1>3 DEF AddEntry

LEMMA NoLossNext ==
    ASSUME BufferInv, [BufferNext]_bufferVars, phase # "down", phase' # "down", ~disk'.fail
    PROVE  Lost(disk') \subseteq Lost(disk)
<1>0. Good(disk) /\ DirtyStored
  BY DEF BufferInv
<1>1. ASSUME NEW a \in Array, StoreNew(a) PROVE Lost(disk') \subseteq Lost(disk)
  <2>1. OfTable(disk, <<>>)
    BY DEF OfTable
  <2>2. Good(Put(disk, <<>>, a)) /\ Lost(Put(disk, <<>>, a)) \subseteq Lost(disk)
    BY <1>0, <2>1, PutGood, PutNoLoss
  <2>3. PICK id : AddEntry(Put(disk, <<>>, a), id, Entry(a, FALSE), {id})
    BY <1>1 DEF StoreNew
  <2>4. QED
    BY <1>0, <2>2, <2>3, AddEntryNoLoss
<1>2. ASSUME NEW a \in Array, StoreNewFails(a) PROVE FALSE
  BY <1>0, <1>2 DEF StoreNewFails, PutFails, Touch, Good, IsManager
<1>3. ASSUME NEW a \in Array, NEW id \in Page, Store(id, a) PROVE Lost(disk') \subseteq Lost(disk)
  <2> DEFINE d == IF m_bWriteThrough THEN Overwrite(disk, id, a) ELSE disk
  <2>1. Good(d) /\ Lost(d) \subseteq Lost(disk)
    BY <1>0, <1>3, OverwriteGood, OverwriteNoLoss DEF Store
  <2>2. disk' = d \/ AddEntry(d, id, Entry(a, ~m_bWriteThrough), {id})
    BY <1>3 DEF Store
  <2> HIDE DEF d
  <2>3. QED
    BY <1>0, <2>1, <2>2, AddEntryNoLoss
<1>4. ASSUME NEW a \in Array, NEW id \in Page, StoreFails(id, a) PROVE Lost(disk') \subseteq Lost(disk)
  BY <1>0, <1>4, FailsFails DEF StoreFails
<1>5. ASSUME NEW id \in Page, Load(id) PROVE Lost(disk') \subseteq Lost(disk)
  BY <1>0, <1>5, AddEntryNoLoss DEF Load
<1>6. ASSUME NEW id \in Page, Delete(id) PROVE Lost(disk') \subseteq Lost(disk)
  BY <1>0, <1>6, EraseNoLoss DEF Delete
<1>7. ASSUME NEW id \in Page, WriteBack(id) PROVE Lost(disk') \subseteq Lost(disk)
  BY <1>0, <1>7, OverwriteNoLoss DEF WriteBack, FirstToWrite, DirtyStored
<1>8. ASSUME \/ \E id \in Page : WriteBackFails(id)
             \/ Close \/ Crash \/ Open \/ Create
      PROVE  FALSE
  BY <1>8 DEF WriteBackFails, Close, Crash, Open, Create
<1>9. CASE Clear \/ Cleared \/ UNCHANGED bufferVars
  BY <1>9 DEF Clear, Cleared, bufferVars
<1>10. QED
  BY <1>1, <1>2, <1>3, <1>4, <1>5, <1>6, <1>7, <1>8, <1>9 DEF BufferNext

\* Pages of a file in use get lost only by a write that failed: a store puts back every
\* page that the old array has too many, and takes none that it does not use.
THEOREM NoPageLost == BufferSpec => LostByFailureOnly
<1>1. BufferInv /\ [BufferNext]_bufferVars
      => [phase # "down" /\ phase' # "down" /\ ~disk.fail' => Lost(disk') \subseteq Lost(disk)]_bufferVars
  BY NoLossNext
<1>2. QED
  BY <1>1, InvariantInit, InvariantNext, PTL DEF BufferSpec, LostByFailureOnly
-----------------------------------------------------------------------------
(* What the operations of the manager leave alone                          *)

\* The arrays of a table in a data file.
On(table, data) == [id \in DOMAIN table |-> [n \in DOMAIN table[id] |-> data[table[id][n]]]]

\* d and e differ in the arrays of X only; no page of another was written.
Only(d, e, X) ==
    /\ DOMAIN e.m_pageIndex \ X = DOMAIN d.m_pageIndex \ X
    /\ \A x \in DOMAIN d.m_pageIndex \ X :
          /\ e.m_pageIndex[x] = d.m_pageIndex[x]
          /\ \A n \in DOMAIN d.m_pageIndex[x] :
                LET p == d.m_pageIndex[x][n]
                IN  e.data[p] = d.data[p] /\ (p \in e.behind => p \in d.behind)

\* d has the array a under id.
Holds(d, id, a) == id \in DOMAIN d.m_pageIndex /\ Contents(d)[id] = a

LEMMA OnlySame == ASSUME NEW d, NEW X PROVE Only(d, d, X)
  BY DEF Only

LEMMA OnlyTwice ==
    ASSUME NEW d, NEW e, NEW f, NEW X, NEW Y, Only(d, e, X), Only(e, f, Y)
    PROVE  Only(d, f, X \cup Y)
<1>1. DOMAIN f.m_pageIndex \ (X \cup Y) = DOMAIN d.m_pageIndex \ (X \cup Y)
  BY DEF Only
<1>2. ASSUME NEW x \in DOMAIN d.m_pageIndex \ (X \cup Y)
      PROVE  /\ f.m_pageIndex[x] = d.m_pageIndex[x]
             /\ \A n \in DOMAIN d.m_pageIndex[x] :
                   LET p == d.m_pageIndex[x][n]
                   IN  f.data[p] = d.data[p] /\ (p \in f.behind => p \in d.behind)
  <2>1. x \in DOMAIN d.m_pageIndex \ X /\ x \in DOMAIN e.m_pageIndex \ Y
    BY <1>2 DEF Only
  <2>2. /\ e.m_pageIndex[x] = d.m_pageIndex[x]
        /\ \A n \in DOMAIN d.m_pageIndex[x] :
              LET p == d.m_pageIndex[x][n]
              IN  e.data[p] = d.data[p] /\ (p \in e.behind => p \in d.behind)
    BY <2>1 DEF Only
  <2>3. /\ f.m_pageIndex[x] = e.m_pageIndex[x]
        /\ \A n \in DOMAIN e.m_pageIndex[x] :
              LET p == e.m_pageIndex[x][n]
              IN  f.data[p] = e.data[p] /\ (p \in f.behind => p \in e.behind)
    BY <2>1 DEF Only
  <2>4. QED
    BY <2>2, <2>3
<1>3. QED
  BY <1>1, <1>2 DEF Only

LEMMA OnlyMore ==
    ASSUME NEW d, NEW e, NEW X, NEW Y, Only(d, e, X), X \subseteq Y
    PROVE  Only(d, e, Y)
  BY DEF Only

\* The pages of a table are pages of the file.
LEMMA TablePages ==
    ASSUME NEW table, NEW stack, NEW next, Sound(table, stack, next), next <= MaxPage,
           NEW x \in DOMAIN table
    PROVE  /\ DOMAIN table[x] = 1 .. Len(table[x]) /\ 1 \in DOMAIN table[x] /\ x \in Page
           /\ \A n \in DOMAIN table[x] : table[x][n] \in Page
<1>1. table[x] \in Seq(Nat) /\ table[x] # <<>> /\ table[x][1] = x /\ next \in Nat
  BY DEF Sound
<1>2. DOMAIN table[x] = 1 .. Len(table[x]) /\ 1 \in DOMAIN table[x]
  BY <1>1
<1>3. ASSUME NEW n \in DOMAIN table[x] PROVE table[x][n] \in Page
  <2>1. table[x][n] \in Nat
    BY <1>1
  <2>2. table[x][n] < next
    BY <1>2 DEF Sound
  <2>3. QED
    BY <1>1, <2>1, <2>2, BoundAssumption DEF Page
<1>4. QED
  BY <1>1, <1>2, <1>3

\* Pages written by a store.
LEMMA PutOnly ==
    ASSUME NEW d, Good(d), NEW old, OfTable(d, old), NEW a \in Array,
           NEW e, e = Put(d, old, a), e.m_nextPage <= MaxPage,
           NEW id, id = Pages(d, old, Len(a))[1]
    PROVE  /\ Only(d, e, {id}) /\ id \in Page
           /\ Holds(e, id, a)
           /\ old # <<>> => id = old[1]
           /\ old = <<>> => id \notin DOMAIN d.m_pageIndex
           /\ e.fail = d.fail
           /\ d.m_nextPage <= MaxPage
<1> DEFINE n == Len(a)
           ps == Pages(d, old, n)
           I == d.m_pageIndex
<1>0. id = ps[1]
  OBVIOUS
<1>1. /\ e.m_pageIndex = With(I, id, ps) /\ e.m_nextPage = Next0(d, old, n)
      /\ e.data = Written(d.data, ps, a, n) /\ e.fail = d.fail
      /\ e.behind = IF n = 0 THEN d.behind ELSE {ps[n]}
  BY DEF Put, Touch, Good, IsManager
<1>2. SoundManager(d) /\ old \in Seq(Nat) /\ n \in Nat \ {0}
  BY OldTyped, LengthOfArray DEF Good
<1>3. e.behind = {ps[n]} /\ n \in 1 .. n /\ 1 \in 1 .. n
  BY <1>1, <1>2
<1>4. /\ d.m_nextPage \in Nat /\ Next0(d, old, n) \in Nat /\ Next0(d, old, n) >= d.m_nextPage
      /\ ps \in Seq(Nat) /\ Len(ps) = n
      /\ Reused(old, n) = n \/ Reused(old, n) = Len(old)
      /\ 1 <= Reused(old, n) => ps[1] = old[1]
  <2>1. d.m_nextPage \in Nat
    BY <1>2 DEF SoundManager, Sound
  <2> DEFINE r == Reused(old, n)
             t == Taken(d, old, n)
  <2>2. /\ Next0(d, old, n) \in Nat /\ Next0(d, old, n) >= d.m_nextPage
        /\ ps \in Seq(Nat) /\ Len(ps) = n
        /\ r \in Nat /\ t \in Nat /\ (r = n \/ r = Len(old))
        /\ \/ 1 <= r /\ ps[1] = old[1]
           \/ 1 > r
           \/ 1 > r + t
    BY <1>2, <1>3, PagesAre
  <2> HIDE DEF r, t
  <2>3. 1 <= r => ps[1] = old[1]
    BY <2>2
  <2>4. QED
    BY <2>1, <2>2, <2>3 DEF r
<1>5. d.m_nextPage <= MaxPage
  BY <1>1, <1>4, BoundAssumption
<1>6. old # <<>> => id = old[1]
  <2>1. old # <<>> => Len(old) \in Nat \ {0}
    BY <1>2
  <2>2. QED
    BY <1>2, <1>4, <2>1
<1>7. old = <<>> => id \notin DOMAIN I
  BY <1>2, NewId
<1>8. SoundManager(e)
  BY PutGood DEF Good
<1>9. DOMAIN e.m_pageIndex = DOMAIN I \cup {id} /\ e.m_pageIndex[id] = ps
      /\ \A x \in DOMAIN I \ {id} : e.m_pageIndex[x] = I[x]
  BY <1>1 DEF With
<1>10. /\ DOMAIN ps = 1 .. n /\ id \in Page
       /\ \A k \in 1 .. n : ps[k] \in Page
       /\ \A k, j \in 1 .. n : ps[k] = ps[j] => k = j
  <2>1. id \in DOMAIN e.m_pageIndex
    BY <1>9
  <2>2. Sound(e.m_pageIndex, e.m_emptyPages, e.m_nextPage) /\ e.m_nextPage <= MaxPage
    BY <1>8 DEF SoundManager
  <2>3. /\ DOMAIN e.m_pageIndex[id] = 1 .. Len(e.m_pageIndex[id]) /\ id \in Page
        /\ \A k \in DOMAIN e.m_pageIndex[id] : e.m_pageIndex[id][k] \in Page
    BY <2>1, <2>2, TablePages
  <2>4. \A k, j \in 1 .. Len(e.m_pageIndex[id]) : e.m_pageIndex[id][k] = e.m_pageIndex[id][j] => k = j
    BY <2>1, <2>2 DEF Sound
  <2>5. QED
    BY <1>4, <1>9, <2>3, <2>4
<1>11. a \in Seq(Block) /\ DOMAIN a = 1 .. n
  BY ArrayAssumption
<1>12. ASSUME NEW x \in DOMAIN I, x # id, NEW j \in DOMAIN I[x]
       PROVE  I[x][j] \in Page /\ \A k \in 1 .. n : ps[k] # I[x][j]
  <2>1. Sound(I, d.m_emptyPages, d.m_nextPage)
    BY <1>2 DEF SoundManager
  <2>2. DOMAIN I[x] = 1 .. Len(I[x]) /\ I[x][j] \in Page
    BY <1>5, <2>1, TablePages
  <2>3. old = <<>> \/ x # old[1]
    BY <1>6, <1>12
  <2>4. old = <<>> \/ \E y \in DOMAIN I : old = I[y]
    BY DEF OfTable
  <2>5. \A k \in 1 .. n : ps[k] # I[x][j]
    BY <1>2, <2>2, <2>3, <2>4, PagesFree
  <2>6. QED
    BY <2>2, <2>5
<1> HIDE DEF n, ps, I
<1>13. \A p \in Page : (\A k \in 1 .. n : ps[k] # p) => e.data[p] = d.data[p]
  BY <1>1 DEF Written
<1>14. \A k \in 1 .. n : e.data[ps[k]] = a[k]
  BY <1>1, <1>10 DEF Written
<1>15. Contents(e)[id] = a
  <2>1. Contents(e)[id] = [k \in DOMAIN e.m_pageIndex[id] |-> e.data[e.m_pageIndex[id][k]]]
    BY <1>9 DEF Contents
  <2>2. Contents(e)[id] = [k \in 1 .. n |-> a[k]]
    BY <1>9, <1>10, <1>14, <2>1
  <2>3. QED
    BY <1>11, <2>2
<1>16. Only(d, e, {id})
  <2>1. DOMAIN e.m_pageIndex \ {id} = DOMAIN I \ {id}
    BY <1>9
  <2>2. ASSUME NEW x \in DOMAIN I \ {id}, NEW j \in DOMAIN I[x]
        PROVE  e.data[I[x][j]] = d.data[I[x][j]] /\ I[x][j] \notin e.behind
    BY <1>3, <1>12, <1>13
  <2>3. QED
    BY <1>9, <2>1, <2>2 DEF Only, I
<1>17. QED
  BY <1>1, <1>5, <1>6, <1>7, <1>9, <1>10, <1>15, <1>16 DEF ps, n, I, Holds

\* The id of an old array, if there is one.
IdOf(old) == IF old = <<>> THEN {} ELSE {old[1]}

\* Pages written by a store that fails.
LEMMA PutFailsOnly ==
    ASSUME NEW d, Good(d), NEW old, OfTable(d, old), NEW a, NEW n \in Nat \ {0},
           NEW e, e = PutFails(d, old, a, n), e.m_nextPage <= MaxPage
    PROVE  /\ Only(d, e, IdOf(old))
           /\ \A x \in IdOf(old) : x \notin DOMAIN e.m_pageIndex
           /\ e.fail
           /\ d.m_nextPage <= MaxPage
<1> DEFINE ps == Pages(d, old, n)
           I == d.m_pageIndex
           w == Written(d.data, ps, a, n - 1)
           X == IdOf(old)
<1>1. /\ e.m_pageIndex = IF old = <<>> THEN I ELSE Without(I, old[1])
      /\ e.m_nextPage = Next0(d, old, n) /\ e.fail = TRUE /\ e.behind = {}
      /\ e.data = [p \in Page |-> IF p = ps[n] /\ ~d.fail THEN NULL ELSE w[p]]
  BY DEF PutFails, Touch, Good, IsManager
<1>2. SoundManager(d) /\ old \in Seq(Nat)
  BY OldTyped DEF Good
<1>3. d.m_nextPage \in Nat /\ Next0(d, old, n) \in Nat /\ Next0(d, old, n) >= d.m_nextPage
  <2>1. d.m_nextPage \in Nat
    BY <1>2 DEF SoundManager, Sound
  <2>2. QED
    BY <1>2, <2>1, PagesAre
<1>4. d.m_nextPage <= MaxPage
  BY <1>1, <1>3, BoundAssumption
<1>5. DOMAIN e.m_pageIndex = DOMAIN I \ X /\ \A x \in DOMAIN I \ X : e.m_pageIndex[x] = I[x]
  BY <1>1 DEF Without, IdOf
<1>6. ASSUME NEW x \in DOMAIN I \ X, NEW j \in DOMAIN I[x]
      PROVE  I[x][j] \in Page /\ \A k \in 1 .. n : ps[k] # I[x][j]
  <2>1. Sound(I, d.m_emptyPages, d.m_nextPage)
    BY <1>2 DEF SoundManager
  <2>2. DOMAIN I[x] = 1 .. Len(I[x]) /\ I[x][j] \in Page
    BY <1>4, <2>1, TablePages
  <2>3. old = <<>> \/ x # old[1]
    BY DEF IdOf
  <2>4. old = <<>> \/ \E y \in DOMAIN I : old = I[y]
    BY DEF OfTable
  <2>5. \A k \in 1 .. n : ps[k] # I[x][j]
    BY <1>2, <2>2, <2>3, <2>4, PagesFree
  <2>6. QED
    BY <2>2, <2>5
<1>7. n \in 1 .. n /\ \A k \in 1 .. n - 1 : k \in 1 .. n
  OBVIOUS
<1> HIDE DEF ps, I, w, X
<1>8. \A p \in Page : (\A k \in 1 .. n : ps[k] # p) => e.data[p] = d.data[p]
  BY <1>1, <1>7 DEF Written, w
<1>9. Only(d, e, X)
  <2>1. ASSUME NEW x \in DOMAIN I \ X, NEW j \in DOMAIN I[x]
        PROVE  e.data[I[x][j]] = d.data[I[x][j]] /\ I[x][j] \notin e.behind
    BY <1>1, <1>6, <1>8
  <2>2. QED
    BY <1>5, <2>1 DEF Only, I
<1>10. QED
  BY <1>1, <1>4, <1>5, <1>9 DEF I, X

LEMMA EraseOnly ==
    ASSUME NEW d, Good(d), NEW id \in DOMAIN d.m_pageIndex
    PROVE  LET e == Erase(d, id)
           IN  /\ Only(d, e, {id})
               /\ id \notin DOMAIN e.m_pageIndex
               /\ e.fail = d.fail /\ e.m_nextPage = d.m_nextPage
<1>1. LET e == Erase(d, id)
      IN  /\ e.m_pageIndex = Without(d.m_pageIndex, id) /\ e.data = d.data /\ e.behind = d.behind
          /\ e.fail = d.fail /\ e.m_nextPage = d.m_nextPage
  BY DEF Erase, Good, IsManager
<1>2. QED
  BY <1>1 DEF Without, Only

\* A store below.
LEMMA OverwriteOnly ==
    ASSUME NEW d, Good(d), NEW id, CanOverwrite(d, id), NEW a, a \in Array,
           NEW e, e = Overwrite(d, id, a), e.m_nextPage <= MaxPage
    PROVE  /\ Only(d, e, {id})
           /\ Holds(e, id, a)
           /\ e.fail = d.fail
           /\ d.m_nextPage <= MaxPage
<1>1. PICK old : old = d.m_pageIndex[id]
  OBVIOUS
<1>2. id \in DOMAIN d.m_pageIndex /\ old # <<>> /\ old[1] = id
  BY <1>1 DEF CanOverwrite, Good, SoundManager, Sound
<1>3. OfTable(d, old) /\ e = Put(d, old, a)
  BY <1>1, <1>2 DEF OfTable, Overwrite, OldPages
<1>4. PICK x : x = Pages(d, old, Len(a))[1]
  OBVIOUS
<1>5. /\ Only(d, e, {x}) /\ x = id
      /\ Holds(e, x, a)
      /\ e.fail = d.fail
      /\ d.m_nextPage <= MaxPage
  BY <1>2, <1>3, <1>4, PutOnly
<1>6. QED
  BY <1>2, <1>5

LEMMA OverwriteFailsOnly ==
    ASSUME NEW d, Good(d), NEW id, NEW a, a \in Array, NEW e, e \in OverwriteFails(d, id, a),
           e.m_nextPage <= MaxPage
    PROVE  /\ Only(d, e, {id})
           /\ id \notin DOMAIN e.m_pageIndex
           /\ IF id \in DOMAIN d.m_pageIndex THEN e.fail ELSE e = d
           /\ d.m_nextPage <= MaxPage
<1>1. CASE id \notin DOMAIN d.m_pageIndex
  <2>1. e = d
    BY <1>1 DEF OverwriteFails
  <2>2. QED
    BY <1>1, <2>1, OnlySame
<1>2. CASE id \in DOMAIN d.m_pageIndex
  <2>1. PICK old : old = d.m_pageIndex[id]
    OBVIOUS
  <2>2. PICK m \in FailAt(d, a) : e = PutFails(d, old, a, m)
    BY <1>2, <2>1 DEF OverwriteFails, OldPages
  <2>3. PICK n \in Nat \ {0} : n = m
    BY LengthOfArray DEF FailAt
  <2>4. e = PutFails(d, old, a, n)
    BY <2>2, <2>3
  <2>5. old # <<>> /\ old[1] = id /\ OfTable(d, old)
    BY <1>2, <2>1 DEF Good, SoundManager, Sound, OfTable
  <2>6. /\ Only(d, e, IdOf(old)) /\ \A x \in IdOf(old) : x \notin DOMAIN e.m_pageIndex
        /\ e.fail /\ d.m_nextPage <= MaxPage
    BY <2>4, <2>5, PutFailsOnly
  <2>7. IdOf(old) = {id}
    BY <2>5 DEF IdOf
  <2>8. QED
    BY <1>2, <2>6, <2>7
<1>3. QED
  BY <1>1, <1>2
-----------------------------------------------------------------------------
(* What the trees see                                                      *)

\* A tree sees the same under x with manager d and buffer b as with e and c.
Same(d, b, e, c, x) ==
    /\ x \in DOMAIN View(e, c) <=> x \in DOMAIN View(d, b)
    /\ x \in DOMAIN View(d, b) => View(e, c)[x] = View(d, b)[x]

LEMMA ViewIs ==
    ASSUME NEW d, NEW b
    PROVE  /\ DOMAIN View(d, b) = DOMAIN d.m_pageIndex \cup DOMAIN b
           /\ \A x \in DOMAIN b : View(d, b)[x] = b[x].array
           /\ \A x \in DOMAIN d.m_pageIndex \ DOMAIN b : View(d, b)[x] = Contents(d)[x]
  BY DEF View

\* An array that is not touched has the contents it had.
LEMMA OnlyContents ==
    ASSUME NEW d, NEW e, NEW X, Only(d, e, X), NEW x, x \notin X
    PROVE  /\ x \in DOMAIN e.m_pageIndex <=> x \in DOMAIN d.m_pageIndex
           /\ x \in DOMAIN d.m_pageIndex => Contents(e)[x] = Contents(d)[x]
<1>1. x \in DOMAIN e.m_pageIndex <=> x \in DOMAIN d.m_pageIndex
  BY DEF Only
<1>2. ASSUME x \in DOMAIN d.m_pageIndex PROVE Contents(e)[x] = Contents(d)[x]
  <2>1. x \in DOMAIN d.m_pageIndex \ X
    BY <1>2
  <2>2. /\ e.m_pageIndex[x] = d.m_pageIndex[x]
        /\ \A n \in DOMAIN d.m_pageIndex[x] : e.data[d.m_pageIndex[x][n]] = d.data[d.m_pageIndex[x][n]]
    BY <2>1 DEF Only
  <2>3. /\ Contents(e)[x] = [n \in DOMAIN e.m_pageIndex[x] |-> e.data[e.m_pageIndex[x][n]]]
        /\ Contents(d)[x] = [n \in DOMAIN d.m_pageIndex[x] |-> d.data[d.m_pageIndex[x][n]]]
    BY <1>1, <1>2 DEF Contents
  <2>4. QED
    BY <2>2, <2>3
<1>3. QED
  BY <1>1, <1>2

\* Four ways to see the same: in the buffer before and after, below before and after, in
\* the buffer and then below, below and then in the buffer.
LEMMA SameSeen ==
    ASSUME NEW d, NEW b, NEW e, NEW c, NEW x,
           \/ x \in DOMAIN b /\ x \in DOMAIN c /\ c[x].array = b[x].array
           \/ /\ x \notin DOMAIN b /\ x \notin DOMAIN c
              /\ x \in DOMAIN e.m_pageIndex <=> x \in DOMAIN d.m_pageIndex
              /\ x \in DOMAIN d.m_pageIndex => Contents(e)[x] = Contents(d)[x]
           \/ /\ x \in DOMAIN b /\ x \notin DOMAIN c
              /\ x \in DOMAIN e.m_pageIndex /\ Contents(e)[x] = b[x].array
           \/ /\ x \notin DOMAIN b /\ x \in DOMAIN c
              /\ x \in DOMAIN d.m_pageIndex /\ c[x].array = Contents(d)[x]
    PROVE  Same(d, b, e, c, x)
<1>1. /\ x \in DOMAIN View(d, b) <=> x \in DOMAIN d.m_pageIndex \/ x \in DOMAIN b
      /\ x \in DOMAIN View(e, c) <=> x \in DOMAIN e.m_pageIndex \/ x \in DOMAIN c
  BY DEF View
<1>2. /\ x \in DOMAIN b => View(d, b)[x] = b[x].array
      /\ x \in DOMAIN c => View(e, c)[x] = c[x].array
      /\ x \in DOMAIN d.m_pageIndex /\ x \notin DOMAIN b => View(d, b)[x] = Contents(d)[x]
      /\ x \in DOMAIN e.m_pageIndex /\ x \notin DOMAIN c => View(e, c)[x] = Contents(e)[x]
  BY DEF View
<1>3. QED
  BY <1>1, <1>2 DEF Same

\* From single ids to all of them but those of Y.
LEMMA SameRestricted ==
    ASSUME NEW d, NEW b, NEW e, NEW c, NEW Y, \A x : x \notin Y => Same(d, b, e, c, x)
    PROVE  [x \in DOMAIN View(e, c) \ Y |-> View(e, c)[x]] = [x \in DOMAIN View(d, b) \ Y |-> View(d, b)[x]]
<1>1. DOMAIN View(e, c) \ Y = DOMAIN View(d, b) \ Y
  BY DEF Same
<1>2. \A x \in DOMAIN View(d, b) \ Y : View(e, c)[x] = View(d, b)[x]
  BY DEF Same
<1>3. QED
  BY <1>1, <1>2

LEMMA SameAll ==
    ASSUME NEW d, NEW b, NEW e, NEW c, \A x : Same(d, b, e, c, x)
    PROVE  View(e, c) = View(d, b)
<1>1. DOMAIN View(e, c) = DOMAIN View(d, b)
  BY DEF Same
<1>2. \A x \in DOMAIN View(d, b) : View(e, c)[x] = View(d, b)[x]
  BY DEF Same
<1>3. /\ View(e, c) = [x \in DOMAIN View(e, c) |-> View(e, c)[x]]
      /\ View(d, b) = [x \in DOMAIN View(d, b) |-> View(d, b)[x]]
  BY DEF View
<1>4. QED
  BY <1>1, <1>2, <1>3

\* A program without a buffer sees the disk.
LEMMA ViewEmpty ==
    ASSUME NEW d
    PROVE  View(d, <<>>) = Contents(d)
<1>1. DOMAIN <<>> = {}
  OBVIOUS
<1>2. View(d, <<>>) = [id \in DOMAIN d.m_pageIndex |-> Contents(d)[id]]
  BY <1>1 DEF View
<1>3. QED
  BY <1>2 DEF Contents
-----------------------------------------------------------------------------
(* Buffer and files together                                               *)

\* The table in the index file.
FileTable == IF indexFile.valid THEN indexFile.table ELSE <<>>

\* Arrays that were not touched since the program last ended are where they were, and
\* none of their pages waits in the stream.
Kept(d, table, T) ==
    \A id \in (DOMAIN table \cup DOMAIN d.m_pageIndex) \ T :
        /\ id \in DOMAIN table /\ id \in DOMAIN d.m_pageIndex
        /\ d.m_pageIndex[id] = table[id]
        /\ \A n \in DOMAIN table[id] : table[id][n] \notin d.behind

\* What an entry says of the disk: until a write fails it has the array too; a clean one
\* has the same contents, and is there, unless a store that went through to it failed.
EntryOK(d, id, e, through) ==
    /\ ~d.fail => id \in DOMAIN d.m_pageIndex
    /\ e.m_bDirty => ~through
    /\ ~e.m_bDirty /\ id \in DOMAIN d.m_pageIndex => e.array = Contents(d)[id]
    /\ ~e.m_bDirty /\ ~through => id \in DOMAIN d.m_pageIndex

Entries(d, b, through) == \A id \in DOMAIN b : EntryOK(d, id, b[id], through)

DirtyTouched == \A id \in DOMAIN m_buffer : m_buffer[id].m_bDirty => id \in touched

StoreInv ==
    /\ phase = "down" => m_buffer = <<>> /\ disk.m_pageIndex = <<>>
    /\ phase # "down" => disk.m_nextPage <= MaxPage /\ Kept(disk, FileTable, touched)
    /\ indexFile.valid => indexFile.next <= MaxPage
    /\ safe = [id \in DOMAIN FileTable \ touched |-> On(FileTable, disk.data)[id]]
    /\ Entries(disk, m_buffer, m_bWriteThrough)
    /\ DirtyTouched
    /\ BufferOnly \subseteq touched

\* A change elsewhere leaves an entry right.
LEMMA EntryKept ==
    ASSUME NEW d, NEW e, NEW X, Only(d, e, X), d.fail => e.fail,
           NEW id, id \notin X, NEW entry, NEW through, EntryOK(d, id, entry, through)
    PROVE  EntryOK(e, id, entry, through)
<1>1. /\ id \in DOMAIN e.m_pageIndex <=> id \in DOMAIN d.m_pageIndex
      /\ id \in DOMAIN d.m_pageIndex => Contents(e)[id] = Contents(d)[id]
  BY OnlyContents
<1>2. QED
  BY <1>1 DEF EntryOK

\* One entry for another.
LEMMA Exchanged ==
    ASSUME NEW b, NEW out, out \in DOMAIN b, NEW id, id \notin DOMAIN b, NEW e,
           NEW c, c = With(Without(b, out), id, e)
    PROVE  /\ id \in DOMAIN c /\ c[id] = e /\ out \notin DOMAIN c
           /\ \A x \in DOMAIN b \ {out} : x \in DOMAIN c /\ c[x] = b[x]
           /\ \A x \in DOMAIN c : x = id \/ x \in DOMAIN b \ {out}
<1>1. PICK w : w = Without(b, out)
  OBVIOUS
<1>2. DOMAIN w = DOMAIN b \ {out} /\ \A x \in DOMAIN w : w[x] = b[x]
  BY <1>1 DEF Without
<1>3. c = With(w, id, e)
  BY <1>1
<1>4. QED
  BY <1>2, <1>3 DEF With

\* The entry e came into the buffer under id: of the others at most one was stored below,
\* which a tree does not see, or its store failed and e is not in.
Entered(d, id, e, S, through, X) ==
    /\ X \subseteq touched /\ X \subseteq DOMAIN m_buffer
    /\ Only(d, disk', X) /\ Touched(S \cup X)
    /\ Entries(disk', m_buffer', through)
    /\ DOMAIN m_buffer' \subseteq DOMAIN m_buffer \cup {id}
    /\ \A x \in DOMAIN m_buffer' : m_buffer'[x].m_bDirty => x \in touched \/ (x = id /\ e.m_bDirty)
    /\ \A x : x # id => Same(d, m_buffer, disk', m_buffer', x)
    /\ \/ id \in DOMAIN m_buffer' /\ m_buffer'[id] = e
       \/ m_buffer' = m_buffer /\ disk'.fail
    /\ d.fail => disk'.fail
    /\ d.m_nextPage <= MaxPage

LEMMA AddEntryKeeps ==
    ASSUME NEW d, Good(d), NEW through, ~(through /\ d.fail), Entries(d, m_buffer, through),
           DirtyStored, DirtyTouched,
           NEW id, id \notin DOMAIN m_buffer, NEW e, EntryOK(d, id, e, through),
           NEW S, AddEntry(d, id, e, S), disk'.m_nextPage <= MaxPage
    PROVE  \E X : Entered(d, id, e, S, through, X)
\* There is room.
<1>1. CASE disk' = d /\ m_buffer' = With(m_buffer, id, e) /\ Touched(S)
  <2>1. /\ DOMAIN m_buffer' = DOMAIN m_buffer \cup {id} /\ m_buffer'[id] = e
        /\ \A x \in DOMAIN m_buffer : m_buffer'[x] = m_buffer[x]
    BY <1>1 DEF With
  <2>2. Entries(disk', m_buffer', through)
    BY <1>1, <2>1 DEF Entries
  <2>3. ASSUME NEW x, x # id PROVE Same(d, m_buffer, disk', m_buffer', x)
    <3>1. CASE x \in DOMAIN m_buffer
      BY <2>1, <3>1, SameSeen
    <3>2. CASE x \notin DOMAIN m_buffer
      BY <1>1, <2>1, <2>3, <3>2, SameSeen
    <3>3. QED
      BY <3>1, <3>2
  <2>4. S \cup {} = S
    OBVIOUS
  <2>5. \A x \in DOMAIN m_buffer' : m_buffer'[x].m_bDirty => x \in touched \/ (x = id /\ e.m_bDirty)
    BY <2>1 DEF DirtyTouched
  <2>6. Only(d, disk', {})
    BY <1>1, OnlySame
  <2>7. Entered(d, id, e, S, through, {})
    BY <1>1, <2>1, <2>2, <2>3, <2>4, <2>5, <2>6 DEF Entered
  <2>8. QED
    BY <2>7
\* Another entry leaves; its array is below then.
<1>2. ASSUME NEW out \in DOMAIN m_buffer, m_buffer' = With(Without(m_buffer, out), id, e),
             NEW X, X \subseteq touched, X \subseteq {out}, Only(d, disk', X), Touched(S \cup X),
             disk'.fail = d.fail, d.m_nextPage <= MaxPage,
             out \in DOMAIN disk'.m_pageIndex, Contents(disk')[out] = m_buffer[out].array
      PROVE  \E Y : Entered(d, id, e, S, through, Y)
  <2>1. /\ id \in DOMAIN m_buffer' /\ m_buffer'[id] = e /\ out \notin DOMAIN m_buffer'
        /\ \A x \in DOMAIN m_buffer \ {out} : x \in DOMAIN m_buffer' /\ m_buffer'[x] = m_buffer[x]
        /\ \A x \in DOMAIN m_buffer' : x = id \/ x \in DOMAIN m_buffer \ {out}
    BY <1>2, Exchanged
  <2>2. ASSUME NEW x \in DOMAIN m_buffer' PROVE EntryOK(disk', x, m_buffer'[x], through)
    <3>1. EntryOK(d, x, m_buffer'[x], through) /\ x \notin X
      BY <1>2, <2>1 DEF Entries
    <3>2. QED
      BY <1>2, <3>1, EntryKept
  <2>3. ASSUME NEW x, x # id PROVE Same(d, m_buffer, disk', m_buffer', x)
    <3>1. CASE x \in DOMAIN m_buffer /\ x # out
      BY <2>1, <3>1, SameSeen
    <3>2. CASE x = out
      BY <1>2, <2>1, <2>3, <3>2, SameSeen
    <3>3. CASE x \notin DOMAIN m_buffer
      <4>1. x \notin X /\ x \notin DOMAIN m_buffer'
        BY <1>2, <2>1, <2>3, <3>3
      <4>2. /\ x \in DOMAIN disk'.m_pageIndex <=> x \in DOMAIN d.m_pageIndex
            /\ x \in DOMAIN d.m_pageIndex => Contents(disk')[x] = Contents(d)[x]
        BY <1>2, <4>1, OnlyContents
      <4>3. QED
        BY <3>3, <4>1, <4>2, SameSeen
    <3>4. QED
      BY <1>2, <3>1, <3>2, <3>3
  <2>4. \A x \in DOMAIN m_buffer' : m_buffer'[x].m_bDirty => x \in touched \/ (x = id /\ e.m_bDirty)
    BY <2>1 DEF DirtyTouched
  <2>5. Entered(d, id, e, S, through, X)
    BY <1>2, <2>1, <2>2, <2>3, <2>4 DEF Entries, Entered
  <2>6. QED
    BY <2>5
<1>3. ASSUME NEW out \in DOMAIN m_buffer, ~m_buffer[out].m_bDirty, disk' = d,
             m_buffer' = With(Without(m_buffer, out), id, e), Touched(S)
      PROVE  \E Y : Entered(d, id, e, S, through, Y)
  <2>1. out \in DOMAIN disk'.m_pageIndex /\ Contents(disk')[out] = m_buffer[out].array
    BY <1>3 DEF Entries, EntryOK
  <2>2. Only(d, disk', {}) /\ S \cup {} = S
    BY <1>3, OnlySame
  <2>3. d.m_nextPage <= MaxPage /\ disk'.fail = d.fail /\ Touched(S \cup {})
    BY <1>3, <2>2
  <2>4. QED
    BY <1>2, <1>3, <2>1, <2>2, <2>3
<1>4. ASSUME NEW out \in DOMAIN m_buffer, m_buffer[out].m_bDirty, CanOverwrite(d, out),
             disk' = Overwrite(d, out, m_buffer[out].array),
             m_buffer' = With(Without(m_buffer, out), id, e), Touched(S \cup {out})
      PROVE  \E Y : Entered(d, id, e, S, through, Y)
  <2>1. m_buffer[out].array \in Array /\ out \in touched
    BY <1>4 DEF DirtyStored, DirtyTouched
  <2>2. /\ Only(d, disk', {out}) /\ Holds(disk', out, m_buffer[out].array)
        /\ disk'.fail = d.fail /\ d.m_nextPage <= MaxPage
    BY <1>4, <2>1, OverwriteOnly
  <2>3. QED
    BY <1>2, <1>4, <2>1, <2>2 DEF Holds
<1>5. ASSUME NEW out \in DOMAIN m_buffer, m_buffer[out].m_bDirty,
             disk' \in OverwriteFails(d, out, m_buffer[out].array),
             UNCHANGED m_buffer, Touched(S \cup {out})
      PROVE  \E Y : Entered(d, id, e, S, through, Y)
  <2>1. m_buffer[out].array \in Array /\ out \in touched
    BY <1>5 DEF DirtyStored, DirtyTouched
  <2>2. /\ Only(d, disk', {out}) /\ out \notin DOMAIN disk'.m_pageIndex
        /\ IF out \in DOMAIN d.m_pageIndex THEN disk'.fail ELSE disk' = d
        /\ d.m_nextPage <= MaxPage
    BY <1>5, <2>1, OverwriteFailsOnly
  <2>3. disk'.fail
    BY <2>2 DEF Entries, EntryOK
  <2>4. ASSUME NEW x \in DOMAIN m_buffer PROVE EntryOK(disk', x, m_buffer[x], through)
    <3>1. EntryOK(d, x, m_buffer[x], through)
      BY DEF Entries
    <3>2. CASE x = out
      BY <1>5, <2>3, <3>1, <3>2 DEF EntryOK
    <3>3. CASE x # out
      BY <2>2, <2>3, <3>1, <3>3, EntryKept
    <3>4. QED
      BY <3>2, <3>3
  <2>5. ASSUME NEW x PROVE Same(d, m_buffer, disk', m_buffer', x)
    <3>1. CASE x \in DOMAIN m_buffer
      BY <1>5, <3>1, SameSeen
    <3>2. CASE x \notin DOMAIN m_buffer
      <4>1. /\ x \in DOMAIN disk'.m_pageIndex <=> x \in DOMAIN d.m_pageIndex
            /\ x \in DOMAIN d.m_pageIndex => Contents(disk')[x] = Contents(d)[x]
        BY <2>2, <3>2, OnlyContents
      <4>2. QED
        BY <1>5, <3>2, <4>1, SameSeen
    <3>3. QED
      BY <3>1, <3>2
  <2>6. Entered(d, id, e, S, through, {out})
    BY <1>5, <2>1, <2>2, <2>3, <2>4, <2>5 DEF Entered, Entries, DirtyTouched
  <2>7. QED
    BY <2>6
<1>6. QED
  BY <1>1, <1>3, <1>4, <1>5 DEF AddEntry
-----------------------------------------------------------------------------
\* Steps of a program that runs keep the invariant if they leave alone what is not touched.
LEMMA RunningKeeps ==
    ASSUME StoreInv, phase # "down", phase' # "down", UNCHANGED <<m_bWriteThrough, indexFile>>,
           NEW S, Touched(S), Only(disk, disk', touched'), disk'.m_nextPage <= MaxPage,
           Entries(disk', m_buffer', m_bWriteThrough), DirtyTouched',
           \A x \in DOMAIN m_buffer' :
               x \in DOMAIN m_buffer \/ x \in DOMAIN disk.m_pageIndex \/ x \in touched'
    PROVE  StoreInv'
<1> DEFINE FT == FileTable
<1>1. touched' = touched \cup S /\ safe' = [id \in DOMAIN safe \ S |-> safe[id]]
  BY DEF Touched
<1>2. FT' = FT
  BY DEF FileTable
<1>3. /\ Kept(disk, FT, touched)
      /\ safe = [id \in DOMAIN FT \ touched |-> On(FT, disk.data)[id]]
  BY DEF StoreInv
<1> HIDE DEF FT
<1>4. ASSUME NEW x, x \notin touched', x \in DOMAIN FT \/ x \in DOMAIN disk'.m_pageIndex
      PROVE  /\ x \in DOMAIN FT /\ x \in DOMAIN disk'.m_pageIndex
             /\ disk'.m_pageIndex[x] = FT[x]
             /\ \A n \in DOMAIN FT[x] : FT[x][n] \notin disk'.behind /\ disk'.data[FT[x][n]] = disk.data[FT[x][n]]
  <2>1. x \notin touched
    BY <1>1, <1>4
  <2>2. x \in DOMAIN FT \/ x \in DOMAIN disk.m_pageIndex
    BY <1>4 DEF Only
  <2>3. /\ x \in DOMAIN FT /\ x \in DOMAIN disk.m_pageIndex /\ disk.m_pageIndex[x] = FT[x]
        /\ \A n \in DOMAIN FT[x] : FT[x][n] \notin disk.behind
    BY <1>3, <2>1, <2>2 DEF Kept
  <2>4. x \in DOMAIN disk.m_pageIndex \ touched'
    BY <1>4, <2>3
  <2>5. /\ x \in DOMAIN disk'.m_pageIndex /\ disk'.m_pageIndex[x] = disk.m_pageIndex[x]
        /\ \A n \in DOMAIN disk.m_pageIndex[x] :
              LET p == disk.m_pageIndex[x][n]
              IN  disk'.data[p] = disk.data[p] /\ (p \in disk'.behind => p \in disk.behind)
    BY <2>4 DEF Only
  <2>6. QED
    BY <2>3, <2>5
<1>5. Kept(disk', FT, touched')
  BY <1>4 DEF Kept
<1>6. safe' = [id \in DOMAIN FT \ touched' |-> On(FT, disk'.data)[id]]
  <2>1. DOMAIN safe \ S = DOMAIN FT \ touched'
    BY <1>1, <1>3
  <2>2. ASSUME NEW x \in DOMAIN FT \ touched' PROVE safe[x] = On(FT, disk'.data)[x]
    <3>1. safe[x] = [n \in DOMAIN FT[x] |-> disk.data[FT[x][n]]]
      BY <1>1, <1>3 DEF On
    <3>2. On(FT, disk'.data)[x] = [n \in DOMAIN FT[x] |-> disk'.data[FT[x][n]]]
      BY DEF On
    <3>3. \A n \in DOMAIN FT[x] : disk'.data[FT[x][n]] = disk.data[FT[x][n]]
      BY <1>4
    <3>4. QED
      BY <3>1, <3>2, <3>3
  <2>3. QED
    BY <1>1, <2>1, <2>2
<1>7. ASSUME NEW x \in BufferOnly' PROVE x \in touched'
  <2>1. x \in DOMAIN m_buffer' /\ x \notin DOMAIN disk'.m_pageIndex
    BY DEF BufferOnly
  <2>2. x \in DOMAIN m_buffer /\ x \notin DOMAIN disk.m_pageIndex => x \in touched
    BY DEF BufferOnly, StoreInv
  <2>3. x \in DOMAIN disk.m_pageIndex => x \in touched'
    BY <2>1 DEF Only
  <2>4. QED
    BY <1>1, <2>1, <2>2, <2>3
<1>8. indexFile'.valid => indexFile'.next <= MaxPage
  BY DEF StoreInv
<1>9. Kept(disk', FT', touched')
  BY <1>2, <1>5
<1>10. safe' = [id \in DOMAIN FT' \ touched' |-> On(FT', disk'.data)[id]]
  BY <1>2, <1>6
<1>11. QED
  BY <1>7, <1>8, <1>9, <1>10 DEF StoreInv, FT

\* For the store above, such a step touches S0, and what was touched already.
LEMMA RunningTouches ==
    ASSUME StoreInv, StoreInv', phase # "down", phase' # "down", disk.fail => disk'.fail,
           NEW S, NEW S0, Touched(S), S0 \subseteq S, S \subseteq S0 \cup touched
    PROVE  Store0!Touch(S0)
<1>1. touched' = touched \cup S /\ safe' = [id \in DOMAIN safe \ S |-> safe[id]]
  BY DEF Touched
<1>2. Running # "down" /\ Running' \in {Running, "broken"} /\ (Running' = "broken" <=> disk'.fail)
  BY DEF Running
<1>3. touched \cup S0 \subseteq touched' /\ touched' \subseteq touched \cup S0 \cup DOMAIN Arrays
  BY <1>1
<1>4. safe' = Store0!Restricted(safe, touched')
  <2>1. DOMAIN safe \cap touched = {}
    BY DEF StoreInv
  <2>2. DOMAIN safe \ S = DOMAIN safe \ touched'
    BY <1>1, <2>1
  <2>3. QED
    BY <1>1, <2>2 DEF Store0!Restricted
<1>5. BufferOnly' \subseteq BufferOnly \cup (IF Running' = "broken" THEN touched' ELSE {})
  <2>1. CASE disk'.fail
    BY <1>2, <2>1 DEF StoreInv
  <2>2. CASE ~disk'.fail
    <3>1. \A x \in DOMAIN m_buffer' : x \in DOMAIN disk'.m_pageIndex
      BY <2>2 DEF StoreInv, Entries, EntryOK
    <3>2. QED
      BY <3>1 DEF BufferOnly
  <2>3. QED
    BY <2>1, <2>2
<1>6. QED
  BY <1>2, <1>3, <1>4, <1>5 DEF Store0!Touch
-----------------------------------------------------------------------------
(* The steps of a program that is up                                       *)

LEMMA AddEntryBounded ==
    ASSUME NEW d, Good(d), DirtyStored, NEW id, NEW e, NEW S, AddEntry(d, id, e, S),
           disk'.m_nextPage <= MaxPage
    PROVE  d.m_nextPage <= MaxPage
<1>1. CASE disk' = d
  BY <1>1
<1>2. ASSUME NEW out \in DOMAIN m_buffer, m_buffer[out].m_bDirty, CanOverwrite(d, out),
             disk' = Overwrite(d, out, m_buffer[out].array)
      PROVE  d.m_nextPage <= MaxPage
  <2>1. m_buffer[out].array \in Array
    BY <1>2 DEF DirtyStored
  <2>2. PICK f : f = disk'
    OBVIOUS
  <2>3. f = Overwrite(d, out, m_buffer[out].array) /\ f.m_nextPage <= MaxPage
    BY <1>2, <2>2
  <2>4. Only(d, f, {out}) /\ d.m_nextPage <= MaxPage
    BY <1>2, <2>1, <2>3, OverwriteOnly
  <2>5. QED
    BY <2>4
<1>3. ASSUME NEW out \in DOMAIN m_buffer, m_buffer[out].m_bDirty,
             disk' \in OverwriteFails(d, out, m_buffer[out].array)
      PROVE  d.m_nextPage <= MaxPage
  BY <1>3, OverwriteFailsOnly DEF DirtyStored
<1>4. QED
  BY <1>1, <1>2, <1>3 DEF AddEntry

\* As long as the program runs, the store above has the arrays that the trees see.
LEMMA RunningArrays ==
    ASSUME phase # "down", phase' # "down"
    PROVE  Arrays = View(disk, m_buffer) /\ Arrays' = View(disk', m_buffer')
  BY DEF Arrays

\* An entry came in under id, with a disk d that differs from the old one in the array of
\* id at most.
LEMMA AddEntryStep ==
    ASSUME BufferInv, StoreInv, phase # "down", UNCHANGED <<phase, m_bWriteThrough, indexFile>>,
           NEW d, Good(d), d.fail = disk.fail, ~(m_bWriteThrough /\ d.fail),
           NEW id, id \notin DOMAIN m_buffer,
           NEW S, S \subseteq {id}, Only(disk, d, S), id \in DOMAIN disk.m_pageIndex \/ id \in S,
           NEW e, EntryOK(d, id, e, m_bWriteThrough), e.m_bDirty => id \in S,
           AddEntry(d, id, e, S), disk'.m_nextPage <= MaxPage
    PROVE  /\ StoreInv' /\ Store0!Touch(S)
           /\ \A x : x # id => Same(disk, m_buffer, disk', m_buffer', x)
           /\ \/ id \in DOMAIN m_buffer' /\ m_buffer'[id] = e
              \/ /\ m_buffer' = m_buffer /\ disk'.fail
                 /\ id \in DOMAIN disk'.m_pageIndex <=> id \in DOMAIN d.m_pageIndex
                 /\ id \in DOMAIN d.m_pageIndex => Contents(disk')[id] = Contents(d)[id]
<1> DEFINE through == m_bWriteThrough
<1>1. DirtyStored /\ DirtyTouched /\ Entries(disk, m_buffer, through)
  BY DEF BufferInv, StoreInv
<1>2. ASSUME NEW x \in DOMAIN m_buffer PROVE EntryOK(d, x, m_buffer[x], through)
  <2>1. EntryOK(disk, x, m_buffer[x], through) /\ x \notin S
    BY <1>1 DEF Entries
  <2>2. QED
    BY <2>1, EntryKept
<1>3. Entries(d, m_buffer, through)
  BY <1>2 DEF Entries
<1>4. PICK X : Entered(d, id, e, S, through, X)
  BY <1>1, <1>3, AddEntryKeeps
<1>5. /\ X \subseteq touched /\ X \subseteq DOMAIN m_buffer
      /\ Only(d, disk', X) /\ Touched(S \cup X)
      /\ Entries(disk', m_buffer', through)
      /\ DOMAIN m_buffer' \subseteq DOMAIN m_buffer \cup {id}
      /\ \A x \in DOMAIN m_buffer' : m_buffer'[x].m_bDirty => x \in touched \/ (x = id /\ e.m_bDirty)
      /\ \A x : x # id => Same(d, m_buffer, disk', m_buffer', x)
      /\ \/ id \in DOMAIN m_buffer' /\ m_buffer'[id] = e
         \/ m_buffer' = m_buffer /\ disk'.fail
      /\ d.fail => disk'.fail
  BY <1>4 DEF Entered
<1>6. touched' = touched \cup S \cup X
  BY <1>5 DEF Touched
<1>7. Only(disk, disk', touched')
  <2>1. Only(disk, disk', S \cup X)
    BY <1>5, OnlyTwice
  <2>2. QED
    BY <1>6, <2>1, OnlyMore
<1>8. DirtyTouched'
  BY <1>5, <1>6 DEF DirtyTouched
<1>9. \A x \in DOMAIN m_buffer' :
          x \in DOMAIN m_buffer \/ x \in DOMAIN disk.m_pageIndex \/ x \in touched'
  BY <1>5, <1>6
<1>10. phase' # "down"
  OBVIOUS
<1>11. StoreInv'
  BY <1>5, <1>7, <1>8, <1>9, <1>10, RunningKeeps
<1>12. Store0!Touch(S)
  <2>1. S \subseteq S \cup X /\ S \cup X \subseteq S \cup touched
    BY <1>5
  <2>2. QED
    BY <1>5, <1>10, <1>11, <2>1, RunningTouches
<1>13. ASSUME NEW x, x # id PROVE Same(disk, m_buffer, disk', m_buffer', x)
  <2>1. Same(d, m_buffer, disk', m_buffer', x) /\ x \notin S
    BY <1>5, <1>13
  <2>2. Same(disk, m_buffer, d, m_buffer, x)
    <3>1. /\ x \in DOMAIN d.m_pageIndex <=> x \in DOMAIN disk.m_pageIndex
          /\ x \in DOMAIN disk.m_pageIndex => Contents(d)[x] = Contents(disk)[x]
      BY <2>1, OnlyContents
    <3>2. CASE x \in DOMAIN m_buffer
      BY <3>2, SameSeen
    <3>3. CASE x \notin DOMAIN m_buffer
      BY <3>1, <3>3, SameSeen
    <3>4. QED
      BY <3>2, <3>3
  <2>3. QED
    BY <2>1, <2>2 DEF Same
<1>14. /\ id \in DOMAIN disk'.m_pageIndex <=> id \in DOMAIN d.m_pageIndex
       /\ id \in DOMAIN d.m_pageIndex => Contents(disk')[id] = Contents(d)[id]
  <2>1. id \notin X
    BY <1>5
  <2>2. QED
    BY <1>5, <2>1, OnlyContents
<1>15. QED
  BY <1>5, <1>11, <1>12, <1>13, <1>14

\* The step of one id in the store above.
LEMMA OneStored ==
    ASSUME phase # "down", phase' # "down", NEW id, Store0!Touch({id}),
           \A x : x # id => Same(disk, m_buffer, disk', m_buffer', x)
    PROVE  Store0!Store(id)
<1>1. PICK Y : Y = {id}
  OBVIOUS
<1>2. [x \in DOMAIN View(disk', m_buffer') \ Y |-> View(disk', m_buffer')[x]]
      = [x \in DOMAIN View(disk, m_buffer) \ Y |-> View(disk, m_buffer)[x]]
  <2>1. \A x : x \notin Y => Same(disk, m_buffer, disk', m_buffer', x)
    BY <1>1
  <2>2. QED
    BY <2>1, SameRestricted
<1>3. Store0!Restricted(Arrays', {id}) = Store0!Restricted(Arrays, {id})
  BY <1>1, <1>2, RunningArrays DEF Store0!Restricted
<1>4. QED
  BY <1>3 DEF Store0!Store

LEMMA LoadStep ==
    ASSUME BufferInv, StoreInv, NEW id \in Page, Load(id)
    PROVE  StoreInv' /\ Store0!Load
<1> DEFINE e == Entry(Contents(disk)[id], FALSE)
<1>1. /\ phase = "up" /\ ~disk.fail
      /\ id \in DOMAIN disk.m_pageIndex /\ id \notin DOMAIN m_buffer
      /\ AddEntry(disk, id, e, {}) /\ disk'.m_nextPage <= MaxPage
      /\ UNCHANGED <<phase, m_bWriteThrough, indexFile>>
  BY DEF Load, Bounded
<1>2. e.array = Contents(disk)[id] /\ ~e.m_bDirty
  BY DEF Entry
<1> HIDE DEF e
<1>3. EntryOK(disk, id, e, m_bWriteThrough)
  BY <1>1, <1>2 DEF EntryOK
<1>4. Good(disk) /\ Only(disk, disk, {})
  BY <1>1, OnlySame DEF BufferInv
<1>5. /\ StoreInv' /\ Store0!Touch({})
      /\ \A x : x # id => Same(disk, m_buffer, disk', m_buffer', x)
      /\ \/ id \in DOMAIN m_buffer' /\ m_buffer'[id] = e
         \/ /\ m_buffer' = m_buffer /\ disk'.fail
            /\ id \in DOMAIN disk'.m_pageIndex <=> id \in DOMAIN disk.m_pageIndex
            /\ id \in DOMAIN disk.m_pageIndex => Contents(disk')[id] = Contents(disk)[id]
  BY <1>1, <1>2, <1>3, <1>4, AddEntryStep
<1>6. Same(disk, m_buffer, disk', m_buffer', id)
  <2>1. CASE id \in DOMAIN m_buffer' /\ m_buffer'[id] = e
    BY <1>1, <1>2, <2>1, SameSeen
  <2>2. CASE m_buffer' = m_buffer
    BY <1>1, <1>2, <1>5, <2>2, SameSeen
  <2>3. QED
    BY <1>5, <2>1, <2>2
<1>7. \A x : Same(disk, m_buffer, disk', m_buffer', x)
  BY <1>5, <1>6
<1>8. Arrays' = Arrays
  BY <1>1, <1>7, SameAll, RunningArrays
<1>9. QED
  BY <1>5, <1>8 DEF Store0!Load

\* storeByteArray under NewPage: what the manager makes of it before the entry comes in.
LEMMA StoreNewPuts ==
    ASSUME BufferInv, StoreInv, NEW a, a \in Array, StoreNew(a),
           NEW d, d = Put(disk, <<>>, a), NEW id, id = Pages(disk, <<>>, Len(a))[1]
    PROVE  /\ phase = "up" /\ ~disk.fail /\ AddEntry(d, id, Entry(a, FALSE), {id})
           /\ disk'.m_nextPage <= MaxPage /\ UNCHANGED <<phase, m_bWriteThrough, indexFile>>
           /\ Good(d) /\ Only(disk, d, {id}) /\ Holds(d, id, a) /\ d.fail = disk.fail
           /\ id \in Page /\ id \notin DOMAIN disk.m_pageIndex /\ id \notin DOMAIN m_buffer
<1>1. /\ phase = "up" /\ ~disk.fail /\ AddEntry(d, id, Entry(a, FALSE), {id})
      /\ disk'.m_nextPage <= MaxPage /\ UNCHANGED <<phase, m_bWriteThrough, indexFile>>
  BY DEF StoreNew, Bounded
<1>2. Good(disk) /\ DirtyStored
  BY <1>1 DEF BufferInv
<1>3. PICK old : old = <<>>
  OBVIOUS
<1>4. OfTable(disk, old) /\ d = Put(disk, old, a) /\ id = Pages(disk, old, Len(a))[1]
  BY <1>3 DEF OfTable
<1>5. Good(d)
  BY <1>2, <1>4, PutGood
<1>6. d.m_nextPage <= MaxPage
  BY <1>1, <1>2, <1>5, AddEntryBounded
<1>7. /\ Only(disk, d, {id}) /\ id \in Page /\ Holds(d, id, a)
      /\ old # <<>> => id = old[1]
      /\ old = <<>> => id \notin DOMAIN disk.m_pageIndex
      /\ d.fail = disk.fail
      /\ disk.m_nextPage <= MaxPage
  BY <1>2, <1>4, <1>6, PutOnly
<1>8. id \notin DOMAIN disk.m_pageIndex
  BY <1>3, <1>7
<1>9. id \notin DOMAIN m_buffer
  BY <1>1, <1>8 DEF StoreInv, Entries, EntryOK
<1>10. QED
  BY <1>1, <1>5, <1>7, <1>8, <1>9

LEMMA StoreNewStep ==
    ASSUME BufferInv, StoreInv, NEW a \in Array, StoreNew(a)
    PROVE  /\ StoreInv' /\ \E id \in Page : Store0!Store(id)
           /\ disk'.fail \/ \E id \in DOMAIN Seen' \ DOMAIN Seen : Seen'[id] = a
<1>1. PICK d : d = Put(disk, <<>>, a)
  OBVIOUS
<1>2. PICK id : id = Pages(disk, <<>>, Len(a))[1]
  OBVIOUS
<1>3. PICK e : e = Entry(a, FALSE)
  OBVIOUS
<1>4. PICK S : S = {id}
  OBVIOUS
<1>5. /\ phase = "up" /\ ~disk.fail /\ AddEntry(d, id, e, S)
      /\ disk'.m_nextPage <= MaxPage /\ UNCHANGED <<phase, m_bWriteThrough, indexFile>>
      /\ Good(d) /\ Only(disk, d, S) /\ Holds(d, id, a) /\ d.fail = disk.fail
      /\ id \in Page /\ id \notin DOMAIN disk.m_pageIndex /\ id \notin DOMAIN m_buffer
  BY <1>1, <1>2, <1>3, <1>4, StoreNewPuts
<1>6. e.array = a /\ ~e.m_bDirty
  BY <1>3 DEF Entry
<1>7. EntryOK(d, id, e, m_bWriteThrough)
  BY <1>5, <1>6 DEF EntryOK, Holds
<1>8. /\ StoreInv' /\ Store0!Touch(S)
      /\ \A x : x # id => Same(disk, m_buffer, disk', m_buffer', x)
      /\ \/ id \in DOMAIN m_buffer' /\ m_buffer'[id] = e
         \/ /\ m_buffer' = m_buffer /\ disk'.fail
            /\ id \in DOMAIN disk'.m_pageIndex <=> id \in DOMAIN d.m_pageIndex
            /\ id \in DOMAIN d.m_pageIndex => Contents(disk')[id] = Contents(d)[id]
  BY <1>4, <1>5, <1>6, <1>7, AddEntryStep
<1>9. Store0!Store(id)
  BY <1>4, <1>5, <1>8, OneStored
<1>10. disk'.fail \/ (id \in DOMAIN Seen' \ DOMAIN Seen /\ Seen'[id] = a)
  <2>1. id \notin DOMAIN Seen
    BY <1>5 DEF Seen, View
  <2>2. CASE id \in DOMAIN m_buffer' /\ m_buffer'[id] = e
    <3>1. id \in DOMAIN Seen' /\ Seen'[id] = a
      BY <1>6, <2>2 DEF Seen, View
    <3>2. QED
      BY <2>1, <3>1
  <2>3. QED
    BY <1>8, <2>2
<1>11. QED
  BY <1>5, <1>8, <1>9, <1>10

LEMMA StoreNewFailsStep ==
    ASSUME BufferInv, StoreInv, NEW a \in Array, StoreNewFails(a)
    PROVE  StoreInv' /\ Store0!Load
<1>1. PICK n \in FailAt(disk, a) : disk' = PutFails(disk, <<>>, a, n)
  BY DEF StoreNewFails
<1>2. /\ phase = "up" /\ disk'.m_nextPage <= MaxPage
      /\ UNCHANGED <<phase, m_buffer, m_bWriteThrough, indexFile, safe, touched>>
  BY DEF StoreNewFails, Bounded
<1>3. n \in Nat \ {0}
  BY LengthOfArray DEF FailAt
<1>4. Good(disk) /\ OfTable(disk, <<>>)
  BY <1>2 DEF BufferInv, OfTable
<1>5. PICK old : old = <<>>
  OBVIOUS
<1>6. Only(disk, disk', IdOf(old)) /\ disk'.fail
  BY <1>1, <1>2, <1>3, <1>4, <1>5, PutFailsOnly
<1>7. PICK S : S = {}
  OBVIOUS
<1>8. Only(disk, disk', S)
  BY <1>5, <1>6, <1>7 DEF IdOf
<1>9. Touched(S)
  <2>1. safe = [id \in DOMAIN safe |-> safe[id]]
    BY DEF StoreInv
  <2>2. DOMAIN safe \ S = DOMAIN safe
    BY <1>7
  <2>3. QED
    BY <1>2, <1>7, <2>1, <2>2 DEF Touched
<1>10. ASSUME NEW x \in DOMAIN m_buffer' PROVE EntryOK(disk', x, m_buffer'[x], m_bWriteThrough)
  <2>1. EntryOK(disk, x, m_buffer[x], m_bWriteThrough) /\ x \notin S /\ m_buffer' = m_buffer
    BY <1>2, <1>7 DEF StoreInv, Entries
  <2>2. EntryOK(disk', x, m_buffer[x], m_bWriteThrough)
    BY <1>6, <1>8, <2>1, EntryKept
  <2>3. QED
    BY <2>1, <2>2
<1>11. Only(disk, disk', touched') /\ Entries(disk', m_buffer', m_bWriteThrough) /\ DirtyTouched'
  <2>1. S \subseteq touched'
    BY <1>7
  <2>2. QED
    BY <1>2, <1>8, <1>10, <2>1, OnlyMore DEF Entries, StoreInv, DirtyTouched
<1>12. StoreInv'
  BY <1>2, <1>9, <1>11, RunningKeeps
<1>13. Store0!Touch(S)
  <2>1. S \subseteq S /\ S \subseteq S \cup touched
    OBVIOUS
  <2>2. QED
    BY <1>2, <1>6, <1>9, <1>12, <2>1, RunningTouches
<1>14. ASSUME NEW x PROVE Same(disk, m_buffer, disk', m_buffer', x)
  <2>1. /\ x \in DOMAIN disk'.m_pageIndex <=> x \in DOMAIN disk.m_pageIndex
        /\ x \in DOMAIN disk.m_pageIndex => Contents(disk')[x] = Contents(disk)[x]
    BY <1>7, <1>8, OnlyContents
  <2>2. CASE x \in DOMAIN m_buffer
    BY <1>2, <2>2, SameSeen
  <2>3. CASE x \notin DOMAIN m_buffer
    BY <1>2, <2>1, <2>3, SameSeen
  <2>4. QED
    BY <2>2, <2>3
<1>15. Arrays' = Arrays
  BY <1>2, <1>14, SameAll, RunningArrays
<1>16. QED
  BY <1>7, <1>12, <1>13, <1>15 DEF Store0!Load

\* A step that touches id, and changes the disk and the buffer in its array only.
LEMMA OneTouched ==
    ASSUME StoreInv, phase # "down", phase' # "down", UNCHANGED <<m_bWriteThrough, indexFile>>,
           NEW id, NEW S, S = {id}, Touched(S), Only(disk, disk', S), disk'.m_nextPage <= MaxPage,
           disk.fail => disk'.fail,
           \A x \in DOMAIN m_buffer' : x # id => x \in DOMAIN m_buffer /\ m_buffer'[x] = m_buffer[x],
           \A x \in DOMAIN m_buffer : x # id => x \in DOMAIN m_buffer',
           id \in DOMAIN m_buffer' => EntryOK(disk', id, m_buffer'[id], m_bWriteThrough)
    PROVE  /\ StoreInv'
           /\ \A x : x # id => Same(disk, m_buffer, disk', m_buffer', x)
           /\ Store0!Touch(S)
<1>1. touched' = touched \cup S
  BY DEF Touched
<1>2. ASSUME NEW x \in DOMAIN m_buffer' PROVE EntryOK(disk', x, m_buffer'[x], m_bWriteThrough)
  <2>1. CASE x # id
    <3>1. EntryOK(disk, x, m_buffer[x], m_bWriteThrough) /\ x \notin S /\ m_buffer'[x] = m_buffer[x]
      BY <2>1 DEF StoreInv, Entries
    <3>2. EntryOK(disk', x, m_buffer[x], m_bWriteThrough)
      BY <3>1, EntryKept
    <3>3. QED
      BY <3>1, <3>2
  <2>2. QED
    BY <2>1
<1>3. Only(disk, disk', touched') /\ Entries(disk', m_buffer', m_bWriteThrough) /\ DirtyTouched'
  <2>1. S \subseteq touched'
    BY <1>1
  <2>2. QED
    BY <1>1, <1>2, <2>1, OnlyMore DEF Entries, StoreInv, DirtyTouched
<1>4. \A x \in DOMAIN m_buffer' :
          x \in DOMAIN m_buffer \/ x \in DOMAIN disk.m_pageIndex \/ x \in touched'
  BY <1>1
<1>5. StoreInv'
  BY <1>3, <1>4, RunningKeeps
<1>6. Store0!Touch(S)
  <2>1. S \subseteq S /\ S \subseteq S \cup touched
    OBVIOUS
  <2>2. QED
    BY <1>5, <2>1, RunningTouches
<1>7. ASSUME NEW x, x # id PROVE Same(disk, m_buffer, disk', m_buffer', x)
  <2>1. /\ x \in DOMAIN disk'.m_pageIndex <=> x \in DOMAIN disk.m_pageIndex
        /\ x \in DOMAIN disk.m_pageIndex => Contents(disk')[x] = Contents(disk)[x]
    BY <1>7, OnlyContents
  <2>2. CASE x \in DOMAIN m_buffer
    BY <1>7, <2>2, SameSeen
  <2>3. CASE x \notin DOMAIN m_buffer
    BY <1>7, <2>1, <2>3, SameSeen
  <2>4. QED
    BY <2>2, <2>3
<1>8. QED
  BY <1>5, <1>6, <1>7

\* storeByteArray under an id in use.
LEMMA StoreStep ==
    ASSUME BufferInv, StoreInv, NEW a \in Array, NEW id \in Page, Store(id, a)
    PROVE  /\ StoreInv' /\ Store0!Store(id)
           /\ disk'.fail \/ Seen'[id] = a
<1> DEFINE e == Entry(a, ~m_bWriteThrough)
<1>1. PICK d : d = IF m_bWriteThrough THEN Overwrite(disk, id, a) ELSE disk
  OBVIOUS
<1>2. /\ phase = "up" /\ id \in DOMAIN View(disk, m_buffer)
      /\ m_bWriteThrough => CanOverwrite(disk, id)
      /\ IF id \in DOMAIN m_buffer
         THEN disk' = d /\ m_buffer' = With(m_buffer, id, e) /\ Touched({id})
         ELSE AddEntry(d, id, e, {id})
      /\ disk'.m_nextPage <= MaxPage
      /\ UNCHANGED <<phase, m_bWriteThrough, indexFile>>
  BY <1>1 DEF Store, Bounded
<1>3. e.array = a /\ (e.m_bDirty <=> ~m_bWriteThrough)
  BY DEF Entry
<1> HIDE DEF e
<1>4. Good(disk) /\ DirtyStored /\ a \in Array
  BY <1>2 DEF BufferInv
<1>5. Good(d)
  BY <1>1, <1>2, <1>4, OverwriteGood
<1>6. d.m_nextPage <= MaxPage
  BY <1>2, <1>4, <1>5, AddEntryBounded
<1>7. PICK S : S = {id}
  OBVIOUS
<1>8. /\ Only(disk, d, S) /\ d.fail = disk.fail /\ ~(m_bWriteThrough /\ d.fail)
      /\ m_bWriteThrough => id \in DOMAIN d.m_pageIndex /\ Contents(d)[id] = a
      /\ ~m_bWriteThrough => d = disk
  <2>1. CASE m_bWriteThrough
    <3>1. d = Overwrite(disk, id, a) /\ CanOverwrite(disk, id)
      BY <1>1, <1>2, <2>1
    <3>2. /\ Only(disk, d, {id}) /\ Holds(d, id, a)
          /\ d.fail = disk.fail
      <4>1. /\ Good(disk) /\ CanOverwrite(disk, id) /\ a \in Array
            /\ d = Overwrite(disk, id, a) /\ d.m_nextPage <= MaxPage
        BY <1>4, <1>6, <3>1
      <4>2. QED
        BY <4>1, OverwriteOnly
    <3>3. ~disk.fail
      BY <3>1 DEF CanOverwrite
    <3>4. QED
      BY <1>7, <2>1, <3>2, <3>3 DEF Holds
  <2>2. CASE ~m_bWriteThrough
    BY <1>1, <2>2, OnlySame
  <2>3. QED
    BY <2>1, <2>2
<1>9. EntryOK(d, id, e, m_bWriteThrough)
  <2>1. CASE m_bWriteThrough
    BY <1>3, <1>8, <2>1 DEF EntryOK
  <2>2. CASE ~m_bWriteThrough
    <3>1. ~d.fail => id \in DOMAIN d.m_pageIndex
      <4>1. id \in DOMAIN disk.m_pageIndex \/ id \in DOMAIN m_buffer
        BY <1>2 DEF View
      <4>2. id \in DOMAIN m_buffer => EntryOK(disk, id, m_buffer[id], m_bWriteThrough)
        BY DEF StoreInv, Entries
      <4>3. QED
        BY <1>8, <2>2, <4>1, <4>2 DEF EntryOK
    <3>2. QED
      BY <1>3, <2>2, <3>1 DEF EntryOK
  <2>3. QED
    BY <2>1, <2>2
<1>10. phase # "down" /\ phase' # "down"
  BY <1>2
<1>11. CASE id \in DOMAIN m_buffer
  <2>1. disk' = d /\ m_buffer' = With(m_buffer, id, e) /\ Touched(S)
    BY <1>2, <1>7, <1>11
  <2>2. /\ id \in DOMAIN m_buffer' /\ m_buffer'[id] = e
        /\ \A x \in DOMAIN m_buffer' : x # id => x \in DOMAIN m_buffer /\ m_buffer'[x] = m_buffer[x]
        /\ \A x \in DOMAIN m_buffer : x # id => x \in DOMAIN m_buffer'
    BY <2>1 DEF With
  <2>3. Only(disk, disk', S) /\ (disk.fail => disk'.fail)
    BY <1>8, <2>1
  <2>4. id \in DOMAIN m_buffer' => EntryOK(disk', id, m_buffer'[id], m_bWriteThrough)
    BY <1>9, <2>1, <2>2
  <2>5. /\ StoreInv' /\ Store0!Touch(S)
        /\ \A x : x # id => Same(disk, m_buffer, disk', m_buffer', x)
    BY <1>2, <1>7, <1>10, <2>1, <2>2, <2>3, <2>4, OneTouched
  <2>6. Store0!Store(id)
    BY <1>7, <1>10, <2>5, OneStored
  <2>7. Seen'[id] = a
    BY <1>3, <2>2 DEF Seen, View
  <2>8. QED
    BY <2>5, <2>6, <2>7
<1>12. CASE id \notin DOMAIN m_buffer
  <2>1. AddEntry(d, id, e, S)
    BY <1>2, <1>7, <1>12
  <2>2. S \subseteq {id} /\ id \in S
    BY <1>7
  <2>3. /\ StoreInv' /\ Store0!Touch(S)
        /\ \A x : x # id => Same(disk, m_buffer, disk', m_buffer', x)
        /\ \/ id \in DOMAIN m_buffer' /\ m_buffer'[id] = e
           \/ /\ m_buffer' = m_buffer /\ disk'.fail
              /\ id \in DOMAIN disk'.m_pageIndex <=> id \in DOMAIN d.m_pageIndex
              /\ id \in DOMAIN d.m_pageIndex => Contents(disk')[id] = Contents(d)[id]
    BY <1>2, <1>5, <1>8, <1>9, <1>10, <1>12, <2>1, <2>2, AddEntryStep
  <2>4. Store0!Store(id)
    BY <1>7, <1>10, <2>3, OneStored
  <2>5. disk'.fail \/ Seen'[id] = a
    <3>1. id \in DOMAIN m_buffer' /\ m_buffer'[id] = e => Seen'[id] = a
      BY <1>3 DEF Seen, View
    <3>2. QED
      BY <2>3, <3>1
  <2>6. QED
    BY <2>3, <2>4, <2>5
<1>13. QED
  BY <1>11, <1>12

LEMMA StoreFailsStep ==
    ASSUME BufferInv, StoreInv, NEW a \in Array, NEW id \in Page, StoreFails(id, a)
    PROVE  StoreInv' /\ Store0!Store(id)
<1>1. /\ phase = "up" /\ m_bWriteThrough /\ id \in DOMAIN View(disk, m_buffer)
      /\ disk' \in OverwriteFails(disk, id, a) /\ Touched({id})
      /\ disk'.m_nextPage <= MaxPage
      /\ UNCHANGED <<phase, m_buffer, m_bWriteThrough, indexFile>>
  BY DEF StoreFails, Bounded
<1>2. Good(disk) /\ a \in Array
  BY <1>1 DEF BufferInv
<1>3. PICK S : S = {id}
  OBVIOUS
<1>4. /\ Only(disk, disk', {id}) /\ id \notin DOMAIN disk'.m_pageIndex
      /\ IF id \in DOMAIN disk.m_pageIndex THEN disk'.fail ELSE disk' = disk
  BY <1>1, <1>2, OverwriteFailsOnly
<1>5. disk.fail => disk'.fail
  BY <1>4
<1>6. ASSUME id \in DOMAIN m_buffer' PROVE EntryOK(disk', id, m_buffer'[id], m_bWriteThrough)
  <2>1. EntryOK(disk, id, m_buffer[id], m_bWriteThrough) /\ m_buffer' = m_buffer
    BY <1>1, <1>6 DEF StoreInv, Entries
  <2>2. QED
    BY <1>1, <1>4, <2>1 DEF EntryOK
<1>7. phase # "down" /\ phase' # "down"
  BY <1>1
<1>8. Touched(S) /\ Only(disk, disk', S)
  BY <1>1, <1>3, <1>4
<1>9. /\ StoreInv' /\ Store0!Touch(S)
      /\ \A x : x # id => Same(disk, m_buffer, disk', m_buffer', x)
  BY <1>1, <1>3, <1>5, <1>6, <1>7, <1>8, OneTouched
<1>10. Store0!Store(id)
  BY <1>3, <1>7, <1>9, OneStored
<1>11. QED
  BY <1>9, <1>10

LEMMA DeleteStep ==
    ASSUME BufferInv, StoreInv, NEW id \in Page, Delete(id)
    PROVE  StoreInv' /\ Store0!Store(id)
<1>1. /\ phase = "up" /\ m_buffer' = Without(m_buffer, id)
      /\ disk' = IF id \in DOMAIN disk.m_pageIndex THEN Erase(disk, id) ELSE disk
      /\ Touched({id}) /\ UNCHANGED <<phase, m_bWriteThrough, indexFile>>
  BY DEF Delete
<1>2. Good(disk)
  BY <1>1 DEF BufferInv
<1>3. PICK S : S = {id}
  OBVIOUS
<1>4. Only(disk, disk', S) /\ disk'.fail = disk.fail /\ disk'.m_nextPage = disk.m_nextPage
  BY <1>1, <1>2, <1>3, EraseOnly, OnlySame
<1>5. phase # "down" /\ phase' # "down"
  BY <1>1
<1>6. disk'.m_nextPage <= MaxPage
  BY <1>4, <1>5 DEF StoreInv
<1>7. /\ id \notin DOMAIN m_buffer'
      /\ \A x \in DOMAIN m_buffer' : x # id => x \in DOMAIN m_buffer /\ m_buffer'[x] = m_buffer[x]
      /\ \A x \in DOMAIN m_buffer : x # id => x \in DOMAIN m_buffer'
  BY <1>1 DEF Without
<1>8. Touched(S)
  BY <1>1, <1>3
<1>9. /\ StoreInv' /\ Store0!Touch(S)
      /\ \A x : x # id => Same(disk, m_buffer, disk', m_buffer', x)
  BY <1>1, <1>3, <1>4, <1>5, <1>6, <1>7, <1>8, OneTouched
<1>10. Store0!Store(id)
  BY <1>3, <1>5, <1>9, OneStored
<1>11. QED
  BY <1>9, <1>10

\* A write of clear or of the destructor: the trees do not see it.
LEMMA WriteBackStep ==
    ASSUME BufferInv, StoreInv, NEW id \in Page, WriteBack(id)
    PROVE  StoreInv' /\ Store0!Load
<1>1. PICK a : a = m_buffer[id].array
  OBVIOUS
<1>2. /\ phase \in {"clearing", "closing"} /\ id \in DOMAIN m_buffer /\ m_buffer[id].m_bDirty
      /\ CanOverwrite(disk, id) /\ disk' = Overwrite(disk, id, a)
      /\ m_buffer' = Without(m_buffer, id) /\ Touched({id})
      /\ disk'.m_nextPage <= MaxPage
      /\ UNCHANGED <<phase, m_bWriteThrough, indexFile>>
  BY <1>1 DEF WriteBack, FirstToWrite, Bounded
<1>3. Good(disk) /\ a \in Array /\ id \in touched
  BY <1>1, <1>2 DEF BufferInv, DirtyStored, StoreInv, DirtyTouched
<1>4. PICK S : S = {id}
  OBVIOUS
<1>5. /\ Only(disk, disk', {id}) /\ id \in DOMAIN disk'.m_pageIndex /\ Contents(disk')[id] = a
      /\ disk'.fail = disk.fail
  <2>1. PICK f : f = disk'
    OBVIOUS
  <2>2. /\ Good(disk) /\ CanOverwrite(disk, id) /\ a \in Array
        /\ f = Overwrite(disk, id, a) /\ f.m_nextPage <= MaxPage
    BY <1>2, <1>3, <2>1
  <2>3. /\ Only(disk, f, {id}) /\ Holds(f, id, a)
        /\ f.fail = disk.fail
    BY <2>2, OverwriteOnly
  <2>4. QED
    BY <2>1, <2>3 DEF Holds
<1>6. phase # "down" /\ phase' # "down"
  BY <1>2
<1>7. /\ id \notin DOMAIN m_buffer'
      /\ \A x \in DOMAIN m_buffer' : x # id => x \in DOMAIN m_buffer /\ m_buffer'[x] = m_buffer[x]
      /\ \A x \in DOMAIN m_buffer : x # id => x \in DOMAIN m_buffer'
  BY <1>2 DEF Without
<1>8. Touched(S) /\ Only(disk, disk', S)
  BY <1>2, <1>4, <1>5
<1>9. /\ StoreInv'
      /\ \A x : x # id => Same(disk, m_buffer, disk', m_buffer', x)
  BY <1>2, <1>4, <1>5, <1>6, <1>7, <1>8, OneTouched
<1>10. PICK S0 : S0 = {}
  OBVIOUS
<1>11. Store0!Touch(S0)
  <2>1. S0 \subseteq S /\ S \subseteq S0 \cup touched
    BY <1>3, <1>4, <1>10
  <2>2. QED
    BY <1>5, <1>6, <1>8, <1>9, <2>1, RunningTouches
<1>12. Same(disk, m_buffer, disk', m_buffer', id)
  BY <1>1, <1>2, <1>5, <1>7, SameSeen
<1>13. \A x : Same(disk, m_buffer, disk', m_buffer', x)
  BY <1>9, <1>12
<1>14. Arrays' = Arrays
  BY <1>6, <1>13, SameAll, RunningArrays
<1>15. QED
  BY <1>9, <1>10, <1>11, <1>14 DEF Store0!Load

LEMMA ClearStep ==
    ASSUME StoreInv, Clear
    PROVE  StoreInv' /\ UNCHANGED Store0!vars
<1>1. /\ phase # "down" /\ phase' # "down"
      /\ UNCHANGED <<disk, m_buffer, m_bWriteThrough, indexFile, safe, touched>>
  BY DEF Clear
<1>2. StoreInv'
  BY <1>1 DEF StoreInv, DirtyTouched, BufferOnly, FileTable
<1>3. UNCHANGED <<Arrays, BufferOnly, Running>>
  BY <1>1, RunningArrays DEF BufferOnly, Running
<1>4. QED
  BY <1>1, <1>2, <1>3 DEF Store0!vars

\* The end of clear: the trees no longer see what only the buffer had.
LEMMA ClearedStep ==
    ASSUME StoreInv, Cleared
    PROVE  StoreInv' /\ (Store0!Forget \/ UNCHANGED Store0!vars)
<1>1. /\ phase # "down" /\ phase' # "down" /\ AllWritten /\ m_buffer' = <<>>
      /\ UNCHANGED <<disk, m_bWriteThrough, indexFile, safe, touched>>
  BY DEF Cleared
<1>2. DOMAIN m_buffer' = {}
  BY <1>1
<1>3. StoreInv'
  BY <1>1, <1>2 DEF StoreInv, DirtyTouched, BufferOnly, FileTable, Entries
<1>4. Arrays = View(disk, m_buffer) /\ Arrays' = Contents(disk)
  BY <1>1, RunningArrays, ViewEmpty
<1>5. DOMAIN Contents(disk) = DOMAIN disk.m_pageIndex
      /\ Contents(disk) = [x \in DOMAIN disk.m_pageIndex |-> Contents(disk)[x]]
  BY DEF Contents
<1>6. ASSUME NEW x \in DOMAIN disk.m_pageIndex PROVE View(disk, m_buffer)[x] = Contents(disk)[x]
  <2>1. CASE x \in DOMAIN m_buffer
    <3>1. EntryOK(disk, x, m_buffer[x], m_bWriteThrough) /\ ~m_buffer[x].m_bDirty
      BY <1>1, <2>1 DEF StoreInv, Entries, AllWritten
    <3>2. m_buffer[x].array = Contents(disk)[x]
      BY <3>1 DEF EntryOK
    <3>3. QED
      BY <2>1, <3>2 DEF View
  <2>2. CASE x \notin DOMAIN m_buffer
    BY <2>2 DEF View
  <2>3. QED
    BY <2>1, <2>2
<1>7. DOMAIN View(disk, m_buffer) \ BufferOnly = DOMAIN disk.m_pageIndex
  BY DEF View, BufferOnly
<1>8. Arrays' = Store0!Restricted(Arrays, BufferOnly)
  BY <1>4, <1>5, <1>6, <1>7 DEF Store0!Restricted
<1>9. BufferOnly' = {} /\ Running' = Running
  BY <1>1, <1>2 DEF BufferOnly, Running
<1>10. CASE disk.fail
  BY <1>1, <1>3, <1>8, <1>9, <1>10 DEF Store0!Forget, Running
<1>11. CASE ~disk.fail
  <2>1. \A x \in DOMAIN m_buffer : x \in DOMAIN disk.m_pageIndex
    BY <1>11 DEF StoreInv, Entries, EntryOK
  <2>2. BufferOnly = {}
    BY <2>1 DEF BufferOnly
  <2>3. Arrays' = Arrays
    <3>1. DOMAIN View(disk, m_buffer) = DOMAIN disk.m_pageIndex
      BY <1>7, <2>2
    <3>2. View(disk, m_buffer) = [x \in DOMAIN View(disk, m_buffer) |-> View(disk, m_buffer)[x]]
      BY DEF View
    <3>3. QED
      BY <1>4, <1>5, <1>6, <3>1, <3>2
  <2>4. QED
    BY <1>1, <1>3, <1>9, <2>2, <2>3 DEF Store0!vars
<1>12. QED
  BY <1>10, <1>11
-----------------------------------------------------------------------------
(* Ends and starts                                                         *)

\* The arrays of an index file are those of its table.
LEMMA FileArrays ==
    ASSUME NEW file, NEW data, NEW table, table = (IF file.valid THEN file.table ELSE <<>>)
    PROVE  (IF file.valid THEN Contents(Opened(file, data)) ELSE <<>>) = On(table, data)
<1>1. CASE file.valid
  <2>1. Opened(file, data).m_pageIndex = table /\ Opened(file, data).data = data
    BY <1>1 DEF Opened
  <2>2. QED
    BY <1>1, <2>1 DEF Contents, On
<1>2. CASE ~file.valid
  <2>1. table = <<>> /\ DOMAIN table = {}
    BY <1>2
  <2>2. On(table, data) = <<>>
    BY <2>1 DEF On
  <2>3. QED
    BY <1>2, <2>2
<1>3. QED
  BY <1>1, <1>2

LEMMA DownArrays ==
    /\ phase = "down" => Arrays = On(FileTable, disk.data)
    /\ phase' = "down" => Arrays' = On(FileTable', disk'.data)
<1>1. phase = "down" => Arrays = On(FileTable, disk.data)
  BY FileArrays DEF Arrays, FileTable
<1>2. phase' = "down" => Arrays' = On(FileTable', disk'.data)
  BY FileArrays DEF Arrays, FileTable
<1>3. QED
  BY <1>1, <1>2

\* The program ended, and the disk has what is safe.
LEMMA EndKeeps ==
    ASSUME phase' = "down", m_buffer' = <<>>, disk'.m_pageIndex = <<>>,
           indexFile'.valid => indexFile'.next <= MaxPage,
           safe' = [id \in DOMAIN FileTable' \ touched' |-> On(FileTable', disk'.data)[id]]
    PROVE  StoreInv' /\ BufferOnly' = {} /\ Store0!Restricted(Arrays', touched') = safe'
<1>1. DOMAIN m_buffer' = {}
  OBVIOUS
<1>2. StoreInv'
  BY <1>1 DEF StoreInv, Entries, DirtyTouched, BufferOnly
<1>3. Arrays' = On(FileTable', disk'.data)
  BY DownArrays
<1>4. Store0!Restricted(Arrays', touched') = safe'
  <2>1. PICK O : O = On(FileTable', disk'.data)
    OBVIOUS
  <2>2. DOMAIN O = DOMAIN FileTable'
    BY <2>1 DEF On
  <2>3. Arrays' = O /\ safe' = [id \in DOMAIN FileTable' \ touched' |-> O[id]]
    BY <1>3, <2>1
  <2>4. QED
    BY <2>2, <2>3 DEF Store0!Restricted
<1>5. QED
  BY <1>1, <1>2, <1>4 DEF BufferOnly

\* An end that does not write the index file.
LEMMA FailKeeps ==
    ASSUME StoreInv, phase # "down", phase' = "down", m_buffer' = <<>>, disk'.m_pageIndex = <<>>,
           UNCHANGED indexFile, NEW S, S \subseteq touched, Touched(S),
           \A x \in DOMAIN FileTable \ touched : \A n \in DOMAIN FileTable[x] :
               disk'.data[FileTable[x][n]] = disk.data[FileTable[x][n]]
    PROVE  StoreInv' /\ Store0!Fail
<1>1. PICK FT : FT = FileTable
  OBVIOUS
<1>2. safe = [id \in DOMAIN FT \ touched |-> On(FT, disk.data)[id]]
  BY <1>1 DEF StoreInv
<1>3. touched' = touched /\ safe' = safe
  <2>1. touched' = touched /\ DOMAIN safe \ S = DOMAIN safe
    BY <1>2 DEF Touched
  <2>2. safe' = [id \in DOMAIN safe |-> safe[id]]
    BY <2>1 DEF Touched
  <2>3. QED
    BY <1>2, <2>1, <2>2
<1>4. FileTable' = FT /\ FileTable = FT
  BY <1>1 DEF FileTable
<1>5. \A x \in DOMAIN FT \ touched : On(FT, disk'.data)[x] = On(FT, disk.data)[x]
  BY <1>4 DEF On
<1>6. safe' = [id \in DOMAIN FileTable' \ touched' |-> On(FileTable', disk'.data)[id]]
  BY <1>2, <1>3, <1>4, <1>5
<1>7. indexFile'.valid => indexFile'.next <= MaxPage
  BY DEF StoreInv
<1>8. StoreInv' /\ BufferOnly' = {} /\ Store0!Restricted(Arrays', touched') = safe'
  BY <1>6, <1>7, EndKeeps
<1>9. Running # "down" /\ Running' = "down"
  BY DEF Running
<1>10. QED
  BY <1>3, <1>8, <1>9 DEF Store0!Fail

LEMMA WriteBackFailsStep ==
    ASSUME BufferInv, StoreInv, NEW id \in Page, WriteBackFails(id)
    PROVE  StoreInv' /\ Store0!Fail
<1>1. PICK a : a = m_buffer[id].array
  OBVIOUS
<1>2. /\ phase \in {"clearing", "closing"} /\ id \in DOMAIN m_buffer /\ m_buffer[id].m_bDirty
      /\ phase' = "down" /\ m_buffer' = <<>> /\ Touched({id}) /\ UNCHANGED indexFile
  BY DEF WriteBackFails, FirstToWrite
<1>3. PICK d \in OverwriteFails(disk, id, a) : d.m_nextPage <= MaxPage /\ disk' = Gone(d.data)
  BY <1>1 DEF WriteBackFails
<1>4. Good(disk) /\ a \in Array /\ id \in touched
  BY <1>1, <1>2 DEF BufferInv, DirtyStored, StoreInv, DirtyTouched
<1>5. PICK S : S = {id}
  OBVIOUS
<1>6. Only(disk, d, S)
  <2>1. Good(disk) /\ a \in Array /\ d \in OverwriteFails(disk, id, a) /\ d.m_nextPage <= MaxPage
    BY <1>3, <1>4
  <2>2. Only(disk, d, {id})
    BY <2>1, OverwriteFailsOnly
  <2>3. QED
    BY <1>5, <2>2
<1>7. disk'.m_pageIndex = <<>> /\ disk'.data = d.data
  BY <1>3 DEF Gone, Fresh
<1>8. S \subseteq touched /\ Touched(S) /\ phase # "down"
  BY <1>2, <1>4, <1>5
<1>9. ASSUME NEW x \in DOMAIN FileTable \ touched, NEW n \in DOMAIN FileTable[x]
      PROVE  disk'.data[FileTable[x][n]] = disk.data[FileTable[x][n]]
  <2>1. x \in DOMAIN disk.m_pageIndex /\ disk.m_pageIndex[x] = FileTable[x]
    BY <1>8, <1>9 DEF StoreInv, Kept
  <2>2. x \in DOMAIN disk.m_pageIndex \ S
    BY <1>8, <1>9, <2>1
  <2>3. QED
    BY <1>6, <1>7, <2>1, <2>2 DEF Only
<1>10. QED
  BY <1>2, <1>7, <1>8, <1>9, FailKeeps

LEMMA CrashStep ==
    ASSUME BufferInv, StoreInv, Crash
    PROVE  StoreInv' /\ Store0!Fail
<1>1. /\ phase # "down" /\ phase' = "down" /\ m_buffer' = <<>>
      /\ UNCHANGED <<indexFile, safe, touched>>
  BY DEF Crash
<1>2. PICK lost \in SUBSET disk.behind :
          disk' = Gone([p \in Page |-> IF p \in lost THEN NULL ELSE disk.data[p]])
  BY DEF Crash
<1>3. disk'.m_pageIndex = <<>> /\ disk'.data = [p \in Page |-> IF p \in lost THEN NULL ELSE disk.data[p]]
  BY <1>2 DEF Gone, Fresh
<1>4. PICK S : S = {}
  OBVIOUS
<1>5. S \subseteq touched /\ Touched(S)
  <2>1. safe = [id \in DOMAIN safe |-> safe[id]]
    BY DEF StoreInv
  <2>2. DOMAIN safe \ S = DOMAIN safe
    BY <1>4
  <2>3. QED
    BY <1>1, <1>4, <2>1, <2>2 DEF Touched
<1>6. ASSUME NEW x \in DOMAIN FileTable \ touched, NEW n \in DOMAIN FileTable[x]
      PROVE  disk'.data[FileTable[x][n]] = disk.data[FileTable[x][n]]
  <2>1. /\ x \in DOMAIN disk.m_pageIndex /\ disk.m_pageIndex[x] = FileTable[x]
        /\ FileTable[x][n] \notin disk.behind
    BY <1>1, <1>6 DEF StoreInv, Kept
  <2>2. /\ Sound(disk.m_pageIndex, disk.m_emptyPages, disk.m_nextPage)
        /\ disk.m_nextPage <= MaxPage
    BY <1>1 DEF BufferInv, StoreInv, Good, SoundManager
  <2>3. \A m \in DOMAIN disk.m_pageIndex[x] : disk.m_pageIndex[x][m] \in Page
    BY <2>1, <2>2, TablePages
  <2>4. FileTable[x][n] \in Page
    BY <1>6, <2>1, <2>3
  <2>5. QED
    BY <1>2, <1>3, <2>1, <2>4
<1>7. QED
  BY <1>1, <1>3, <1>5, <1>6, FailKeeps

\* What is stored when every dirty array was written and no write failed: what the disk has.
LEMMA AllBelow ==
    ASSUME StoreInv, phase # "down", AllWritten, ~disk.fail
    PROVE  Arrays = Contents(disk) /\ BufferOnly = {}
<1>1. ASSUME NEW x \in DOMAIN m_buffer
      PROVE  x \in DOMAIN disk.m_pageIndex /\ m_buffer[x].array = Contents(disk)[x]
  BY DEF StoreInv, Entries, EntryOK, AllWritten
<1>2. BufferOnly = {}
  BY <1>1 DEF BufferOnly
<1>3. DOMAIN disk.m_pageIndex \cup DOMAIN m_buffer = DOMAIN disk.m_pageIndex
  BY <1>1
<1>4. View(disk, m_buffer) = [x \in DOMAIN disk.m_pageIndex |-> Contents(disk)[x]]
  BY <1>1, <1>3 DEF View
<1>5. Arrays = Contents(disk)
  BY <1>4 DEF Arrays, Contents
<1>6. QED
  BY <1>2, <1>5

LEMMA CloseStep ==
    ASSUME StoreInv, Close
    PROVE  StoreInv' /\ (Store0!Sync \/ Store0!Fail)
<1>1. /\ phase = "closing" /\ AllWritten /\ phase' = "down" /\ m_buffer' = <<>>
      /\ indexFile' = IndexFile(disk) /\ disk' = Gone(disk.data)
      /\ IF disk.fail THEN UNCHANGED <<safe, touched>>
         ELSE safe' = Contents(disk) /\ touched' = {}
  BY DEF Close
<1>2. PICK I, data : I = disk.m_pageIndex /\ data = disk.data
  OBVIOUS
<1>3. disk'.m_pageIndex = <<>> /\ disk'.data = data
  BY <1>1, <1>2 DEF Gone, Fresh
<1>4. FileTable' = I /\ (indexFile'.valid => indexFile'.next <= MaxPage)
  BY <1>1, <1>2 DEF FileTable, IndexFile, StoreInv
<1>5. Contents(disk) = On(I, data)
  BY <1>2 DEF Contents, On
<1>6. CASE ~disk.fail
  <2>1. safe' = Contents(disk) /\ touched' = {}
    BY <1>1, <1>6
  <2>2. safe' = [id \in DOMAIN FileTable' \ touched' |-> On(FileTable', disk'.data)[id]]
    <3>1. DOMAIN I \ touched' = DOMAIN I
      BY <2>1
    <3>2. On(I, data) = [id \in DOMAIN I |-> On(I, data)[id]]
      BY DEF On
    <3>3. QED
      BY <1>3, <1>4, <1>5, <2>1, <3>1, <3>2
  <2>3. StoreInv' /\ BufferOnly' = {}
    BY <1>1, <1>3, <1>4, <2>2, EndKeeps
  <2>4. Arrays = Contents(disk) /\ BufferOnly = {}
    BY <1>1, <1>6, AllBelow
  <2>5. Arrays' = Arrays
    BY <1>1, <1>3, <1>4, <1>5, <2>4, DownArrays
  <2>6. Running = "up" /\ Running' = "down"
    BY <1>1, <1>6 DEF Running
  <2>7. QED
    BY <2>1, <2>3, <2>4, <2>5, <2>6 DEF Store0!Sync
<1>7. CASE disk.fail
  <2>1. safe' = safe /\ touched' = touched
    BY <1>1, <1>7
  <2>2. PICK FT : FT = FileTable
    OBVIOUS
  <2>3. /\ safe = [id \in DOMAIN FT \ touched |-> On(FT, data)[id]]
        /\ \A id \in (DOMAIN FT \cup DOMAIN I) \ touched :
              id \in DOMAIN FT /\ id \in DOMAIN I /\ I[id] = FT[id]
    BY <1>1, <1>2, <2>2 DEF StoreInv, Kept
  <2>4. DOMAIN FT \ touched = DOMAIN I \ touched
    BY <2>3
  <2>5. \A id \in DOMAIN I \ touched : On(FT, data)[id] = On(I, data)[id]
    BY <2>3 DEF On
  <2>6. safe = [id \in DOMAIN I \ touched |-> On(I, data)[id]]
    BY <2>3, <2>4, <2>5
  <2>7. safe' = [id \in DOMAIN FileTable' \ touched' |-> On(FileTable', disk'.data)[id]]
    BY <1>3, <1>4, <2>1, <2>6
  <2>8. StoreInv' /\ BufferOnly' = {} /\ Store0!Restricted(Arrays', touched') = safe'
    BY <1>1, <1>3, <1>4, <2>7, EndKeeps
  <2>9. Running # "down" /\ Running' = "down"
    BY <1>1 DEF Running
  <2>10. QED
    BY <2>1, <2>8, <2>9 DEF Store0!Fail
<1>8. QED
  BY <1>6, <1>7

LEMMA OpenStep ==
    ASSUME StoreInv, Open
    PROVE  StoreInv' /\ Store0!Open
<1>1. /\ phase = "down" /\ indexFile.valid /\ phase' = "up" /\ disk' = Opened(indexFile, disk.data)
      /\ UNCHANGED <<m_buffer, indexFile, safe, touched>>
  BY DEF Open
<1>2. /\ disk'.m_pageIndex = indexFile.table /\ disk'.m_nextPage = indexFile.next
      /\ disk'.data = disk.data /\ disk'.behind = {} /\ disk'.fail = FALSE
  BY <1>1 DEF Opened
<1>3. m_buffer = <<>> /\ m_buffer' = <<>> /\ DOMAIN m_buffer' = {} /\ DOMAIN m_buffer = {}
  BY <1>1 DEF StoreInv
<1>4. PICK FT : FT = FileTable
  OBVIOUS
<1>5. FileTable' = FT /\ FT = indexFile.table
  BY <1>1, <1>4 DEF FileTable
<1>6. disk'.m_nextPage <= MaxPage /\ Kept(disk', FileTable', touched')
  BY <1>1, <1>2, <1>5 DEF StoreInv, Kept
<1>7. safe' = [id \in DOMAIN FileTable' \ touched' |-> On(FileTable', disk'.data)[id]]
  BY <1>1, <1>2, <1>4, <1>5 DEF StoreInv
<1>8. StoreInv'
  BY <1>1, <1>3, <1>6, <1>7 DEF StoreInv, Entries, DirtyTouched, BufferOnly
<1>9. Arrays' = Arrays
  <2>1. Arrays' = View(disk', <<>>)
    BY <1>1, <1>3 DEF Arrays
  <2>2. PICK d : d = disk'
    OBVIOUS
  <2>3. View(d, <<>>) = Contents(d)
    BY ViewEmpty
  <2>4. Arrays = Contents(Opened(indexFile, disk.data))
    BY <1>1 DEF Arrays
  <2>5. QED
    BY <1>1, <2>1, <2>2, <2>3, <2>4
<1>10. BufferOnly = {} /\ BufferOnly' = {} /\ Running = "down" /\ Running' = "up"
  BY <1>1, <1>2, <1>3 DEF BufferOnly, Running
<1>11. QED
  BY <1>1, <1>8, <1>9, <1>10 DEF Store0!Open

\* The files made anew.
LEMMA FreshIs ==
    /\ Fresh.m_pageIndex = <<>> /\ Fresh.m_nextPage = 0 /\ Fresh.fail = FALSE /\ Fresh.behind = {}
    /\ View(Fresh, <<>>) = <<>>
<1>1. Fresh.m_pageIndex = <<>> /\ Fresh.m_nextPage = 0 /\ Fresh.fail = FALSE /\ Fresh.behind = {}
  BY DEF Fresh
<1>2. DOMAIN <<>> = {} /\ {} \cup {} = {}
  OBVIOUS
<1>3. View(Fresh, <<>>) = <<>>
  <2>1. PICK d : d = Fresh
    OBVIOUS
  <2>2. DOMAIN d.m_pageIndex \cup DOMAIN <<>> = {}
    BY <1>1, <1>2, <2>1
  <2>3. View(d, <<>>) = <<>>
    BY <2>2 DEF View
  <2>4. QED
    BY <2>1, <2>3
<1>4. QED
  BY <1>1, <1>3

\* The state of a storage that was just made satisfies the invariant.
LEMMA FreshKeeps ==
    ASSUME phase = "up", disk = Fresh, m_buffer = <<>>, indexFile = NoFile, safe = <<>>, touched = {}
    PROVE  StoreInv /\ Arrays = <<>> /\ BufferOnly = {} /\ Running = "up"
<1>1. DOMAIN m_buffer = {} /\ FileTable = <<>> /\ DOMAIN FileTable = {}
  BY DEF FileTable, NoFile
<1>2. disk.m_pageIndex = <<>> /\ disk.m_nextPage = 0 /\ disk.fail = FALSE /\ DOMAIN disk.m_pageIndex = {}
  BY FreshIs
<1>3. Kept(disk, FileTable, touched)
  BY <1>1, <1>2 DEF Kept
<1>4. safe = [id \in DOMAIN FileTable \ touched |-> On(FileTable, disk.data)[id]]
  BY <1>1
<1>5. disk.m_nextPage <= MaxPage /\ ~indexFile.valid
  BY <1>2, BoundAssumption DEF NoFile
<1>6. StoreInv
  BY <1>1, <1>3, <1>4, <1>5 DEF StoreInv, Entries, DirtyTouched, BufferOnly
<1>7. Arrays = <<>>
  BY FreshIs DEF Arrays
<1>8. QED
  BY <1>1, <1>2, <1>6, <1>7 DEF BufferOnly, Running

LEMMA CreateStep ==
    ASSUME StoreInv, Create
    PROVE  StoreInv' /\ Store0!Create
<1>1. /\ phase = "down" /\ phase' = "up" /\ disk' = Fresh /\ indexFile' = NoFile
      /\ safe' = <<>> /\ touched' = {} /\ m_buffer' = <<>>
  BY DEF Create, StoreInv
<1>2. DOMAIN m_buffer' = {} /\ FileTable' = <<>> /\ DOMAIN FileTable' = {}
  BY <1>1 DEF FileTable, NoFile
<1>3. disk'.m_pageIndex = <<>> /\ disk'.m_nextPage = 0 /\ disk'.fail = FALSE /\ DOMAIN disk'.m_pageIndex = {}
  BY <1>1, FreshIs
<1>4. Kept(disk', FileTable', touched')
  BY <1>2, <1>3 DEF Kept
<1>5. safe' = [id \in DOMAIN FileTable' \ touched' |-> On(FileTable', disk'.data)[id]]
  BY <1>1, <1>2
<1>6. disk'.m_nextPage <= MaxPage /\ ~indexFile'.valid
  BY <1>1, <1>3, BoundAssumption DEF NoFile
<1>7. StoreInv'
  BY <1>1, <1>2, <1>4, <1>5, <1>6 DEF StoreInv, Entries, DirtyTouched, BufferOnly
<1>8. Arrays' = <<>>
  BY <1>1, FreshIs DEF Arrays
<1>9. BufferOnly' = {} /\ Running = "down" /\ Running' = "up"
  BY <1>1, <1>2, <1>3 DEF BufferOnly, Running
<1>10. QED
  BY <1>1, <1>7, <1>8, <1>9 DEF Store0!Create
-----------------------------------------------------------------------------
LEMMA StoreInit == BufferInit => StoreInv /\ Store0!Init
  BY FreshKeeps DEF BufferInit, Store0!Init

\* Every step keeps the invariant and is a step of the store above, or none of it.
LEMMA StoreNext ==
    ASSUME BufferInv, StoreInv, [BufferNext]_bufferVars
    PROVE  StoreInv' /\ [Store0!Next]_(Store0!vars)
<1>1. ASSUME NEW a \in Array, StoreNew(a) PROVE StoreInv' /\ Store0!Next
  BY <1>1, StoreNewStep DEF Store0!Next
<1>2. ASSUME NEW a \in Array, StoreNewFails(a) PROVE StoreInv' /\ Store0!Next
  BY <1>2, StoreNewFailsStep DEF Store0!Next
<1>3. ASSUME NEW a \in Array, NEW id \in Page, Store(id, a) PROVE StoreInv' /\ Store0!Next
  BY <1>3, StoreStep DEF Store0!Next
<1>4. ASSUME NEW a \in Array, NEW id \in Page, StoreFails(id, a) PROVE StoreInv' /\ Store0!Next
  BY <1>4, StoreFailsStep DEF Store0!Next
<1>5. ASSUME NEW id \in Page, Load(id) PROVE StoreInv' /\ Store0!Next
  BY <1>5, LoadStep DEF Store0!Next
<1>6. ASSUME NEW id \in Page, Delete(id) PROVE StoreInv' /\ Store0!Next
  BY <1>6, DeleteStep DEF Store0!Next
<1>7. ASSUME NEW id \in Page, WriteBack(id) PROVE StoreInv' /\ Store0!Next
  BY <1>7, WriteBackStep DEF Store0!Next
<1>8. ASSUME NEW id \in Page, WriteBackFails(id) PROVE StoreInv' /\ Store0!Next
  BY <1>8, WriteBackFailsStep DEF Store0!Next
<1>9. CASE Clear
  BY <1>9, ClearStep
<1>10. CASE Cleared
  BY <1>10, ClearedStep DEF Store0!Next
<1>11. CASE Close
  BY <1>11, CloseStep DEF Store0!Next
<1>12. CASE Crash
  BY <1>12, CrashStep DEF Store0!Next
<1>13. CASE Open
  BY <1>13, OpenStep DEF Store0!Next
<1>14. CASE Create
  BY <1>14, CreateStep DEF Store0!Next
<1>15. CASE UNCHANGED bufferVars
  <2>1. UNCHANGED <<phase, disk, m_buffer, m_bWriteThrough, indexFile, safe, touched>>
    BY <1>15 DEF bufferVars
  <2>2. StoreInv'
    BY <2>1 DEF StoreInv, DirtyTouched, BufferOnly, FileTable
  <2>3. UNCHANGED Store0!vars
    BY <2>1 DEF Store0!vars, Arrays, BufferOnly, Running
  <2>4. QED
    BY <2>2, <2>3
<1>16. QED
  BY <1>1, <1>2, <1>3, <1>4, <1>5, <1>6, <1>7, <1>8, <1>9, <1>10, <1>11, <1>12, <1>13, <1>14,
     <1>15 DEF BufferNext

\* Buffer and manager together implement the abstract store: through every eviction and
\* reuse of pages each id has the array stored under it last, and a failure harms no
\* array but those touched since the program last ended.
THEOREM StoreImplemented == BufferSpec => ImplementsStore
<1>1. BufferInv /\ StoreInv /\ [BufferNext]_bufferVars => StoreInv' /\ [Store0!Next]_(Store0!vars)
  BY StoreNext
<1>2. BufferInv /\ StoreInv /\ [BufferNext]_bufferVars
      => [\A a \in Array :
             /\ StoreNew(a) => \/ disk'.fail
                               \/ \E id \in DOMAIN Seen' \ DOMAIN Seen : Seen'[id] = a
             /\ \A id \in Page : Store(id, a) => disk'.fail \/ Seen'[id] = a]_bufferVars
  BY StoreNewStep, StoreStep
<1>3. QED
  BY <1>1, <1>2, StoreInit, InvariantInit, InvariantNext, PTL
     DEF BufferSpec, ImplementsStore, StoresWhatItIsGiven, Store0!Spec
-----------------------------------------------------------------------------
(* Type correctness, and the capacity of the buffer                        *)

Content == Block \cup {NULL}

DataOK(data) == data \in [Page -> Content]

BufferOK(b) ==
    /\ \A id \in DOMAIN b :
          id \in Page /\ b[id].array \in Seq(Content) /\ b[id].m_bDirty \in BOOLEAN
    /\ Cardinality(DOMAIN b) <= m_capacity

LEMMA WrittenTyped ==
    ASSUME NEW data, DataOK(data), NEW ps, NEW a \in Array, NEW n \in Nat, n <= Len(a)
    PROVE  DataOK(Written(data, ps, a, n))
<1>1. a \in Seq(Block) /\ DOMAIN a = 1 .. Len(a) /\ Len(a) \in Nat
  BY ArrayAssumption
<1>2. ASSUME NEW p \in Page PROVE Written(data, ps, a, n)[p] \in Content
  <2>1. CASE \E k \in 1 .. n : ps[k] = p
    <3>1. PICK k \in 1 .. n : k = CHOOSE m \in 1 .. n : ps[m] = p
      BY <2>1
    <3>2. a[k] \in Block
      BY <1>1
    <3>3. Written(data, ps, a, n)[p] = a[k]
      BY <2>1, <3>1 DEF Written
    <3>4. QED
      BY <3>2, <3>3 DEF Content
  <2>2. CASE ~\E k \in 1 .. n : ps[k] = p
    BY <2>2 DEF Written, DataOK
  <2>3. QED
    BY <2>1, <2>2
<1>3. Written(data, ps, a, n) = [p \in Page |-> Written(data, ps, a, n)[p]]
  BY DEF Written
<1>4. QED
  BY <1>2, <1>3 DEF DataOK

LEMMA PutTyped ==
    ASSUME NEW d, Good(d), DataOK(d.data), NEW old, NEW a \in Array
    PROVE  DataOK(Put(d, old, a).data)
<1>1. Put(d, old, a).data = Written(d.data, Pages(d, old, Len(a)), a, Len(a))
  BY DEF Put, Touch, Good, IsManager
<1>2. Len(a) \in Nat /\ Len(a) <= Len(a)
  BY LengthOfArray
<1>3. QED
  BY <1>1, <1>2, WrittenTyped

LEMMA PutFailsTyped ==
    ASSUME NEW d, Good(d), DataOK(d.data), NEW old, NEW a \in Array, NEW n \in FailAt(d, a)
    PROVE  DataOK(PutFails(d, old, a, n).data)
<1>1. n - 1 \in Nat /\ n - 1 <= Len(a)
  BY LengthOfArray DEF FailAt
<1> DEFINE ps == Pages(d, old, n)
           w == Written(d.data, ps, a, n - 1)
<1>2. PutFails(d, old, a, n).data = [p \in Page |-> IF p = ps[n] /\ ~d.fail THEN NULL ELSE w[p]]
  BY DEF PutFails, Touch, Good, IsManager
<1>3. DataOK(w)
  BY <1>1, WrittenTyped
<1> HIDE DEF w, ps
<1>4. QED
  BY <1>2, <1>3 DEF DataOK, Content

LEMMA OverwriteTyped ==
    ASSUME NEW d, Good(d), DataOK(d.data), NEW id, NEW a \in Array
    PROVE  /\ DataOK(Overwrite(d, id, a).data)
           /\ \A e \in OverwriteFails(d, id, a) : DataOK(e.data)
  BY PutTyped, PutFailsTyped DEF Overwrite, OverwriteFails

LEMMA ContentsTyped ==
    ASSUME NEW d, Good(d), d.m_nextPage <= MaxPage, DataOK(d.data), NEW id \in DOMAIN d.m_pageIndex
    PROVE  Contents(d)[id] \in Seq(Content)
<1>1. Sound(d.m_pageIndex, d.m_emptyPages, d.m_nextPage)
  BY DEF Good, SoundManager
<1> DEFINE ps == d.m_pageIndex[id]
<1>2. /\ DOMAIN ps = 1 .. Len(ps) /\ Len(ps) \in Nat
      /\ \A n \in DOMAIN ps : ps[n] \in Page
  <2>1. ps \in Seq(Nat)
    BY <1>1 DEF Sound
  <2>2. QED
    BY <1>1, <2>1, TablePages
<1> HIDE DEF ps
<1>3. Contents(d)[id] = [n \in 1 .. Len(ps) |-> d.data[ps[n]]]
  BY <1>2 DEF Contents, ps
<1>4. \A n \in 1 .. Len(ps) : d.data[ps[n]] \in Content
  BY <1>2 DEF DataOK
<1>5. QED
  BY <1>2, <1>3, <1>4

\* The buffer with an entry more, in place of another, or under the same id.
LEMMA FiniteBuffer ==
    ASSUME NEW b, BufferOK(b)
    PROVE  IsFiniteSet(DOMAIN b) /\ Cardinality(DOMAIN b) \in Nat
<1>1. IsFiniteSet(Page)
  BY FS_Interval, BoundAssumption DEF Page
<1>2. DOMAIN b \subseteq Page
  BY DEF BufferOK
<1>3. QED
  BY <1>1, <1>2, FS_Subset, FS_CardinalityType

EntryTyped(e) == e.array \in Seq(Content) /\ e.m_bDirty \in BOOLEAN

LEMMA WithoutTyped ==
    ASSUME NEW b, BufferOK(b), NEW id
    PROVE  /\ BufferOK(Without(b, id))
           /\ id \in DOMAIN b => Cardinality(DOMAIN Without(b, id)) < m_capacity
<1>1. DOMAIN Without(b, id) = DOMAIN b \ {id}
      /\ \A x \in DOMAIN Without(b, id) : Without(b, id)[x] = b[x]
  BY DEF Without
<1>2. /\ Cardinality(DOMAIN b \ {id}) \in Nat /\ Cardinality(DOMAIN b) \in Nat
      /\ Cardinality(DOMAIN b \ {id}) = IF id \in DOMAIN b THEN Cardinality(DOMAIN b) - 1
                                        ELSE Cardinality(DOMAIN b)
  BY FiniteBuffer, FS_RemoveElement, FS_CardinalityType
<1>3. m_capacity \in Nat /\ Cardinality(DOMAIN b) <= m_capacity
  BY CapacityAssumption DEF BufferOK
<1>4. QED
  BY <1>1, <1>2, <1>3 DEF BufferOK

LEMMA WithTyped ==
    ASSUME NEW b, BufferOK(b), NEW id \in Page, NEW e, EntryTyped(e),
           id \in DOMAIN b \/ Cardinality(DOMAIN b) < m_capacity
    PROVE  BufferOK(With(b, id, e))
<1>1. DOMAIN With(b, id, e) = DOMAIN b \cup {id}
      /\ \A x \in DOMAIN With(b, id, e) : With(b, id, e)[x] = IF x = id THEN e ELSE b[x]
  BY DEF With
<1>2. /\ Cardinality(DOMAIN b) \in Nat
      /\ Cardinality(DOMAIN b \cup {id}) = IF id \in DOMAIN b THEN Cardinality(DOMAIN b)
                                           ELSE Cardinality(DOMAIN b) + 1
  BY FiniteBuffer, FS_AddElement
<1>3. m_capacity \in Nat /\ Cardinality(DOMAIN b) <= m_capacity
  BY CapacityAssumption DEF BufferOK
<1>4. Cardinality(DOMAIN With(b, id, e)) <= m_capacity
  BY <1>1, <1>2, <1>3
<1>5. QED
  BY <1>1, <1>4 DEF BufferOK, EntryTyped

LEMMA AddEntryTyped ==
    ASSUME NEW d, Good(d), DirtyStored, DataOK(d.data), BufferOK(m_buffer), touched \subseteq Page,
           NEW id \in Page, id \notin DOMAIN m_buffer, NEW e, EntryTyped(e), NEW S, S \subseteq Page,
           AddEntry(d, id, e, S)
    PROVE  DataOK(disk'.data) /\ BufferOK(m_buffer') /\ touched' \subseteq Page
<1>1. CASE /\ Cardinality(DOMAIN m_buffer) < m_capacity
           /\ disk' = d /\ m_buffer' = With(m_buffer, id, e) /\ Touched(S)
  BY <1>1, WithTyped DEF Touched
<1>2. ASSUME NEW out \in DOMAIN m_buffer, m_buffer' = With(Without(m_buffer, out), id, e)
      PROVE  BufferOK(m_buffer')
  <2>1. PICK w : w = Without(m_buffer, out)
    OBVIOUS
  <2>2. BufferOK(w) /\ Cardinality(DOMAIN w) < m_capacity
    BY <2>1, WithoutTyped
  <2>3. QED
    BY <1>2, <2>1, <2>2, WithTyped
<1>3. ASSUME NEW out \in DOMAIN m_buffer PROVE out \in Page
  BY DEF BufferOK
<1>4. ASSUME NEW out \in DOMAIN m_buffer, disk' = d,
             m_buffer' = With(Without(m_buffer, out), id, e), Touched(S)
      PROVE  DataOK(disk'.data) /\ BufferOK(m_buffer') /\ touched' \subseteq Page
  BY <1>2, <1>4 DEF Touched
<1>5. ASSUME NEW out \in DOMAIN m_buffer, m_buffer[out].m_bDirty,
             \/ /\ disk' = Overwrite(d, out, m_buffer[out].array)
                /\ m_buffer' = With(Without(m_buffer, out), id, e)
             \/ /\ disk' \in OverwriteFails(d, out, m_buffer[out].array)
                /\ UNCHANGED m_buffer,
             Touched(S \cup {out})
      PROVE  DataOK(disk'.data) /\ BufferOK(m_buffer') /\ touched' \subseteq Page
  <2>1. m_buffer[out].array \in Array /\ out \in Page
    BY <1>3, <1>5 DEF DirtyStored
  <2>2. DataOK(disk'.data)
    BY <1>5, <2>1, OverwriteTyped
  <2>3. BufferOK(m_buffer')
    BY <1>2, <1>5
  <2>4. touched' \subseteq Page
    BY <1>5, <2>1 DEF Touched
  <2>5. QED
    BY <2>2, <2>3, <2>4
<1>6. QED
  BY <1>1, <1>4, <1>5 DEF AddEntry

LEMMA ArrayTyped ==
    ASSUME NEW a \in Array, NEW dirty \in BOOLEAN
    PROVE  EntryTyped(Entry(a, dirty))
<1>1. a \in Seq(Content)
  BY ArrayAssumption DEF Content
<1>2. QED
  BY <1>1 DEF EntryTyped, Entry

TypeInv ==
    /\ phase \in {"up", "clearing", "closing", "down"}
    /\ m_bWriteThrough \in BOOLEAN
    /\ BufferOK(m_buffer)
    /\ DataOK(disk.data)
    /\ touched \subseteq Page
    /\ phase = "down" => disk.m_nextPage = 0

LEMMA TypeInit == BufferInit => TypeInv
<1> SUFFICES ASSUME BufferInit PROVE TypeInv
  OBVIOUS
<1>1. DOMAIN m_buffer = {} /\ Cardinality({}) = 0
  BY FS_EmptySet DEF BufferInit
<1>2. BufferOK(m_buffer)
  BY <1>1, CapacityAssumption DEF BufferOK
<1>3. DataOK(disk.data)
  BY DEF BufferInit, Fresh, DataOK, Content
<1>4. QED
  BY <1>2, <1>3 DEF BufferInit, TypeInv

LEMMA TypeNext ==
    ASSUME BufferInv, StoreInv, TypeInv, [BufferNext]_bufferVars
    PROVE  TypeInv'
<1> USE DEF TypeInv
<1>0. /\ DirtyStored
      /\ \A id \in DOMAIN m_buffer : id \in Page
      /\ phase # "down" => Good(disk) /\ disk.m_nextPage <= MaxPage
      /\ BufferOK(<<>>)
  <2>1. DOMAIN <<>> = {} /\ Cardinality({}) = 0
    BY FS_EmptySet
  <2>2. BufferOK(<<>>)
    BY <2>1, CapacityAssumption DEF BufferOK
  <2>3. QED
    BY <2>2 DEF BufferInv, StoreInv, BufferOK
<1>1. ASSUME NEW a \in Array, StoreNew(a) PROVE TypeInv'
  <2>1. PICK d : d = Put(disk, <<>>, a)
    OBVIOUS
  <2>2. PICK id : id = Pages(disk, <<>>, Len(a))[1]
    OBVIOUS
  <2>3. PICK e : e = Entry(a, FALSE)
    OBVIOUS
  <2>4. /\ AddEntry(d, id, e, {id}) /\ Good(d) /\ id \in Page /\ id \notin DOMAIN m_buffer
        /\ phase = "up" /\ UNCHANGED <<phase, m_bWriteThrough, indexFile>>
    BY <1>1, <2>1, <2>2, <2>3, StoreNewPuts
  <2>5. DataOK(d.data) /\ EntryTyped(e) /\ {id} \subseteq Page
    BY <1>0, <2>1, <2>3, <2>4, PutTyped, ArrayTyped
  <2>6. DataOK(disk'.data) /\ BufferOK(m_buffer') /\ touched' \subseteq Page
    BY <1>0, <2>4, <2>5, AddEntryTyped
  <2>7. QED
    BY <2>4, <2>6
<1>2. ASSUME NEW a \in Array, StoreNewFails(a) PROVE TypeInv'
  <2>1. PICK n \in FailAt(disk, a) : disk' = PutFails(disk, <<>>, a, n)
    BY <1>2 DEF StoreNewFails
  <2>2. DataOK(disk'.data)
    BY <1>0, <1>2, <2>1, PutFailsTyped DEF StoreNewFails
  <2>3. QED
    BY <1>2, <2>2 DEF StoreNewFails
<1>3. ASSUME NEW a \in Array, NEW id \in Page, Store(id, a) PROVE TypeInv'
  <2>1. PICK d : d = IF m_bWriteThrough THEN Overwrite(disk, id, a) ELSE disk
    OBVIOUS
  <2>2. PICK e : e = Entry(a, ~m_bWriteThrough)
    OBVIOUS
  <2>3. /\ phase = "up" /\ (m_bWriteThrough => CanOverwrite(disk, id))
        /\ IF id \in DOMAIN m_buffer
           THEN disk' = d /\ m_buffer' = With(m_buffer, id, e) /\ Touched({id})
           ELSE AddEntry(d, id, e, {id})
        /\ UNCHANGED <<phase, m_bWriteThrough, indexFile>>
    BY <1>3, <2>1, <2>2 DEF Store
  <2>4. EntryTyped(e)
    BY <2>2, ArrayTyped
  <2>5. Good(d) /\ DataOK(d.data)
    BY <1>0, <2>1, <2>3, OverwriteGood, OverwriteTyped
  <2>6. CASE id \in DOMAIN m_buffer
    <3>1. BufferOK(m_buffer')
      BY <2>3, <2>4, <2>6, WithTyped
    <3>2. QED
      BY <2>3, <2>5, <2>6, <3>1 DEF Touched
  <2>7. CASE id \notin DOMAIN m_buffer
    <3>1. AddEntry(d, id, e, {id}) /\ {id} \subseteq Page
      BY <2>3, <2>7
    <3>2. DataOK(disk'.data) /\ BufferOK(m_buffer') /\ touched' \subseteq Page
      BY <1>0, <2>4, <2>5, <2>7, <3>1, AddEntryTyped
    <3>3. QED
      BY <2>3, <3>2
  <2>8. QED
    BY <2>6, <2>7
<1>4. ASSUME NEW a \in Array, NEW id \in Page, StoreFails(id, a) PROVE TypeInv'
  <2>1. DataOK(disk'.data)
    BY <1>0, <1>4, OverwriteTyped DEF StoreFails
  <2>2. QED
    BY <1>4, <2>1 DEF StoreFails, Touched
<1>5. ASSUME NEW id \in Page, Load(id) PROVE TypeInv'
  <2>1. PICK e : e = Entry(Contents(disk)[id], FALSE)
    OBVIOUS
  <2>2. /\ phase = "up" /\ id \in DOMAIN disk.m_pageIndex /\ id \notin DOMAIN m_buffer
        /\ AddEntry(disk, id, e, {}) /\ {} \subseteq Page
        /\ UNCHANGED <<phase, m_bWriteThrough, indexFile>>
    BY <1>5, <2>1 DEF Load
  <2>3. EntryTyped(e)
    BY <1>0, <2>1, <2>2, ContentsTyped DEF EntryTyped, Entry
  <2>4. DataOK(disk'.data) /\ BufferOK(m_buffer') /\ touched' \subseteq Page
    BY <1>0, <2>2, <2>3, AddEntryTyped
  <2>5. QED
    BY <2>2, <2>4
<1>6. ASSUME NEW id \in Page, Delete(id) PROVE TypeInv'
  <2>1. disk'.data = disk.data
    BY <1>0, <1>6 DEF Delete, Erase, Good, IsManager
  <2>2. BufferOK(m_buffer')
    BY <1>6, WithoutTyped DEF Delete
  <2>3. QED
    BY <1>6, <2>1, <2>2 DEF Delete, Touched
<1>7. ASSUME NEW id \in Page, WriteBack(id) PROVE TypeInv'
  <2>1. DataOK(disk'.data)
    BY <1>0, <1>7, OverwriteTyped DEF WriteBack, FirstToWrite, DirtyStored
  <2>2. BufferOK(m_buffer')
    BY <1>7, WithoutTyped DEF WriteBack
  <2>3. QED
    BY <1>7, <2>1, <2>2 DEF WriteBack, FirstToWrite, Touched
\* Ends and starts.
<1>8. ASSUME NEW data, DataOK(data), disk' = Gone(data), phase' = "down", m_buffer' = <<>>,
             m_bWriteThrough' \in BOOLEAN, touched' \subseteq Page
      PROVE  TypeInv'
  <2>1. disk'.data = data /\ disk'.m_nextPage = 0
    BY <1>8 DEF Gone, Fresh
  <2>2. QED
    BY <1>0, <1>8, <2>1
<1>9. ASSUME NEW id \in Page, WriteBackFails(id) PROVE TypeInv'
  <2>1. PICK d \in OverwriteFails(disk, id, m_buffer[id].array) : disk' = Gone(d.data)
    BY <1>9 DEF WriteBackFails
  <2>2. DataOK(d.data)
    BY <1>0, <1>9, <2>1, OverwriteTyped DEF WriteBackFails, FirstToWrite, DirtyStored
  <2>3. QED
    BY <1>8, <1>9, <2>1, <2>2 DEF WriteBackFails, Touched
<1>10. CASE Clear \/ Cleared
  BY <1>0, <1>10 DEF Clear, Cleared
<1>11. CASE Close
  BY <1>8, <1>11 DEF Close
<1>12. CASE Crash
  <2>1. PICK lost \in SUBSET disk.behind :
            disk' = Gone([p \in Page |-> IF p \in lost THEN NULL ELSE disk.data[p]])
    BY <1>12 DEF Crash
  <2>2. DataOK([p \in Page |-> IF p \in lost THEN NULL ELSE disk.data[p]])
    BY DEF DataOK, Content
  <2>3. QED
    BY <1>8, <1>12, <2>1, <2>2 DEF Crash
<1>13. CASE Open
  <2>1. disk'.data = disk.data
    BY <1>13 DEF Open, Opened
  <2>2. QED
    BY <1>13, <2>1 DEF Open
<1>14. CASE Create
  <2>1. DataOK(disk'.data)
    BY <1>14 DEF Create, Fresh, DataOK, Content
  <2>2. QED
    BY <1>14, <2>1 DEF Create
<1>15. CASE UNCHANGED bufferVars
  BY <1>15 DEF bufferVars
<1>16. QED
  BY <1>1, <1>2, <1>3, <1>4, <1>5, <1>6, <1>7, <1>9, <1>10, <1>11, <1>12, <1>13, <1>14, <1>15
     DEF BufferNext

\* Pages and buffer hold contents of pages only, no page lies behind the end of the file, and
\* however entries come and leave, the buffer never has more than m_capacity.
THEOREM BufferTypeCorrect == BufferSpec => []BufferTypeOK
<1>1. BufferInv /\ StoreInv /\ TypeInv => BufferTypeOK
  <2> SUFFICES ASSUME BufferInv, StoreInv, TypeInv PROVE BufferTypeOK
    OBVIOUS
  <2>1. disk.m_nextPage \in 0 .. MaxPage
    <3>1. CASE phase = "down"
      BY <3>1, BoundAssumption DEF TypeInv
    <3>2. CASE phase # "down"
      <4>1. disk.m_nextPage \in Nat /\ disk.m_nextPage <= MaxPage
        BY <3>2 DEF BufferInv, StoreInv, Good, SoundManager, Sound
      <4>2. QED
        BY <4>1, BoundAssumption
    <3>3. QED
      BY <3>1, <3>2
  <2>2. QED
    BY <2>1 DEF TypeInv, BufferTypeOK, BufferOK, DataOK, Content
<1>2. BufferInv /\ StoreInv /\ [BufferNext]_bufferVars => StoreInv'
  BY StoreNext
<1>3. BufferInv /\ StoreInv /\ TypeInv /\ [BufferNext]_bufferVars => TypeInv'
  BY TypeNext
<1>4. QED
  BY <1>1, <1>2, <1>3, StoreInit, TypeInit, InvariantInit, InvariantNext, PTL DEF BufferSpec
=============================================================================
