------------------------- MODULE CommentStreamProofs -----------------------
(***************************************************************************)
(* Proof that the cursor of CommentStream skips nothing, for every page    *)
(* size, whatever is written between two pages and whenever pages fail.    *)
(***************************************************************************)
EXTENDS CommentStream, FiniteSetTheorems, TLAPS

Comments == [id : Nat, updated : Nat]

TypeInv ==
  /\ comments \subseteq Comments /\ IsFiniteSet(comments)
  /\ got \subseteq Comments /\ answered \subseteq Comments
  /\ now \in Nat /\ cursor \in Nat /\ since \in Nat
  /\ page \in Nat \ {0}
  /\ pc \in {"idle", "walk", "sorted"} /\ shifted \in BOOLEAN

(* No two comments share a second, and none is of the future.              *)
StampInv ==
  /\ cursor <= now
  /\ \A c \in comments \cup got : c.updated <= now
  /\ \A c, d \in comments : c.updated = d.updated => c = d

(* The pages read so far hold every comment that stands on one of them:    *)
(* whatever is written meanwhile goes to a page that is still to come.     *)
WalkInv ==
  pc = "walk" =>
    /\ since = cursor
    /\ ~shifted =>
         /\ (page - 1) * PageSize <= Cardinality(Listed)
         /\ \A c \in Listed : Before(c) < (page - 1) * PageSize => c \in got

(* What is ahead of the cursor is in the batch or newer than all of it.    *)
BatchInv ==
  pc = "sorted" /\ ~shifted =>
    \A c \in comments :
      c.updated <= cursor \/ c \in got \/ \A d \in got : d.updated < c.updated

Inv == TypeInv /\ StampInv /\ WalkInv /\ BatchInv /\ NothingSkipped

-----------------------------------------------------------------------------
(* How many comments stand before one is a number.                         *)
LEMMA CountsAreNumbers ==
  ASSUME TypeInv
  PROVE  /\ IsFiniteSet(Listed) /\ Cardinality(Listed) \in Nat
         /\ \A c \in Listed : Before(c) \in Nat
<1>1. IsFiniteSet(Listed)
  BY FS_Subset DEF TypeInv, Listed
<1>2. ASSUME NEW c \in Listed PROVE Before(c) \in Nat
  <2>1. IsFiniteSet({d \in Listed : d.updated < c.updated})
    BY <1>1, FS_Subset
  <2> QED BY <2>1, FS_CardinalityType DEF Before
<1> QED BY <1>1, <1>2, FS_CardinalityType

(* A listed comment has fewer before it than are listed.                   *)
LEMMA BeforeIsARank ==
  ASSUME TypeInv, NEW c \in Listed
  PROVE  Before(c) < Cardinality(Listed)
<1> DEFINE Earlier == {d \in Listed : d.updated < c.updated}
<1>1. IsFiniteSet(Listed)
  BY CountsAreNumbers
<1>2. c.updated \in Nat /\ c \notin Earlier
  BY DEF TypeInv, Listed, Comments
<1>3. Earlier \subseteq Listed \ {c}
  BY <1>2
<1>4. /\ IsFiniteSet(Listed \ {c})
      /\ Cardinality(Listed \ {c}) = Cardinality(Listed) - 1
  BY <1>1, FS_RemoveElement
<1>5. Cardinality(Earlier) <= Cardinality(Listed \ {c})
  BY <1>3, <1>4, FS_Subset
<1>6. Cardinality(Earlier) \in Nat /\ Cardinality(Listed) \in Nat
  BY <1>1, <1>3, <1>4, FS_Subset, FS_CardinalityType
<1> QED BY <1>4, <1>5, <1>6 DEF Before

(* Pages lie side by side: the k-th ends where the next begins.            *)
LEMMA PageBounds ==
  ASSUME NEW k \in Nat \ {0}
  PROVE  /\ (k - 1) * PageSize \in Nat /\ k * PageSize \in Nat
         /\ ((k + 1) - 1) * PageSize = k * PageSize
         /\ (1 - 1) * PageSize = 0
<1>1. PageSize \in Nat
  BY NumbersAssumption
<1>2. \A i, n \in Nat : i * n \in Nat
  OBVIOUS
<1>3. k - 1 \in Nat /\ (k + 1) - 1 = k /\ 1 - 1 = 0
  OBVIOUS
<1>4. \A n \in Nat : 0 * n = 0
  OBVIOUS
<1> QED BY <1>1, <1>2, <1>3, <1>4

(* What is on a page read so far or on the k-th is in front of the next.   *)
LEMMA PageCloses ==
  ASSUME TypeInv, NEW k \in Nat \ {0}, NEW c \in Listed,
         Before(c) < k * PageSize
  PROVE  Before(c) < (k - 1) * PageSize \/ c \in Page(k)
<1>1. Before(c) \in Nat /\ (k - 1) * PageSize \in Nat
  BY CountsAreNumbers, PageBounds
<1>2. Before(c) < (k - 1) * PageSize \/ (k - 1) * PageSize <= Before(c)
  BY <1>1
<1> QED BY <1>2 DEF Page

-----------------------------------------------------------------------------
LEMMA InitHolds == Init => Inv
<1> SUFFICES ASSUME Init PROVE Inv
  OBVIOUS
<1>1. TypeInv
  <2>1. IsFiniteSet(comments) /\ shifted \in BOOLEAN
    BY FS_EmptySet DEF Init
  <2> QED BY <2>1 DEF Init, TypeInv
<1> QED BY <1>1 DEF Init, Inv, StampInv, WalkInv, BatchInv, NothingSkipped

(* A comment that is written is newer than every other, so it stands at    *)
(* the end of the list and moves nothing.                                  *)
LEMMA WriteKeeps == Inv /\ Write => Inv'
<1> SUFFICES ASSUME Inv, Write PROVE Inv'
  OBVIOUS
<1>1. /\ TypeInv /\ StampInv /\ WalkInv /\ BatchInv /\ NothingSkipped
  BY DEF Inv
<1> PICK new : new = [id |-> Cardinality(comments) + 1, updated |-> now + 1]
  OBVIOUS
<1>2. /\ now' = now + 1 /\ comments' = comments \cup {new}
      /\ UNCHANGED <<cursor, pc, since, page, got, answered, shifted>>
  BY DEF Write
<1>3. new \in Comments /\ new.updated = now + 1
  BY <1>1, FS_CardinalityType DEF TypeInv, Comments
<1>4. TypeInv'
  BY <1>1, <1>2, <1>3, FS_AddElement DEF TypeInv
<1>5. StampInv'
  <2>1. (cursor <= now)'
    BY <1>1, <1>2 DEF StampInv, TypeInv
  <2>2. ASSUME NEW c \in (comments \cup got)' PROVE (c.updated <= now)'
    BY <1>1, <1>2, <1>3 DEF StampInv, TypeInv, Comments
  <2>3. ASSUME NEW c \in comments', NEW d \in comments', c.updated = d.updated
        PROVE  c = d
    BY <1>1, <1>2, <1>3, <2>3 DEF StampInv, TypeInv, Comments
  <2> QED BY <2>1, <2>2, <2>3 DEF StampInv
<1>6. BatchInv'
  BY <1>1, <1>2, <1>3 DEF BatchInv, StampInv, TypeInv, Comments
<1>7. NothingSkipped'
  BY <1>1, <1>2, <1>3 DEF NothingSkipped, StampInv, TypeInv, Comments
<1>8. WalkInv'
  <2> SUFFICES ASSUME pc = "walk", ~shifted
               PROVE  (/\ since = cursor
                       /\ (page - 1) * PageSize <= Cardinality(Listed)
                       /\ \A c \in Listed :
                            Before(c) < (page - 1) * PageSize => c \in got)'
    BY <1>1, <1>2 DEF WalkInv
  <2> DEFINE Read == (page - 1) * PageSize
  <2>1. /\ since = cursor /\ Read <= Cardinality(Listed)
        /\ \A c \in Listed : Before(c) < Read => c \in got
    BY <1>1 DEF WalkInv
  <2>2. Read' = Read /\ Read \in Nat
    BY <1>1, <1>2, PageBounds DEF TypeInv
  <2> HIDE DEF Read
  <2>3. Listed' = Listed \cup {new}
    BY <1>1, <1>2, <1>3, <2>1 DEF Listed, StampInv, TypeInv, Comments
  <2>4. \A c \in Listed : c \in Comments /\ c.updated < new.updated
    BY <1>1, <1>3 DEF Listed, StampInv, TypeInv, Comments
  <2>5. new \notin Listed
    BY <1>3, <2>4 DEF Comments
  <2>6. ASSUME NEW c \in Listed PROVE Before(c)' = Before(c)
    <3>1. ~(new.updated < c.updated)
      BY <1>1, <1>3, <2>4 DEF TypeInv, Comments
    <3>2. {d \in Listed' : d.updated < c.updated}
            = {d \in Listed : d.updated < c.updated}
      BY <2>3, <3>1
    <3> QED BY <3>2 DEF Before
  <2>7. Before(new)' = Cardinality(Listed)
    <3>1. ~(new.updated < new.updated)
      BY <1>1, <1>3 DEF TypeInv, Comments
    <3>2. {d \in Listed' : d.updated < new.updated} = Listed
      BY <1>2, <2>3, <2>4, <3>1
    <3> QED BY <1>2, <3>2 DEF Before
  <2>8. /\ Cardinality(Listed) \in Nat
        /\ Cardinality(Listed') = Cardinality(Listed) + 1
    BY <1>1, <2>3, <2>5, CountsAreNumbers, FS_AddElement
  <2>9. Read' <= Cardinality(Listed)'
    BY <2>1, <2>2, <2>8
  <2>10. ASSUME NEW c \in Listed', Before(c)' < Read' PROVE c \in got'
    <3>1. CASE c \in Listed
      BY <1>2, <2>1, <2>2, <2>6, <2>10, <3>1
    <3>2. CASE c = new
      <4>1. Before(c)' = Cardinality(Listed)
        BY <2>7, <3>2
      <4> QED BY <2>1, <2>2, <2>8, <2>10, <4>1
    <3> QED BY <2>3, <3>1, <3>2
  <2> QED BY <1>2, <2>1, <2>9, <2>10 DEF Read
<1> QED BY <1>4, <1>5, <1>6, <1>7, <1>8 DEF Inv

(* An edit makes its comment the newest; during a walk it is the exception *)
(* of the property.                                                        *)
LEMMA EditKeeps ==
  ASSUME Inv, NEW e \in comments, Edit(e) PROVE Inv'
<1> DEFINE new == [e EXCEPT !.updated = now + 1]
<1>1. /\ TypeInv /\ StampInv /\ WalkInv /\ BatchInv /\ NothingSkipped
  BY DEF Inv
<1>2. /\ now' = now + 1 /\ comments' = (comments \ {e}) \cup {new}
      /\ shifted' = (shifted \/ pc = "walk")
      /\ UNCHANGED <<cursor, pc, since, page, got, answered>>
  BY DEF Edit
<1>3. new \in Comments /\ new.updated = now + 1
  BY <1>1 DEF TypeInv, Comments
<1> HIDE DEF new
<1>4. TypeInv'
  <2>1. IsFiniteSet(comments \ {e})
    BY <1>1, FS_Subset DEF TypeInv
  <2>2. IsFiniteSet(comments')
    BY <1>2, <2>1, FS_AddElement
  <2>3. shifted' \in BOOLEAN
    BY <1>1, <1>2 DEF TypeInv
  <2> QED BY <1>1, <1>2, <1>3, <2>2, <2>3 DEF TypeInv
<1>5. StampInv'
  <2>1. (cursor <= now)'
    BY <1>1, <1>2 DEF StampInv, TypeInv
  <2>2. ASSUME NEW c \in (comments \cup got)' PROVE (c.updated <= now)'
    BY <1>1, <1>2, <1>3 DEF StampInv, TypeInv, Comments
  <2>3. ASSUME NEW c \in comments', NEW d \in comments', c.updated = d.updated
        PROVE  c = d
    BY <1>1, <1>2, <1>3, <2>3 DEF StampInv, TypeInv, Comments
  <2> QED BY <2>1, <2>2, <2>3 DEF StampInv
<1>6. WalkInv'
  BY <1>1, <1>2 DEF WalkInv
<1>7. BatchInv'
  BY <1>1, <1>2, <1>3 DEF BatchInv, StampInv, TypeInv, Comments
<1>8. NothingSkipped'
  BY <1>1, <1>2, <1>3 DEF NothingSkipped, StampInv, TypeInv, Comments
<1> QED BY <1>4, <1>5, <1>6, <1>7, <1>8 DEF Inv

-----------------------------------------------------------------------------
(* No page is read yet, so none has anything on it.                        *)
LEMMA BeginKeeps == Inv /\ Begin => Inv'
<1> SUFFICES ASSUME Inv, Begin PROVE Inv'
  OBVIOUS
<1>1. /\ TypeInv /\ StampInv /\ NothingSkipped
  BY DEF Inv
<1>2. TypeInv'
  BY <1>1 DEF TypeInv, Begin
<1>3. WalkInv'
  <2>1. page' = 1 /\ since' = cursor' /\ UNCHANGED comments
    BY DEF Begin
  <2>2. (page' - 1) * PageSize = 0
    BY <2>1, PageBounds
  <2>3. (/\ Cardinality(Listed) \in Nat
         /\ \A c \in Listed : Before(c) \in Nat)'
    BY <1>2, CountsAreNumbers, PTL
  <2>4. \A n \in Nat : 0 <= n /\ ~(n < 0)
    OBVIOUS
  <2> QED BY <2>1, <2>2, <2>3, <2>4 DEF WalkInv
<1> QED BY <1>1, <1>2, <1>3 DEF Inv, Begin, StampInv, BatchInv, NothingSkipped

(* Every page that is read extends the part of the list that is in the     *)
(* batch by its own length.                                                *)
LEMMA LaterPageKeeps == Inv /\ LaterPage => Inv'
<1> SUFFICES ASSUME Inv, LaterPage PROVE Inv'
  OBVIOUS
<1>1. /\ TypeInv /\ StampInv /\ WalkInv /\ NothingSkipped
  BY DEF Inv
<1>2. Page(page) \subseteq comments
  BY DEF Page, Listed
<1>3. TypeInv' /\ StampInv'
  BY <1>1, <1>2 DEF TypeInv, StampInv, LaterPage
<1>4. ASSUME ~shifted
      PROVE  (/\ (page - 1) * PageSize <= Cardinality(Listed)
              /\ \A c \in Listed : Before(c) < (page - 1) * PageSize
                                   => c \in got)'
  <2> DEFINE Read == (page - 1) * PageSize
             Bound == page * PageSize
  <2>1. page \in Nat \ {0} /\ page' = page + 1
    BY <1>1 DEF TypeInv, LaterPage
  <2>2. Read' = Bound /\ Bound \in Nat
    BY <2>1, PageBounds
  <2>3. \A c \in Listed : Before(c) < Read => c \in got
    BY <1>1, <1>4 DEF WalkInv, LaterPage
  <2>4. \A c \in Listed : Before(c) < Bound => Before(c) < Read \/ c \in Page(page)
    BY <1>1, <2>1, PageCloses
  <2>5. Listed' = Listed /\ \A c : Before(c)' = Before(c)
    BY DEF LaterPage, Listed, Before
  <2>6. Bound < Cardinality(Listed)
    BY DEF LaterPage, HasNext
  <2>7. Cardinality(Listed) \in Nat
    BY <1>1, CountsAreNumbers
  <2>8. got' = got \cup Page(page)
    BY DEF LaterPage
  <2> HIDE DEF Read, Bound
  <2>9. Read' <= Cardinality(Listed')
    BY <2>2, <2>5, <2>6, <2>7
  <2>10. ASSUME NEW c \in Listed', Before(c)' < Read' PROVE c \in got'
    BY <2>2, <2>3, <2>4, <2>5, <2>8, <2>10
  <2> QED BY <2>9, <2>10 DEF Read
<1>5. WalkInv'
  BY <1>1, <1>4 DEF WalkInv, LaterPage
<1> QED BY <1>1, <1>3, <1>5 DEF Inv, LaterPage, BatchInv, NothingSkipped

(* With the last page the batch is all that is listed.                     *)
LEMMA LastPageKeeps == Inv /\ LastPage => Inv'
<1> SUFFICES ASSUME Inv, LastPage PROVE Inv'
  OBVIOUS
<1>1. /\ TypeInv /\ StampInv /\ WalkInv /\ NothingSkipped
  BY DEF Inv
<1>2. Page(page) \subseteq comments
  BY DEF Page, Listed
<1>3. TypeInv' /\ StampInv'
  BY <1>1, <1>2 DEF TypeInv, StampInv, LastPage
<1>4. ASSUME ~shifted, NEW c \in Listed PROVE c \in got'
  <2>1. page \in Nat \ {0} /\ page * PageSize \in Nat
    BY <1>1, PageBounds DEF TypeInv
  <2>2. Before(c) \in Nat /\ Cardinality(Listed) \in Nat
    BY <1>1, CountsAreNumbers
  <2>3. Before(c) < Cardinality(Listed)
    BY <1>1, BeforeIsARank
  <2>4. Cardinality(Listed) <= page * PageSize
    BY <2>1, <2>2 DEF LastPage, HasNext
  <2>5. Before(c) < page * PageSize
    BY <2>1, <2>2, <2>3, <2>4
  <2>6. Before(c) < (page - 1) * PageSize \/ c \in Page(page)
    BY <1>1, <2>1, <2>5, PageCloses
  <2>7. Before(c) < (page - 1) * PageSize => c \in got
    BY <1>1, <1>4 DEF WalkInv, LastPage
  <2> QED BY <2>6, <2>7 DEF LastPage
<1>5. BatchInv'
  <2> SUFFICES ASSUME ~shifted, NEW c \in comments
               PROVE  c.updated <= cursor \/ c \in got'
    BY DEF BatchInv, LastPage
  <2>1. c.updated >= since => c \in got'
    BY <1>4 DEF Listed
  <2>2. since = cursor /\ c.updated \in Nat /\ cursor \in Nat
    BY <1>1 DEF WalkInv, LastPage, TypeInv, Comments
  <2> QED BY <2>1, <2>2
<1> QED BY <1>1, <1>3, <1>5 DEF Inv, LastPage, WalkInv, NothingSkipped

LEMMA FailKeeps == Inv /\ Fail => Inv'
<1> SUFFICES ASSUME Inv, Fail PROVE Inv'
  OBVIOUS
<1> QED BY DEF Inv, Fail, TypeInv, StampInv, WalkInv, BatchInv, NothingSkipped

(* What is skipped is at or before the cursor.                             *)
LEMMA SkipSeenKeeps == Inv /\ SkipSeen => Inv'
<1> SUFFICES ASSUME Inv, SkipSeen PROVE Inv'
  OBVIOUS
<1>1. TypeInv' /\ StampInv'
  BY DEF Inv, SkipSeen, TypeInv, StampInv
<1>2. BatchInv'
  BY DEF Inv, SkipSeen, BatchInv
<1> QED BY <1>1, <1>2 DEF Inv, SkipSeen, WalkInv, NothingSkipped

(* The earliest of the batch is decided: what the cursor passes with it    *)
(* was passed before, or is that comment itself.                           *)
LEMMA DecideKeeps == Inv /\ Decide => Inv'
<1> SUFFICES ASSUME Inv, Decide PROVE Inv'
  OBVIOUS
<1> PICK c \in got : /\ c.updated > cursor /\ Earliest(c)
                     /\ answered' = answered \cup {c}
                     /\ cursor' = c.updated
                     /\ got' = got \ {c}
  BY DEF Decide
<1>1. /\ TypeInv /\ StampInv /\ BatchInv /\ NothingSkipped
      /\ pc = "sorted"
      /\ UNCHANGED <<comments, now, pc, since, page, shifted>>
  BY DEF Inv, Decide
<1>2. c \in Comments /\ c.updated \in Nat
  BY <1>1 DEF TypeInv, Comments
<1>3. TypeInv'
  BY <1>1, <1>2 DEF TypeInv
<1>4. StampInv'
  BY <1>1, <1>2 DEF StampInv
<1>5. WalkInv'
  BY <1>1 DEF WalkInv
<1>6. ASSUME NEW d \in comments, d.updated <= c.updated, ~shifted
      PROVE  d.updated <= cursor \/ d = c
  <2>1. \/ d.updated <= cursor \/ d \in got
        \/ \A x \in got : x.updated < d.updated
    BY <1>1, <1>6 DEF BatchInv
  <2>2. d.updated \in Nat
    BY <1>1 DEF TypeInv, Comments
  <2>3. d \in got => d = c
    BY <1>2, <1>6, <2>2 DEF Earliest
  <2>4. ~ \A x \in got : x.updated < d.updated
    BY <1>2, <1>6, <2>2
  <2> QED BY <2>1, <2>3, <2>4
<1>7. NothingSkipped'
  BY <1>1, <1>6 DEF NothingSkipped
<1>8. BatchInv'
  <2> SUFFICES ASSUME ~shifted, NEW d \in comments
               PROVE  \/ d.updated <= c.updated \/ d \in got \ {c}
                      \/ \A x \in got \ {c} : x.updated < d.updated
    BY <1>1 DEF BatchInv
  <2>1. d.updated \in Nat /\ cursor \in Nat
    BY <1>1 DEF TypeInv, Comments
  <2>2. \/ d.updated <= cursor \/ d \in got
        \/ \A x \in got : x.updated < d.updated
    BY <1>1 DEF BatchInv
  <2>3. d.updated <= cursor => d.updated <= c.updated
    BY <1>2, <2>1
  <2>4. d = c => d.updated <= c.updated
    BY <1>2
  <2> QED BY <2>2, <2>3, <2>4
<1> QED BY <1>3, <1>4, <1>5, <1>7, <1>8 DEF Inv

LEMMA DeferKeeps == Inv /\ Defer => Inv'
<1> SUFFICES ASSUME Inv, Defer PROVE Inv'
  OBVIOUS
<1> QED BY DEF Inv, Defer, TypeInv, StampInv, WalkInv, BatchInv, NothingSkipped

LEMMA DoneKeeps == Inv /\ Done => Inv'
<1> SUFFICES ASSUME Inv, Done PROVE Inv'
  OBVIOUS
<1> QED BY DEF Inv, Done, TypeInv, StampInv, WalkInv, BatchInv, NothingSkipped

LEMMA StutterKeeps == Inv /\ UNCHANGED vars => Inv'
<1> SUFFICES ASSUME Inv, UNCHANGED vars PROVE Inv'
  OBVIOUS
<1>1. Listed' = Listed /\ \A c : Before(c)' = Before(c)
  BY DEF vars, Listed, Before
<1>2. WalkInv'
  BY <1>1 DEF Inv, vars, WalkInv
<1> QED BY <1>2 DEF Inv, vars, TypeInv, StampInv, BatchInv, NothingSkipped

-----------------------------------------------------------------------------
(* With any page size, and whatever is written, edited between walks or    *)
(* fails, the cursor of run_ping_path() passes no comment that was not     *)
(* decided, unless an edit moved one between the pages of a walk.          *)
THEOREM SkipTheorem == Spec => []NothingSkipped
<1>1. Init => Inv
  BY InitHolds
<1>2. Inv /\ [Next]_vars => Inv'
  BY WriteKeeps, EditKeeps, BeginKeeps, LaterPageKeeps, LastPageKeeps,
     FailKeeps, SkipSeenKeeps, DecideKeeps, DeferKeeps, DoneKeeps, StutterKeeps
     DEF Next, Tick
<1>3. Inv => NothingSkipped
  BY DEF Inv
<1> QED BY <1>1, <1>2, <1>3, PTL DEF Spec
=============================================================================
