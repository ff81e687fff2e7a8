-------------------------- MODULE OwnershipProofs ---------------------------
(***************************************************************************)
(* Ownership for any of the entry points: nothing dangles, nothing leaks.  *)
(* And BytesCall, a call with the callbacks that FFmpeg makes: it is a     *)
(* call as Ownership describes it, and it uses the callbacks as ByteIO     *)
(* lets FFmpeg use them.                                                   *)
(*                                                                         *)
(* A step of a function fits the state it is reached in, or does not       *)
(* (Fits).  A function whose steps fit leads from one state to another     *)
(* (Leads), and functions that lead into one another compose.  Any program *)
(* whose steps all fit can fail at any of them and still release each      *)
(* object once and in order (IInv); every entry point is such a program.   *)
(***************************************************************************)
EXTENDS BytesCall, ByteIOProofs, SequenceTheorems
-----------------------------------------------------------------------------
(* What is owned.                                                          *)

FromBytes == {"info_bytes", "load_bytes"}
ToFile == {"save", "save_bytes"}

Objects == {"format", "file", "buffer", "avio", "cursor", "sink", "codec",
            "swr", "fifo", "packet", "frame"}

\* The owners a call may declare, and where its pb may point.
OwnersOf(c) ==
    {"CodecCtx", "EncoderCtx", "SwrCtx", "AudioFifo", "Packet", "Frame"}
    \cup (IF c \in ToFile THEN {"OutputCtx", "WriteAvio"}
          ELSE {"FormatCtx", "ReadAvio"})

Targets(c) ==
    {"NULL"} \cup (IF c = "save" THEN {"file"} ELSE {})
             \cup (IF c \in FromBytes \cup {"save_bytes"} THEN {"avio"} ELSE {})

Stacks(c) == Seq(Seq(OwnersOf(c)))

\* The objects of an owner in call c while pb points to p.
Owned(c, p, owner) ==
    CASE owner = "FormatCtx" ->
            {"format"} \cup (IF c \in FromBytes THEN {"buffer", "avio", "cursor"}
                             ELSE {})
      [] owner = "OutputCtx" ->
            {"format"} \cup (IF c = "save" /\ p # "NULL" THEN {"file"} ELSE {})
      [] owner = "ReadAvio"  -> {"buffer", "avio", "cursor"}
      [] owner = "WriteAvio" -> {"buffer", "avio", "sink"}
      [] owner \in {"CodecCtx", "EncoderCtx"} -> {"codec"}
      [] owner = "SwrCtx"    -> {"swr"}
      [] owner = "AudioFifo" -> {"fifo"}
      [] owner = "Packet"    -> {"packet"}
      [] owner = "Frame"     -> {"frame"}

\* The objects of the locals of one function, and of all functions entered.
OwnedIn(c, p, L) == UNION {Owned(c, p, L[j]) : j \in 1..Len(L)}
OwnedBy(c, p, S) == UNION {OwnedIn(c, p, S[i]) : i \in 1..Len(S)}

\* No object has two owners.
DisjointIn(c, p, L) ==
    \A j, k \in 1..Len(L) :
        j # k => Owned(c, p, L[j]) \cap Owned(c, p, L[k]) = {}
Disjoint(c, p, S) ==
    /\ \A i \in 1..Len(S) : DisjointIn(c, p, S[i])
    /\ \A i, k \in 1..Len(S) :
          i # k => OwnedIn(c, p, S[i]) \cap OwnedIn(c, p, S[k]) = {}
-----------------------------------------------------------------------------
(* Programs.                                                               *)

\* What is behind pb in call c, and what a step works on.
BehindIn(c, p) ==
    CASE p = "NULL" -> {}
      [] p = "file" -> {"file"}
      [] p = "avio" ->
            {"avio", "buffer", IF c = "save_bytes" THEN "sink" ELSE "cursor"}

Resolved(c, p, needs) ==
    (needs \ {"pb"}) \cup (IF "pb" \in needs THEN BehindIn(c, p) ELSE {})

\* A state between two steps.  Tidy: all there is has an owner.
State(S, A, p) == [scopes |-> S, alive |-> A, pb |-> p]
Tidy(c, S, p) == State(S, OwnedBy(c, p, S), p)

Sound(c, S, p) == /\ S \in Stacks(c) /\ S # << >>
                  /\ p \in Targets(c)
                  /\ Disjoint(c, p, S)

\* A step w fits a state when all it works on is there, when what has no owner
\* yet is what a failure undoes, and when a function that is left, other than
\* the first one, does not own the format context.
Fits(c, w, a) ==
    LET owned == OwnedBy(c, a.pb, a.scopes) IN
    /\ Sound(c, a.scopes, a.pb)
    /\ owned \subseteq a.alive
    /\ w.does \in {"call", "let", "enter", "leave", "drop"}
    /\ Resolved(c, a.pb, w.needs \cup w.undo) \subseteq a.alive
    /\ w.does = "call" /\ w.fn \notin Infallible => a.alive \ w.undo = owned
    /\ w.does \in {"leave", "drop"} => a.alive = owned
    /\ w.does = "leave" =>
          /\ w.needs \cup w.undo = {}
          /\ \/ Len(a.scopes) = 1
             \/ "format" \in OwnedBy(c, a.pb, Front(a.scopes))
    /\ w.does = "drop" => Last(a.scopes) # << >>

WithoutLast(S) == Append(Front(S), Front(Last(S)))

\* The state after a step that succeeds.
After(c, w, a) ==
    LET S == a.scopes IN
    CASE w.does = "call" ->
            State(S, a.alive \cup w.makes, IF w.wires = "" THEN a.pb ELSE w.wires)
      [] w.does = "let" ->
            State(Append(Front(S), Append(Kept(Last(S), w.takes), w.fn)),
                  a.alive, a.pb)
      [] w.does = "enter" -> State(Append(S, << >>), a.alive, a.pb)
      [] w.does = "leave" -> Tidy(c, Front(S), a.pb)
      [] w.does = "drop" ->
            State(WithoutLast(S), a.alive \ Owned(c, a.pb, Last(Last(S))),
                  IF Last(Last(S)) = "OutputCtx" THEN "NULL" ELSE a.pb)

\* f gives the state before each step of s, and the one after the last.
Follows(c, s, f) ==
    \A i \in 1..Len(s) : /\ Fits(c, s[i], f[i])
                         /\ f[i + 1] = After(c, s[i], f[i])

Leads(c, s, a, b) ==
    /\ \E T : s \in Seq(T)
    /\ \E f : f[1] = a /\ f[Len(s) + 1] = b /\ Follows(c, s, f)

\* Where a call starts: in its function, with nothing.
Start == State(<< << >> >>, {}, "NULL")

\* The states of a call of which no step fails.
Route(c) == CHOOSE f : /\ f[1] = Start
                       /\ f[Len(Program[c]) + 1].scopes = << >>
                       /\ Follows(c, Program[c], f)
-----------------------------------------------------------------------------
(* The inductive invariant.                                                *)

\* What is still to be released by the owner that is being dropped.
ToGo(d) == {d[i] : i \in 1..Len(d)} \ {"pb"}

Endings == {<< >>, <<"format">>, <<"pb", "format">>, <<"file", "pb", "format">>,
            <<"format", "buffer", "avio", "cursor">>,
            <<"buffer", "avio", "cursor">>, <<"avio", "cursor">>, <<"cursor">>,
            <<"buffer", "avio", "sink">>, <<"avio", "sink">>, <<"sink">>,
            <<"codec">>, <<"swr">>, <<"fifo">>, <<"packet">>, <<"frame">>}

\* The last of these steps but one sets pb to NULL.
Unsettled == {<<"file", "pb", "format">>, <<"pb", "format">>}

\* Closing a format context reads through pb: what is behind it goes later.
InOrder ==
    /\ dying \in Endings
    /\ dying = <<"format">> => pb = "NULL"
    /\ dying = <<"format", "buffer", "avio", "cursor">> => call \in FromBytes

OwnTypeOK ==
    /\ call \in Calls
    /\ at \in 1..Len(Program[call]) + 1
    /\ failed \in BOOLEAN
    /\ scopes \in Stacks(call)
    /\ pb \in Targets(call)

\* No object has two owners, or is owned and being released.
OneOwner ==
    /\ Disjoint(call, pb, scopes)
    /\ OwnedBy(call, pb, scopes) \cap ToGo(dying) = {}

\* While owners are dropped, all there is is owned or about to go.
AllOwned == alive = OwnedBy(call, pb, scopes) \cup ToGo(dying)

\* A call that has not failed is on its route.  While a function is left its
\* own locals go, and what the others own stays.
OnRoute ==
    LET a == Route(call)[at] IN
    ~failed /\ ~Returned =>
        /\ at <= Len(Program[call])
        /\ IF Now.does = "leave"
           THEN /\ Front(scopes) = Front(a.scopes)
                /\ AllOwned
                /\ Len(scopes) > 1 => pb = a.pb /\ "format" \notin ToGo(dying)
           ELSE /\ scopes = a.scopes
                /\ alive = a.alive \cup ToGo(dying)
                /\ a.alive \cap ToGo(dying) = {}
                /\ IF dying \in Unsettled THEN a.pb = "NULL" ELSE pb = a.pb

IInv == /\ OwnTypeOK /\ InOrder /\ OneOwner /\ OnRoute
        /\ failed \/ dying # << >> \/ Returned => AllOwned
        /\ Returned => dying = << >>
-----------------------------------------------------------------------------
(* Stacks.                                                                 *)

\* A sequence without its last element, and the last element.
LEMMA FrontAndLast ==
    ASSUME NEW T, NEW s \in Seq(T), s # << >>
    PROVE  /\ Front(s) \in Seq(T) /\ Last(s) \in T
           /\ Len(Front(s)) = Len(s) - 1
           /\ s = Append(Front(s), Last(s))
<1>1. Len(s) \in Nat \ {0}
  BY EmptySeq
<1>2. /\ Front(s) \in Seq(T) /\ Len(Front(s)) = Len(s) - 1
      /\ \A i \in 1..Len(s) - 1 : Front(s)[i] = s[i]
  <2>1. \A i \in 1..Len(s) - 1 : s[i] \in T
    BY <1>1
  <2>2. PICK n \in Int : n = Len(s) - 1
    BY <1>1
  <2>3. SubSeq(s, 1, n) \in Seq(T)
    BY <1>1, <2>1, <2>2, SubSeqProperties
  <2>4. Len(SubSeq(s, 1, n)) = n
    BY <1>1, <2>1, <2>2, SubSeqProperties
  <2>5. \A i \in 1..n : SubSeq(s, 1, n)[i] = s[i]
    BY <1>1, <2>1, <2>2, SubSeqProperties
  <2> QED  BY <2>2, <2>3, <2>4, <2>5 DEF Front
<1>3. Last(s) \in T
  BY <1>1 DEF Last
<1>4. /\ Append(Front(s), Last(s)) \in Seq(T)
      /\ Len(Append(Front(s), Last(s))) = Len(s)
      /\ \A i \in 1..Len(s) : Append(Front(s), Last(s))[i] = s[i]
  <2> DEFINE f == Front(s)
             e == Last(s)
  <2>1. f \in Seq(T) /\ Len(f) = Len(s) - 1 /\ e \in T /\ e = s[Len(s)]
    BY <1>2, <1>3 DEF Last
  <2>2. \A i \in 1..Len(s) - 1 : f[i] = s[i]
    BY <1>2
  <2> HIDE DEF f, e
  <2>3. Append(f, e) \in Seq(T) /\ Len(Append(f, e)) = Len(s)
    BY <1>1, <2>1
  <2>4. \A i \in 1..Len(s) - 1 : Append(f, e)[i] = s[i]
    BY <1>1, <2>1, <2>2
  <2>5. Append(f, e)[Len(s)] = s[Len(s)]
    BY <1>1, <2>1
  <2>6. Append(f, e) \in Seq(T) /\ Len(Append(f, e)) = Len(s)
        /\ \A i \in 1..Len(s) : Append(f, e)[i] = s[i]
    BY <1>1, <2>3, <2>4, <2>5
  <2> QED  BY <2>6 DEF f, e
<1>5. s = Append(Front(s), Last(s))
  BY <1>4, SeqEqual
<1> QED  BY <1>2, <1>3, <1>5

LEMMA FrontAndLastOfAppend ==
    ASSUME NEW T, NEW s \in Seq(T), NEW e \in T
    PROVE  /\ Append(s, e) \in Seq(T) /\ Append(s, e) # << >>
           /\ Len(Append(s, e)) = Len(s) + 1
           /\ Front(Append(s, e)) = s /\ Last(Append(s, e)) = e
<1> DEFINE t == Append(s, e)
<1>1. /\ t \in Seq(T) /\ Len(t) = Len(s) + 1 /\ Len(s) \in Nat
      /\ t[Len(s) + 1] = e /\ \A i \in 1..Len(s) : t[i] = s[i]
  OBVIOUS
<1>2. t # << >>
  BY <1>1
<1> HIDE DEF t
<1>3. Last(t) = e
  BY <1>1 DEF Last
<1>4. Front(t) \in Seq(T) /\ Len(Front(t)) = Len(s)
  BY <1>1, <1>2, FrontAndLast
<1>5. \A i \in 1..Len(s) : Front(t)[i] = s[i]
  <2>1. \A i \in 1..Len(s) : t[i] \in T
    BY <1>1
  <2>2. \A i \in 1..Len(s) : SubSeq(t, 1, Len(s))[i] = t[1 + i - 1]
    BY <1>1, <2>1, SubSeqProperties
  <2>3. Front(t) = SubSeq(t, 1, Len(s))
    BY <1>1 DEF Front
  <2> QED  BY <1>1, <2>2, <2>3
<1>6. Front(t) = s
  BY <1>4, <1>5, SeqEqual
<1> QED  BY <1>1, <1>2, <1>3, <1>6 DEF t

\* What nobody owns in an empty function and before the first one.
LEMMA OwnedByNone ==
    ASSUME NEW c, NEW p
    PROVE  /\ OwnedIn(c, p, << >>) = {} /\ DisjointIn(c, p, << >>)
           /\ OwnedBy(c, p, << >>) = {} /\ Disjoint(c, p, << >>)
BY DEF OwnedIn, DisjointIn, OwnedBy, Disjoint

\* One local more.
LEMMA OwnedInAppend ==
    ASSUME NEW c, NEW p, NEW T, NEW L \in Seq(T), NEW o \in T
    PROVE  /\ OwnedIn(c, p, Append(L, o)) = OwnedIn(c, p, L) \cup Owned(c, p, o)
           /\ DisjointIn(c, p, Append(L, o))
                <=> /\ DisjointIn(c, p, L)
                    /\ OwnedIn(c, p, L) \cap Owned(c, p, o) = {}
<1> DEFINE M == Append(L, o)
<1>1. /\ Len(M) = Len(L) + 1 /\ Len(L) \in Nat
      /\ M[Len(L) + 1] = o /\ \A i \in 1..Len(L) : M[i] = L[i]
  OBVIOUS
<1>2. 1..Len(M) = 1..Len(L) \cup {Len(L) + 1}
  BY <1>1
<1> HIDE DEF M
<1>3. OwnedIn(c, p, M) = OwnedIn(c, p, L) \cup Owned(c, p, o)
  BY <1>1, <1>2, Zenon DEF OwnedIn
<1>4. ASSUME DisjointIn(c, p, L), OwnedIn(c, p, L) \cap Owned(c, p, o) = {}
      PROVE  DisjointIn(c, p, M)
  <2> SUFFICES ASSUME NEW j \in 1..Len(M), NEW k \in 1..Len(M), j # k
               PROVE  Owned(c, p, M[j]) \cap Owned(c, p, M[k]) = {}
    BY DEF DisjointIn
  <2>1. CASE j \in 1..Len(L) /\ k \in 1..Len(L)
    BY <2>1, <1>1, <1>4 DEF DisjointIn
  <2>2. CASE j \in 1..Len(L) /\ k = Len(L) + 1
    BY <2>2, <1>1, <1>4 DEF OwnedIn
  <2>3. CASE j = Len(L) + 1 /\ k \in 1..Len(L)
    BY <2>3, <1>1, <1>4 DEF OwnedIn
  <2> QED  BY <1>2, <2>1, <2>2, <2>3
<1>5. ASSUME DisjointIn(c, p, M)
      PROVE  DisjointIn(c, p, L) /\ OwnedIn(c, p, L) \cap Owned(c, p, o) = {}
  <2>1. DisjointIn(c, p, L)
    BY <1>1, <1>2, <1>5 DEF DisjointIn
  <2>2. \A j \in 1..Len(L) : Owned(c, p, L[j]) \cap Owned(c, p, o) = {}
    <3> TAKE j \in 1..Len(L)
    <3>1. j \in 1..Len(M) /\ Len(L) + 1 \in 1..Len(M) /\ j # Len(L) + 1
      BY <1>1
    <3> QED  BY <3>1, <1>1, <1>5 DEF DisjointIn
  <2> QED  BY <2>1, <2>2 DEF OwnedIn
<1> QED  BY <1>3, <1>4, <1>5 DEF M

\* One function more.
LEMMA OwnedByAppend ==
    ASSUME NEW c, NEW p, NEW T, NEW S \in Seq(T), NEW L \in T
    PROVE  /\ OwnedBy(c, p, Append(S, L)) = OwnedBy(c, p, S) \cup OwnedIn(c, p, L)
           /\ Disjoint(c, p, Append(S, L))
                <=> /\ Disjoint(c, p, S) /\ DisjointIn(c, p, L)
                    /\ OwnedBy(c, p, S) \cap OwnedIn(c, p, L) = {}
<1> DEFINE M == Append(S, L)
<1>1. /\ Len(M) = Len(S) + 1 /\ Len(S) \in Nat
      /\ M[Len(S) + 1] = L /\ \A i \in 1..Len(S) : M[i] = S[i]
  OBVIOUS
<1>2. 1..Len(M) = 1..Len(S) \cup {Len(S) + 1}
  BY <1>1
<1> HIDE DEF M
<1>3. OwnedBy(c, p, M) = OwnedBy(c, p, S) \cup OwnedIn(c, p, L)
  BY <1>1, <1>2, Zenon DEF OwnedBy
<1>4. ASSUME Disjoint(c, p, S), DisjointIn(c, p, L),
             OwnedBy(c, p, S) \cap OwnedIn(c, p, L) = {}
      PROVE  Disjoint(c, p, M)
  <2>1. \A i \in 1..Len(M) : DisjointIn(c, p, M[i])
    BY <1>1, <1>2, <1>4 DEF Disjoint
  <2>2. ASSUME NEW j \in 1..Len(M), NEW k \in 1..Len(M), j # k
        PROVE  OwnedIn(c, p, M[j]) \cap OwnedIn(c, p, M[k]) = {}
    <3>1. CASE j \in 1..Len(S) /\ k \in 1..Len(S)
      BY <2>2, <3>1, <1>1, <1>4 DEF Disjoint
    <3>2. CASE j \in 1..Len(S) /\ k = Len(S) + 1
      BY <3>2, <1>1, <1>4 DEF OwnedBy
    <3>3. CASE j = Len(S) + 1 /\ k \in 1..Len(S)
      BY <3>3, <1>1, <1>4 DEF OwnedBy
    <3> QED  BY <1>2, <2>2, <3>1, <3>2, <3>3
  <2> QED  BY <2>1, <2>2 DEF Disjoint
<1>5. ASSUME Disjoint(c, p, M)
      PROVE  /\ Disjoint(c, p, S) /\ DisjointIn(c, p, L)
             /\ OwnedBy(c, p, S) \cap OwnedIn(c, p, L) = {}
  <2>1. Disjoint(c, p, S) /\ DisjointIn(c, p, L)
    BY <1>1, <1>2, <1>5 DEF Disjoint
  <2>2. \A j \in 1..Len(S) : OwnedIn(c, p, S[j]) \cap OwnedIn(c, p, L) = {}
    <3> TAKE j \in 1..Len(S)
    <3>1. j \in 1..Len(M) /\ Len(S) + 1 \in 1..Len(M) /\ j # Len(S) + 1
      BY <1>1
    <3> QED  BY <3>1, <1>1, <1>5 DEF Disjoint
  <2> QED  BY <2>1, <2>2 DEF OwnedBy
<1> QED  BY <1>3, <1>4, <1>5 DEF M

\* What a stack owns, by its last function.
LEMMA ByFunction ==
    ASSUME NEW c, NEW p, NEW S \in Stacks(c), S # << >>
    PROVE  /\ Front(S) \in Stacks(c) /\ Last(S) \in Seq(OwnersOf(c))
           /\ Len(Front(S)) = Len(S) - 1 /\ Len(S) \in Nat
           /\ S = Append(Front(S), Last(S))
           /\ OwnedBy(c, p, S)
                = OwnedBy(c, p, Front(S)) \cup OwnedIn(c, p, Last(S))
           /\ Disjoint(c, p, S)
                <=> /\ Disjoint(c, p, Front(S)) /\ DisjointIn(c, p, Last(S))
                    /\ OwnedBy(c, p, Front(S)) \cap OwnedIn(c, p, Last(S)) = {}
<1> DEFINE T == Seq(OwnersOf(c))
<1>1. S \in Seq(T)
  BY DEF Stacks
<1>2. /\ Front(S) \in Seq(T) /\ Last(S) \in T
      /\ Len(Front(S)) = Len(S) - 1
      /\ S = Append(Front(S), Last(S))
  BY <1>1, FrontAndLast
<1>3. Len(S) \in Nat
  BY <1>1
<1> HIDE DEF T
<1>4. ASSUME NEW F, NEW L, F = Front(S), L = Last(S), S = Append(F, L)
      PROVE  /\ OwnedBy(c, p, S) = OwnedBy(c, p, F) \cup OwnedIn(c, p, L)
             /\ Disjoint(c, p, S)
                  <=> /\ Disjoint(c, p, F) /\ DisjointIn(c, p, L)
                      /\ OwnedBy(c, p, F) \cap OwnedIn(c, p, L) = {}
  <2>1. F \in Seq(T) /\ L \in T
    BY <1>2, <1>4
  <2>2. /\ OwnedBy(c, p, Append(F, L)) = OwnedBy(c, p, F) \cup OwnedIn(c, p, L)
        /\ Disjoint(c, p, Append(F, L))
                  <=> /\ Disjoint(c, p, F) /\ DisjointIn(c, p, L)
                      /\ OwnedBy(c, p, F) \cap OwnedIn(c, p, L) = {}
    BY <2>1, OwnedByAppend, Zenon
  <2> QED  BY <2>2, <1>4, Zenon
<1> QED  BY <1>2, <1>3, <1>4, Zenon DEF T, Stacks

\* A local function more owns nothing at first.
LEMMA OneFunctionMore ==
    ASSUME NEW c, NEW p, NEW S, Sound(c, S, p)
    PROVE  LET T == Append(S, << >>)
           IN  /\ Sound(c, T, p) /\ OwnedBy(c, p, T) = OwnedBy(c, p, S)
               /\ Front(T) = S /\ Len(T) = Len(S) + 1
<1> DEFINE O == Seq(OwnersOf(c))
<1>1. S \in Seq(O) /\ << >> \in O
  BY DEF Sound, Stacks
<1>2. /\ Append(S, << >>) \in Seq(O) /\ Append(S, << >>) # << >>
      /\ Len(Append(S, << >>)) = Len(S) + 1 /\ Front(Append(S, << >>)) = S
  BY <1>1, FrontAndLastOfAppend
<1> HIDE DEF O
<1>3. /\ OwnedBy(c, p, Append(S, << >>))
            = OwnedBy(c, p, S) \cup OwnedIn(c, p, << >>)
      /\ Disjoint(c, p, Append(S, << >>))
            <=> /\ Disjoint(c, p, S) /\ DisjointIn(c, p, << >>)
                /\ OwnedBy(c, p, S) \cap OwnedIn(c, p, << >>) = {}
  BY <1>1, OwnedByAppend, Zenon
<1>4. OwnedIn(c, p, << >>) = {} /\ DisjointIn(c, p, << >>)
  BY OwnedByNone
<1>5. Disjoint(c, p, S) /\ p \in Targets(c)
  BY DEF Sound
<1>6. Append(S, << >>) \in Stacks(c)
  BY <1>2 DEF O, Stacks
<1>7. Sound(c, Append(S, << >>), p)
  BY <1>2, <1>3, <1>4, <1>5, <1>6 DEF Sound
<1> QED  BY <1>2, <1>3, <1>4, <1>7

\* One function less, which owned what only its locals owned.
LEMMA OneFunctionLess ==
    ASSUME NEW c, NEW p, NEW S, Sound(c, S, p), Len(S) > 1
    PROVE  /\ Sound(c, Front(S), p)
           /\ OwnedBy(c, p, Front(S)) \subseteq OwnedBy(c, p, S)
<1>1. S \in Stacks(c) /\ S # << >> /\ Disjoint(c, p, S) /\ p \in Targets(c)
  BY DEF Sound
<1>2. /\ Front(S) \in Stacks(c) /\ Disjoint(c, p, Front(S))
      /\ Len(Front(S)) = Len(S) - 1 /\ Len(S) \in Nat
      /\ OwnedBy(c, p, S)
            = OwnedBy(c, p, Front(S)) \cup OwnedIn(c, p, Last(S))
  BY <1>1, ByFunction, Zenon
<1>3. Front(S) # << >>
  BY <1>2
<1> QED  BY <1>1, <1>2, <1>3 DEF Sound

With(S, o) == Append(Front(S), Append(Last(S), o))

\* One local more.
LEMMA OneLocalMore ==
    ASSUME NEW c, NEW p, NEW S, Sound(c, S, p), NEW o \in OwnersOf(c),
           OwnedBy(c, p, S) \cap Owned(c, p, o) = {}
    PROVE  LET T == With(S, o)
           IN  /\ Sound(c, T, p) /\ Front(T) = Front(S)
               /\ Last(T) = Append(Last(S), o) /\ Len(T) = Len(S)
               /\ OwnedBy(c, p, T) = OwnedBy(c, p, S) \cup Owned(c, p, o)
<1> DEFINE O == Seq(OwnersOf(c))
           L == Last(S)
           M == Append(L, o)
           F == Front(S)
           T == Append(F, M)
<1>1. S \in Stacks(c) /\ S # << >> /\ Disjoint(c, p, S) /\ p \in Targets(c)
  BY DEF Sound
<1>2. /\ F \in Stacks(c) /\ L \in O
      /\ Len(F) = Len(S) - 1 /\ Len(S) \in Nat
      /\ OwnedBy(c, p, S) = OwnedBy(c, p, F) \cup OwnedIn(c, p, L)
      /\ Disjoint(c, p, F) /\ DisjointIn(c, p, L)
      /\ OwnedBy(c, p, F) \cap OwnedIn(c, p, L) = {}
  BY <1>1, ByFunction, Zenon
<1>3. M \in O
  BY <1>2
<1> HIDE DEF F, L
<1>4. /\ OwnedIn(c, p, M) = OwnedIn(c, p, L) \cup Owned(c, p, o)
      /\ DisjointIn(c, p, M)
            <=> /\ DisjointIn(c, p, L)
                /\ OwnedIn(c, p, L) \cap Owned(c, p, o) = {}
  BY <1>2, OwnedInAppend
<1> HIDE DEF M
<1>5. F \in Seq(O)
  BY <1>2 DEF Stacks
<1> HIDE DEF O
<1>6. /\ OwnedBy(c, p, T) = OwnedBy(c, p, F) \cup OwnedIn(c, p, M)
      /\ Disjoint(c, p, T)
            <=> /\ Disjoint(c, p, F) /\ DisjointIn(c, p, M)
                /\ OwnedBy(c, p, F) \cap OwnedIn(c, p, M) = {}
  BY <1>3, <1>5, OwnedByAppend, Zenon
<1>7. /\ T \in Seq(O) /\ T # << >> /\ Len(T) = Len(F) + 1
      /\ Front(T) = F /\ Last(T) = M
  BY <1>3, <1>5, FrontAndLastOfAppend, Zenon
<1> HIDE DEF T
<1>8. Disjoint(c, p, T) /\ OwnedBy(c, p, T) = OwnedBy(c, p, S) \cup Owned(c, p, o)
  BY <1>2, <1>4, <1>6
<1>9. Sound(c, T, p)
  BY <1>1, <1>7, <1>8 DEF Sound, Stacks, O
<1>10. Len(T) = Len(S)
  BY <1>2, <1>7
<1>11. With(S, o) = T
  BY DEF With, T, F, M, L
<1> QED  BY <1>7, <1>8, <1>9, <1>10, <1>11 DEF F, M, L

\* One local less: what it owned nobody else owns.
LEMMA OneLocalLess ==
    ASSUME NEW c, NEW p, NEW S, Sound(c, S, p), Last(S) # << >>
    PROVE  LET T == WithoutLast(S)
               o == Last(Last(S))
           IN  /\ Sound(c, T, p) /\ Front(T) = Front(S) /\ Len(T) = Len(S)
               /\ Last(T) = Front(Last(S)) /\ o \in OwnersOf(c)
               /\ Owned(c, p, o) \subseteq OwnedIn(c, p, Last(S))
               /\ OwnedBy(c, p, S) = OwnedBy(c, p, T) \cup Owned(c, p, o)
               /\ OwnedBy(c, p, T) \cap Owned(c, p, o) = {}
<1> DEFINE O == Seq(OwnersOf(c))
           L == Last(S)
           M == Front(L)
           o == Last(L)
           F == Front(S)
           T == Append(F, M)
<1>1. S \in Stacks(c) /\ S # << >> /\ Disjoint(c, p, S) /\ p \in Targets(c)
  BY DEF Sound
<1>2. /\ F \in Stacks(c) /\ L \in O
      /\ Len(F) = Len(S) - 1 /\ Len(S) \in Nat
      /\ OwnedBy(c, p, S) = OwnedBy(c, p, F) \cup OwnedIn(c, p, L)
      /\ Disjoint(c, p, F) /\ DisjointIn(c, p, L)
      /\ OwnedBy(c, p, F) \cap OwnedIn(c, p, L) = {}
  BY <1>1, ByFunction, Zenon
<1>3. M \in O /\ o \in OwnersOf(c) /\ L = Append(M, o)
  BY <1>2, FrontAndLast
<1> HIDE DEF F, L, M, o
<1>4. /\ OwnedIn(c, p, L) = OwnedIn(c, p, M) \cup Owned(c, p, o)
      /\ DisjointIn(c, p, L)
            <=> /\ DisjointIn(c, p, M)
                /\ OwnedIn(c, p, M) \cap Owned(c, p, o) = {}
  BY <1>3, OwnedInAppend, Zenon
<1>5. F \in Seq(O)
  BY <1>2 DEF Stacks
<1> HIDE DEF O
<1>6. /\ OwnedBy(c, p, T) = OwnedBy(c, p, F) \cup OwnedIn(c, p, M)
      /\ Disjoint(c, p, T)
            <=> /\ Disjoint(c, p, F) /\ DisjointIn(c, p, M)
                /\ OwnedBy(c, p, F) \cap OwnedIn(c, p, M) = {}
  BY <1>3, <1>5, OwnedByAppend, Zenon
<1>7. /\ T \in Seq(O) /\ T # << >> /\ Len(T) = Len(F) + 1
      /\ Front(T) = F /\ Last(T) = M
  BY <1>3, <1>5, FrontAndLastOfAppend, Zenon
<1> HIDE DEF T
<1>8. /\ Disjoint(c, p, T)
      /\ OwnedBy(c, p, S) = OwnedBy(c, p, T) \cup Owned(c, p, o)
      /\ OwnedBy(c, p, T) \cap Owned(c, p, o) = {}
  BY <1>2, <1>4, <1>6
<1>9. Sound(c, T, p)
  BY <1>1, <1>7, <1>8 DEF Sound, Stacks, O
<1>10. Len(T) = Len(S) /\ Owned(c, p, o) \subseteq OwnedIn(c, p, L)
  BY <1>2, <1>4, <1>7
<1>11. WithoutLast(S) = T
  BY DEF WithoutLast, T, F, M, L
<1> QED  BY <1>3, <1>7, <1>8, <1>9, <1>10, <1>11 DEF F, L, M, o

\* What owners own: objects; where pb points matters to an OutputCtx only.
LEMMA OwnerOwns ==
    ASSUME NEW c, NEW p, NEW q, NEW o \in OwnersOf(c)
    PROVE  /\ Owned(c, p, o) \subseteq Objects
           /\ "format" \in Owned(c, p, o) <=> "format" \in Owned(c, q, o)
           /\ "format" \notin Owned(c, p, o) => Owned(c, q, o) = Owned(c, p, o)
<1>1. o \in {"CodecCtx", "EncoderCtx", "SwrCtx", "AudioFifo", "Packet", "Frame",
             "OutputCtx", "WriteAvio", "FormatCtx", "ReadAvio"}
  BY DEF OwnersOf
<1> QED  BY <1>1 DEF Owned, Objects

LEMMA StackOwns ==
    ASSUME NEW c, NEW p, NEW q, NEW S \in Stacks(c)
    PROVE  /\ OwnedBy(c, p, S) \subseteq Objects
           /\ "format" \in OwnedBy(c, p, S) <=> "format" \in OwnedBy(c, q, S)
           /\ "format" \notin OwnedBy(c, p, S) =>
                 /\ OwnedBy(c, q, S) = OwnedBy(c, p, S)
                 /\ Disjoint(c, q, S) <=> Disjoint(c, p, S)
<1>1. \A i \in 1..Len(S) : \A j \in 1..Len(S[i]) : S[i][j] \in OwnersOf(c)
  BY DEF Stacks
<1>2. \A i \in 1..Len(S) : \A j \in 1..Len(S[i]) :
         /\ Owned(c, p, S[i][j]) \subseteq Objects
         /\ "format" \in Owned(c, p, S[i][j]) <=> "format" \in Owned(c, q, S[i][j])
         /\ "format" \notin Owned(c, p, S[i][j])
               => Owned(c, q, S[i][j]) = Owned(c, p, S[i][j])
  BY <1>1, OwnerOwns, Zenon
<1>3. OwnedBy(c, p, S) \subseteq Objects
  BY <1>2 DEF OwnedBy, OwnedIn
<1>4. "format" \in OwnedBy(c, p, S) <=> "format" \in OwnedBy(c, q, S)
  BY <1>2 DEF OwnedBy, OwnedIn
<1>5. ASSUME "format" \notin OwnedBy(c, p, S)
      PROVE  /\ OwnedBy(c, q, S) = OwnedBy(c, p, S)
             /\ Disjoint(c, q, S) <=> Disjoint(c, p, S)
  <2>1. \A i \in 1..Len(S) : \A j \in 1..Len(S[i]) :
           Owned(c, q, S[i][j]) = Owned(c, p, S[i][j])
    BY <1>2, <1>5 DEF OwnedBy, OwnedIn
  <2>2. \A i \in 1..Len(S) : OwnedIn(c, q, S[i]) = OwnedIn(c, p, S[i])
    BY <2>1 DEF OwnedIn
  <2>3. \A i \in 1..Len(S) : DisjointIn(c, q, S[i]) <=> DisjointIn(c, p, S[i])
    BY <2>1 DEF DisjointIn
  <2>4. OwnedBy(c, q, S) = OwnedBy(c, p, S)
    BY <2>2 DEF OwnedBy
  <2>5. Disjoint(c, q, S) <=> Disjoint(c, p, S)
    BY <2>2, <2>3 DEF Disjoint
  <2> QED  BY <2>4, <2>5
<1> QED  BY <1>3, <1>4, <1>5, Zenon

\* Tuples put together.
LEMMA Tuple2 == ASSUME NEW a, NEW b PROVE <<a>> \o <<b>> = <<a, b>>
<1> DEFINE T == {a, b}
           s == <<a>> \o <<b>>
           u == <<a, b>>
<1>1. <<a>> \in Seq(T) /\ <<b>> \in Seq(T) /\ u \in Seq(T)
  OBVIOUS
<1>2. s \in Seq(T) /\ Len(s) = 2 /\ s[1] = a /\ s[2] = b
  BY <1>1
<1>3. Len(u) = 2 /\ u[1] = a /\ u[2] = b
  OBVIOUS
<1> HIDE DEF s, u, T
<1>4. s = u
  <2>1. \A i \in 1..Len(s) : s[i] = u[i]
    BY <1>2, <1>3
  <2> QED  BY <1>1, <1>2, <1>3, <2>1, SeqEqual
<1> QED  BY <1>4 DEF s, u

LEMMA Tuple3 ==
    ASSUME NEW a, NEW b, NEW c
    PROVE  /\ <<a, b>> \o <<c>> = <<a, b, c>>
           /\ <<a>> \o <<b, c>> = <<a, b, c>>
<1> DEFINE T == {a, b, c}
           s == <<a, b>> \o <<c>>
           t == <<a>> \o <<b, c>>
           u == <<a, b, c>>
<1>1. /\ <<a>> \in Seq(T) /\ <<c>> \in Seq(T) /\ <<a, b>> \in Seq(T)
      /\ <<b, c>> \in Seq(T) /\ u \in Seq(T)
  OBVIOUS
<1>2. s \in Seq(T) /\ Len(s) = 3 /\ s[1] = a /\ s[2] = b /\ s[3] = c
  BY <1>1
<1>3. t \in Seq(T) /\ Len(t) = 3 /\ t[1] = a /\ t[2] = b /\ t[3] = c
  BY <1>1
<1>4. Len(u) = 3 /\ u[1] = a /\ u[2] = b /\ u[3] = c
  OBVIOUS
<1>5. 1..3 = {1, 2, 3}
  OBVIOUS
<1> HIDE DEF s, t, u, T
<1>6. s = u
  <2>1. \A i \in 1..Len(s) : s[i] = u[i]
    BY <1>2, <1>4, <1>5
  <2> QED  BY <1>1, <1>2, <1>4, <2>1, SeqEqual
<1>7. t = u
  <2>1. \A i \in 1..Len(t) : t[i] = u[i]
    BY <1>3, <1>4, <1>5
  <2> QED  BY <1>1, <1>3, <1>4, <2>1, SeqEqual
<1> QED  BY <1>6, <1>7 DEF s, t, u

LEMMA Tuple4 ==
    <<"format">> \o <<"buffer", "avio", "cursor">>
        = <<"format", "buffer", "avio", "cursor">>
<1> DEFINE T == {"format", "buffer", "avio", "cursor"}
           s == <<"format">> \o <<"buffer", "avio", "cursor">>
           u == <<"format", "buffer", "avio", "cursor">>
<1>1. /\ <<"format">> \in Seq(T) /\ u \in Seq(T)
      /\ <<"buffer", "avio", "cursor">> \in Seq(T)
  OBVIOUS
<1>2. /\ s \in Seq(T) /\ Len(s) = 4 /\ s[1] = "format" /\ s[2] = "buffer"
      /\ s[3] = "avio" /\ s[4] = "cursor"
  BY <1>1
<1>3. /\ Len(u) = 4 /\ u[1] = "format" /\ u[2] = "buffer" /\ u[3] = "avio"
      /\ u[4] = "cursor"
  OBVIOUS
<1>4. 1..4 = {1, 2, 3, 4}
  OBVIOUS
<1> HIDE DEF s, u, T
<1>5. \A i \in 1..Len(s) : s[i] = u[i]
  BY <1>2, <1>3, <1>4
<1>6. s = u
  BY <1>1, <1>2, <1>3, <1>5, SeqEqual
<1> QED  BY <1>6 DEF s, u

\* What is to go is in the list of what is to be released.
LEMMA ToGo1 == ASSUME NEW a PROVE ToGo(<<a>>) = {a} \ {"pb"}
BY DEF ToGo

LEMMA ToGo2 == ASSUME NEW a, NEW b PROVE ToGo(<<a, b>>) = {a, b} \ {"pb"}
<1>1. 1..2 = {1, 2}
  OBVIOUS
<1> QED  BY <1>1 DEF ToGo

LEMMA ToGo3 ==
    ASSUME NEW a, NEW b, NEW c PROVE ToGo(<<a, b, c>>) = {a, b, c} \ {"pb"}
<1>1. 1..3 = {1, 2, 3}
  OBVIOUS
<1> QED  BY <1>1 DEF ToGo

LEMMA ToGo4 == ToGo(<<"format", "buffer", "avio", "cursor">>)
                  = {"format", "buffer", "avio", "cursor"}
<1>1. 1..4 = {1, 2, 3, 4}
  OBVIOUS
<1> QED  BY <1>1 DEF ToGo

\* Releasing the first object of an ending leaves an ending without it.
Shortens(d, h, t) ==
    /\ t \in Endings
    /\ ToGo(t) = ToGo(d) \ {h}
    /\ h # "pb" => h \in ToGo(d)
    /\ h = "pb" => d = <<"pb", "format">>
    /\ h = "format" => d \in {<<"format">>, <<"format", "buffer", "avio", "cursor">>}
    /\ h = "buffer" => "avio" \in ToGo(d)
    /\ t = <<"format">> => h = "pb"
    /\ t # <<"format", "buffer", "avio", "cursor">>
    /\ t \in Unsettled <=> d \in Unsettled /\ h # "pb"

LEMMA EndingTail ==
    ASSUME NEW d \in Endings, d # << >>
    PROVE  Shortens(d, Head(d), Tail(d))
<1>1. CASE d \in {<<"format">>, <<"cursor">>, <<"sink">>, <<"codec">>, <<"swr">>,
                  <<"fifo">>, <<"packet">>, <<"frame">>}
  <2>1. PICK a : d = <<a>> /\ a # "pb" /\ a # "buffer"
    BY <1>1
  <2>2. Tail(d) = << >> /\ Head(d) = a /\ d \notin Unsettled
    BY <2>1 DEF Unsettled
  <2>3. ToGo(d) = {a} /\ ToGo(<< >>) = {}
    BY <2>1, ToGo1 DEF ToGo
  <2>4. << >> \in Endings
    BY DEF Endings
  <2>5. /\ a = "format" => d = <<"format">>
        /\ << >> \notin Unsettled
    BY <2>1 DEF Unsettled
  <2> QED  BY <2>1, <2>2, <2>3, <2>4, <2>5 DEF Shortens
<1>2. CASE d \in {<<"pb", "format">>, <<"avio", "cursor">>, <<"avio", "sink">>}
  <2>1. ASSUME NEW a, NEW b, d = <<a, b>>, <<b>> \in Endings, a # b, b # "pb",
               a = "pb" <=> b = "format", a = "pb" <=> d = <<"pb", "format">>,
               a # "format", a # "buffer",
               a # "pb" => d \notin Unsettled
        PROVE  Shortens(d, Head(d), Tail(d))
    <3>1. Tail(d) = <<b>> /\ Head(d) = a
      BY <2>1
    <3>2. ToGo(d) = {a, b} \ {"pb"}
      BY <2>1, ToGo2, Zenon
    <3>3. ToGo(<<b>>) = {b}
      BY <2>1, ToGo1
    <3>4. /\ <<b>> = <<"format">> <=> b = "format"
          /\ <<b>> # <<"format", "buffer", "avio", "cursor">>
          /\ <<b>> \notin Unsettled
      BY DEF Unsettled
    <3> QED  BY <2>1, <3>1, <3>2, <3>3, <3>4 DEF Shortens
  <2>2. <<"format">> \in Endings /\ <<"cursor">> \in Endings /\ <<"sink">> \in Endings
    BY DEF Endings
  <2>3. <<"avio", "cursor">> \notin Unsettled /\ <<"avio", "sink">> \notin Unsettled
    BY DEF Unsettled
  <2>4. CASE d = <<"pb", "format">>
    BY <2>1, <2>2, <2>4
  <2>5. CASE d = <<"avio", "cursor">>
    BY <2>1, <2>2, <2>3, <2>5
  <2>6. CASE d = <<"avio", "sink">>
    BY <2>1, <2>2, <2>3, <2>6
  <2> QED  BY <1>2, <2>4, <2>5, <2>6
<1>3. CASE d \in {<<"file", "pb", "format">>, <<"buffer", "avio", "cursor">>,
                  <<"buffer", "avio", "sink">>}
  <2>1. ASSUME NEW a, NEW b, NEW c, d = <<a, b, c>>, <<b, c>> \in Endings,
               a # "pb", a # b, a # c, a # "format", a = "buffer" => b = "avio",
               d \in Unsettled <=> <<b, c>> \in Unsettled
        PROVE  Shortens(d, Head(d), Tail(d))
    <3>1. Tail(d) = <<b, c>> /\ Head(d) = a
      BY <2>1
    <3>2. ToGo(d) = {a, b, c} \ {"pb"}
      BY <2>1, ToGo3, Zenon
    <3>3. ToGo(<<b, c>>) = {b, c} \ {"pb"}
      BY ToGo2, Zenon
    <3>4. /\ <<b, c>> # <<"format">>
          /\ <<b, c>> # <<"format", "buffer", "avio", "cursor">>
      OBVIOUS
    <3> QED  BY <2>1, <3>1, <3>2, <3>3, <3>4 DEF Shortens
  <2>2. /\ <<"pb", "format">> \in Endings /\ <<"avio", "cursor">> \in Endings
        /\ <<"avio", "sink">> \in Endings /\ <<"pb", "format">> \in Unsettled
    BY DEF Endings, Unsettled
  <2>3. /\ <<"buffer", "avio", "cursor">> \notin Unsettled
        /\ <<"buffer", "avio", "sink">> \notin Unsettled
        /\ <<"avio", "cursor">> \notin Unsettled
        /\ <<"avio", "sink">> \notin Unsettled
        /\ <<"file", "pb", "format">> \in Unsettled
    BY DEF Unsettled
  <2>4. CASE d = <<"file", "pb", "format">>
    BY <2>1, <2>2, <2>3, <2>4
  <2>5. CASE d = <<"buffer", "avio", "cursor">>
    BY <2>1, <2>2, <2>3, <2>5
  <2>6. CASE d = <<"buffer", "avio", "sink">>
    BY <2>1, <2>2, <2>3, <2>6
  <2> QED  BY <1>3, <2>4, <2>5, <2>6
<1>4. CASE d = <<"format", "buffer", "avio", "cursor">>
  <2>1. /\ Tail(d) = <<"buffer", "avio", "cursor">> /\ Head(d) = "format"
        /\ d \notin Unsettled /\ Tail(d) \notin Unsettled /\ Tail(d) # <<"format">>
        /\ Tail(d) # <<"format", "buffer", "avio", "cursor">>
    BY <1>4 DEF Unsettled
  <2>2. ToGo(d) = {"format", "buffer", "avio", "cursor"}
    BY <1>4, ToGo4
  <2>3. ToGo(<<"buffer", "avio", "cursor">>) = {"buffer", "avio", "cursor"}
    BY ToGo3
  <2>4. <<"buffer", "avio", "cursor">> \in Endings
    BY DEF Endings
  <2> QED  BY <1>4, <2>1, <2>2, <2>3, <2>4 DEF Shortens
<1> QED  BY <1>1, <1>2, <1>3, <1>4 DEF Endings

\* An owner releases, in an order that ends well, what it owns.
EndsWell(d, o) ==
    /\ d \in Endings
    /\ ToGo(d) = Owned(call, pb, o)
    /\ d = <<"format">> => pb = "NULL"
    /\ d = <<"format", "buffer", "avio", "cursor">> => call \in FromBytes
    /\ o = "OutputCtx" <=> d \in Unsettled

LEMMA ReleasesWhatItOwns ==
    ASSUME call \in DOMAIN Program, pb \in Targets(call),
           NEW o \in OwnersOf(call)
    PROVE  EndsWell(Releases(o), o)
<1>1. call \in {"info", "info_bytes", "load", "load_bytes", "save", "save_bytes"}
  BY DEF Program
<1>2. CASE o \in {"CodecCtx", "EncoderCtx", "SwrCtx", "AudioFifo", "Packet", "Frame"}
  <2>1. PICK x : /\ x \in {"codec", "swr", "fifo", "packet", "frame"}
                 /\ Releases(o) = <<x>> /\ Owned(call, pb, o) = {x}
    BY <1>2 DEF Releases, Owned
  <2>2. ToGo(<<x>>) = {x}
    BY <2>1, ToGo1
  <2>3. /\ <<x>> \in Endings /\ <<x>> # <<"format">>
        /\ <<x>> # <<"format", "buffer", "avio", "cursor">>
        /\ <<x>> \notin Unsettled
    BY <2>1 DEF Endings, Unsettled
  <2> QED  BY <1>2, <2>1, <2>2, <2>3 DEF EndsWell
<1>3. CASE o \in {"ReadAvio", "WriteAvio"}
  <2>1. PICK x : /\ x \in {"cursor", "sink"}
                 /\ Releases(o) = <<"buffer", "avio", x>>
                 /\ Owned(call, pb, o) = {"buffer", "avio", x}
    BY <1>3 DEF Releases, AvioDrop, Owned
  <2>2. ToGo(<<"buffer", "avio", x>>) = {"buffer", "avio", x}
    BY <2>1, ToGo3
  <2>3. /\ <<"buffer", "avio", x>> \in Endings /\ <<"buffer", "avio", x>> # <<"format">>
        /\ <<"buffer", "avio", x>> # <<"format", "buffer", "avio", "cursor">>
        /\ <<"buffer", "avio", x>> \notin Unsettled
    BY <2>1 DEF Endings, Unsettled
  <2> QED  BY <1>3, <2>1, <2>2, <2>3 DEF EndsWell
<1>4. CASE o = "FormatCtx" /\ call \in FromBytes
  <2>1. Releases(o) = <<"format", "buffer", "avio", "cursor">>
    BY <1>4, Tuple4 DEF Releases, FormatCtxDrop, AvioDrop, FromBytes
  <2>2. Owned(call, pb, o) = {"format", "buffer", "avio", "cursor"}
    BY <1>4 DEF Owned
  <2>3. /\ <<"format", "buffer", "avio", "cursor">> \in Endings
        /\ <<"format", "buffer", "avio", "cursor">> # <<"format">>
        /\ <<"format", "buffer", "avio", "cursor">> \notin Unsettled
    BY DEF Endings, Unsettled
  <2> QED  BY <1>4, <2>1, <2>2, <2>3, ToGo4 DEF EndsWell
<1>5. CASE o = "FormatCtx" /\ call \notin FromBytes
  <2>1. Releases(o) = <<"format">>
    <3>1. <<"format">> \o << >> = <<"format">>
      OBVIOUS
    <3> QED  BY <1>5, <3>1 DEF Releases, FormatCtxDrop, FromBytes
  <2>2. call \notin ToFile
    BY <1>5 DEF OwnersOf
  <2>3. pb = "NULL"
    BY <1>1, <1>5, <2>2 DEF Targets, FromBytes, ToFile
  <2>4. Owned(call, pb, o) = {"format"} /\ ToGo(<<"format">>) = {"format"}
    BY <1>5, ToGo1 DEF Owned
  <2>5. /\ <<"format">> \in Endings /\ <<"format">> \notin Unsettled
        /\ <<"format", "buffer", "avio", "cursor">> # <<"format">>
    BY DEF Endings, Unsettled
  <2> QED  BY <1>5, <2>1, <2>3, <2>4, <2>5 DEF EndsWell
<1>6. CASE o = "OutputCtx" /\ call = "save" /\ pb # "NULL"
  <2>1. Releases(o) = <<"file", "pb", "format">>
    <3>1. <<"file">> \o <<"pb", "format">> = <<"file", "pb", "format">>
      BY Tuple3
    <3> QED  BY <1>6, <3>1 DEF Releases, OutputCtxDrop
  <2>2. Owned(call, pb, o) = {"format", "file"}
    BY <1>6 DEF Owned
  <2>3. ToGo(<<"file", "pb", "format">>) = {"format", "file"}
    BY ToGo3
  <2>4. /\ <<"file", "pb", "format">> \in Endings
        /\ <<"file", "pb", "format">> \in Unsettled
        /\ <<"file", "pb", "format">> # <<"format">>
        /\ <<"file", "pb", "format">> # <<"format", "buffer", "avio", "cursor">>
    BY DEF Endings, Unsettled
  <2> QED  BY <1>6, <2>1, <2>2, <2>3, <2>4 DEF EndsWell
<1>7. CASE o = "OutputCtx" /\ ~(call = "save" /\ pb # "NULL")
  <2>1. Releases(o) = <<"pb", "format">>
    <3>1. << >> \o <<"pb", "format">> = <<"pb", "format">>
      OBVIOUS
    <3> QED  BY <1>7, <3>1 DEF Releases, OutputCtxDrop
  <2>2. Owned(call, pb, o) = {"format"}
    BY <1>7 DEF Owned
  <2>3. ToGo(<<"pb", "format">>) = {"format"}
    BY ToGo2
  <2>4. /\ <<"pb", "format">> \in Endings /\ <<"pb", "format">> \in Unsettled
        /\ <<"pb", "format">> # <<"format">>
        /\ <<"pb", "format">> # <<"format", "buffer", "avio", "cursor">>
    BY DEF Endings, Unsettled
  <2> QED  BY <1>7, <2>1, <2>2, <2>3, <2>4 DEF EndsWell
<1> QED  BY <1>2, <1>3, <1>4, <1>5, <1>6, <1>7 DEF OwnersOf

-----------------------------------------------------------------------------
(* Steps and functions that lead from state to state.                      *)

\* A step that fits leads to the state after it.
LEMMA LeadsOneStep ==
    ASSUME NEW c, NEW w, NEW a, Fits(c, w, a)
    PROVE  Leads(c, <<w>>, a, After(c, w, a))
<1> DEFINE b == After(c, w, a)
<1> HIDE DEF b
<1>1. <<w>> \in Seq({w}) /\ Len(<<w>>) = 1 /\ <<w>>[1] = w
  OBVIOUS
<1>2. <<a, b>>[1] = a /\ <<a, b>>[2] = b /\ 1 + 1 = 2
  OBVIOUS
<1>3. Follows(c, <<w>>, <<a, b>>)
  BY <1>1, <1>2 DEF Follows, b
<1>4. \E f : f[1] = a /\ f[Len(<<w>>) + 1] = b /\ Follows(c, <<w>>, f)
  <2>1. <<a, b>>[Len(<<w>>) + 1] = b
    BY <1>1, <1>2
  <2> QED  BY <1>2, <1>3, <2>1
<1> QED  BY <1>1, <1>4, Zenon DEF Leads, b

\* What leads to where the next leads from.
LEMMA LeadsOn ==
    ASSUME NEW c, NEW s, NEW t, NEW a, NEW b, NEW e,
           Leads(c, s, a, b), Leads(c, t, b, e)
    PROVE  Leads(c, s \o t, a, e)
<1>1. PICK T : s \in Seq(T) /\ t \in Seq(T)
  <2>1. PICK U, V : s \in Seq(U) /\ t \in Seq(V)
    BY DEF Leads
  <2>2. s \in Seq(U \cup V) /\ t \in Seq(U \cup V)
    BY <2>1
  <2> QED  BY <2>2
<1>2. PICK f : f[1] = a /\ f[Len(s) + 1] = b /\ Follows(c, s, f)
  BY Zenon DEF Leads
<1>3. PICK g : g[1] = b /\ g[Len(t) + 1] = e /\ Follows(c, t, g)
  BY Zenon DEF Leads
<1> DEFINE m == Len(s)
           n == Len(t)
           u == s \o t
           h == [i \in 1..m + n + 1 |-> IF i <= m THEN f[i] ELSE g[i - m]]
<1>4. m \in Nat /\ n \in Nat
  BY <1>1
<1>5. /\ u \in Seq(T) /\ Len(u) = m + n
      /\ \A i \in 1..m : u[i] = s[i]
      /\ \A i \in 1..n : u[m + i] = t[i]
  <2>1. /\ u \in Seq(T) /\ Len(u) = m + n
        /\ \A i \in 1..m + n : u[i] = IF i <= m THEN s[i] ELSE t[i - m]
    BY <1>1, ConcatProperties
  <2>2. \A i \in 1..m : i \in 1..m + n /\ i <= m
    BY <1>4
  <2>3. \A i \in 1..n : m + i \in 1..m + n /\ ~(m + i <= m) /\ (m + i) - m = i
    BY <1>4
  <2> HIDE DEF u, m, n
  <2> QED  BY <2>1, <2>2, <2>3
<1>6. \A i \in 1..m + 1 : h[i] = f[i]
  <2>1. \A i \in 1..m : h[i] = f[i]
    BY <1>4
  <2>2. h[m + 1] = g[1]
    BY <1>4
  <2> QED  BY <1>2, <1>3, <1>4, <2>1, <2>2
<1>7. \A i \in 1..n + 1 : h[m + i] = g[i]
  <2> TAKE i \in 1..n + 1
  <2>1. m + i \in 1..m + n + 1 /\ ~(m + i <= m) /\ (m + i) - m = i
    BY <1>4
  <2> QED  BY <2>1
<1> HIDE DEF h, u, m, n
<1>8. h[1] = a
  BY <1>2, <1>4, <1>6
<1>9. h[(m + n) + 1] = e
  <2>1. n + 1 \in 1..n + 1 /\ m + (n + 1) = (m + n) + 1
    BY <1>4
  <2>2. h[m + (n + 1)] = g[n + 1]
    BY <1>7, <2>1
  <2> QED  BY <1>3, <2>1, <2>2 DEF n
<1>10. Follows(c, u, h)
  <2> SUFFICES ASSUME NEW i \in 1..m + n
               PROVE  Fits(c, u[i], h[i]) /\ h[i + 1] = After(c, u[i], h[i])
    BY <1>5 DEF Follows
  <2>1. CASE i \in 1..m
    <3>1. h[i] = f[i] /\ h[i + 1] = f[i + 1] /\ u[i] = s[i]
      <4>1. i \in 1..m + 1 /\ i + 1 \in 1..m + 1
        BY <1>4, <2>1
      <4> QED  BY <1>5, <1>6, <2>1, <4>1
    <3>2. Fits(c, s[i], f[i]) /\ f[i + 1] = After(c, s[i], f[i])
      BY <1>2, <2>1, Zenon DEF Follows, m
    <3> QED  BY <3>1, <3>2
  <2>2. CASE i \notin 1..m
    <3>1. PICK j \in 1..n : i = m + j
      <4>1. i - m \in 1..n /\ i = m + (i - m)
        BY <1>4, <2>2
      <4> QED  BY <4>1
    <3>2. h[i] = g[j] /\ h[i + 1] = g[j + 1] /\ u[i] = t[j]
      <4>1. j \in 1..n + 1 /\ j + 1 \in 1..n + 1 /\ i + 1 = m + (j + 1)
        BY <1>4, <3>1
      <4> QED  BY <1>5, <1>7, <3>1, <4>1
    <3>3. Fits(c, t[j], g[j]) /\ g[j + 1] = After(c, t[j], g[j])
      BY <1>3, Zenon DEF Follows, n
    <3> QED  BY <3>2, <3>3
  <2> QED  BY <2>1, <2>2
<1>11. h[Len(u) + 1] = e /\ \E U : u \in Seq(U)
  BY <1>5, <1>9
<1>12. \E x : x[1] = a /\ x[Len(u) + 1] = e /\ Follows(c, u, x)
  BY <1>8, <1>10, <1>11
<1> QED  BY <1>11, <1>12, Zenon DEF Leads, u

\* What the steps say.
LEMMA OtherStepSays ==
    ASSUME NEW does, NEW fn, NEW taken
    PROVE  LET w == Step(does, fn)
               v == [Step(does, fn) EXCEPT !.takes = taken]
           IN  /\ w.does = does /\ w.fn = fn /\ w.takes = {}
               /\ w.needs \cup w.undo = {}
               /\ v.does = does /\ v.fn = fn /\ v.takes = taken
               /\ v.needs \cup v.undo = {}
<1> QED  BY DEF Step

\* A call to FFmpeg whose objects are there.
LEMMA LeadsCall ==
    ASSUME NEW c, NEW S, NEW p, NEW A, NEW w, Sound(c, S, p),
           OwnedBy(c, p, S) \subseteq A, w.does = "call",
           Resolved(c, p, w.needs \cup w.undo) \subseteq A,
           w.fn \in Infallible \/ A \ w.undo = OwnedBy(c, p, S)
    PROVE  Leads(c, <<w>>, State(S, A, p),
                 State(S, A \cup w.makes, IF w.wires = "" THEN p ELSE w.wires))
<1> DEFINE a == State(S, A, p)
<1>1. a.scopes = S /\ a.alive = A /\ a.pb = p
  BY DEF State
<1> HIDE DEF a
<1>2. Fits(c, w, a)
  BY <1>1 DEF Fits
<1>3. After(c, w, a)
         = State(S, A \cup w.makes, IF w.wires = "" THEN p ELSE w.wires)
  BY <1>1 DEF After
<1> QED  BY <1>2, <1>3, LeadsOneStep DEF a

\* A local is declared.
LEMMA LeadsLet ==
    ASSUME NEW c, NEW S, NEW p, NEW A, NEW w, Sound(c, S, p),
           OwnedBy(c, p, S) \subseteq A, w.does = "let", w.needs \cup w.undo = {}
    PROVE  Leads(c, <<w>>, State(S, A, p),
                 State(Append(Front(S), Append(Kept(Last(S), w.takes), w.fn)), A, p))
<1> DEFINE a == State(S, A, p)
<1>1. a.scopes = S /\ a.alive = A /\ a.pb = p
  BY DEF State
<1> HIDE DEF a
<1>2. Resolved(c, p, w.needs \cup w.undo) = {}
  BY DEF Resolved
<1>3. Fits(c, w, a)
  BY <1>1, <1>2 DEF Fits
<1>4. After(c, w, a)
         = State(Append(Front(S), Append(Kept(Last(S), w.takes), w.fn)), A, p)
  BY <1>1 DEF After
<1> QED  BY <1>3, <1>4, LeadsOneStep DEF a

\* A function is entered.
LEMMA LeadsEnter ==
    ASSUME NEW c, NEW S, NEW p, Sound(c, S, p)
    PROVE  Leads(c, Enter, Tidy(c, S, p), Tidy(c, Append(S, << >>), p))
<1> DEFINE a == Tidy(c, S, p)
           w == Step("enter", "")
<1>1. a.scopes = S /\ a.alive = OwnedBy(c, p, S) /\ a.pb = p
  BY DEF Tidy, State
<1>2. w.does = "enter" /\ w.needs \cup w.undo = {}
  BY OtherStepSays
<1> HIDE DEF a, w
<1>3. Resolved(c, p, w.needs \cup w.undo) = {}
  BY <1>2 DEF Resolved
<1>4. Fits(c, w, a)
  BY <1>1, <1>2, <1>3 DEF Fits
<1>5. OwnedBy(c, p, Append(S, << >>)) = OwnedBy(c, p, S)
  BY OneFunctionMore
<1>6. After(c, w, a) = Tidy(c, Append(S, << >>), p)
  BY <1>1, <1>2, <1>5 DEF After, Tidy
<1> QED  BY <1>4, <1>6, LeadsOneStep DEF a, w, Enter

\* A function is left whose caller owns the format context, or has no caller.
LEMMA LeadsLeave ==
    ASSUME NEW c, NEW S, NEW p, Sound(c, S, p),
           Len(S) = 1 \/ "format" \in OwnedBy(c, p, Front(S))
    PROVE  Leads(c, Leave, Tidy(c, S, p), Tidy(c, Front(S), p))
<1> DEFINE a == Tidy(c, S, p)
           w == Step("leave", "")
<1>1. a.scopes = S /\ a.alive = OwnedBy(c, p, S) /\ a.pb = p
  BY DEF Tidy, State
<1>2. w.does = "leave" /\ w.needs \cup w.undo = {}
  BY OtherStepSays
<1> HIDE DEF a, w
<1>3. Resolved(c, p, w.needs \cup w.undo) = {}
  BY <1>2 DEF Resolved
<1>4. Fits(c, w, a)
  BY <1>1, <1>2, <1>3 DEF Fits
<1>5. After(c, w, a) = Tidy(c, Front(S), p)
  BY <1>1, <1>2 DEF After
<1> QED  BY <1>4, <1>5, LeadsOneStep DEF a, w, Leave

\* A local is dropped before its function is left.
LEMMA LeadsDrop ==
    ASSUME NEW c, NEW S, NEW p, NEW owner, Sound(c, S, p), Last(S) # << >>
    PROVE  LET o == Last(Last(S))
           IN  Leads(c, DropNow(owner), Tidy(c, S, p),
                     State(WithoutLast(S), OwnedBy(c, p, S) \ Owned(c, p, o),
                           IF o = "OutputCtx" THEN "NULL" ELSE p))
<1> DEFINE a == Tidy(c, S, p)
           w == Step("drop", owner)
           o == Last(Last(S))
<1>1. a.scopes = S /\ a.alive = OwnedBy(c, p, S) /\ a.pb = p
  BY DEF Tidy, State
<1>2. w.does = "drop" /\ w.needs \cup w.undo = {}
  BY OtherStepSays
<1> HIDE DEF a, w
<1>3. Resolved(c, p, w.needs \cup w.undo) = {}
  BY <1>2 DEF Resolved
<1>4. Fits(c, w, a)
  BY <1>1, <1>2, <1>3 DEF Fits
<1>5. After(c, w, a)
         = State(WithoutLast(S), OwnedBy(c, p, S) \ Owned(c, p, o),
                 IF o = "OutputCtx" THEN "NULL" ELSE p)
  BY <1>1, <1>2 DEF After
<1> QED  BY <1>4, <1>5, LeadsOneStep DEF a, w, DropNow
-----------------------------------------------------------------------------
(* What a piece of a function does to any stack that owns A.               *)

\* From a stack that owns A, with X not owned yet, s leads to one that owns B,
\* with Y not owned yet; it declares locals in the last function only.
Turns(c, p, s, A, X, B, Y) ==
    \A S : Sound(c, S, p) /\ OwnedBy(c, p, S) = A =>
        \E T : /\ Sound(c, T, p) /\ OwnedBy(c, p, T) = B
               /\ Front(T) = Front(S)
               /\ Leads(c, s, State(S, A \cup X, p), State(T, B \cup Y, p))

\* s ends with the locals it began with.
Keeps(c, p, s, A) ==
    \A S : Sound(c, S, p) /\ OwnedBy(c, p, S) = A =>
        Leads(c, s, Tidy(c, S, p), Tidy(c, S, p))

LEMMA TurnsOn ==
    ASSUME NEW c, NEW p, NEW s, NEW t, NEW A, NEW X, NEW B, NEW Y, NEW C, NEW Z,
           Turns(c, p, s, A, X, B, Y), Turns(c, p, t, B, Y, C, Z)
    PROVE  Turns(c, p, s \o t, A, X, C, Z)
<1> SUFFICES ASSUME NEW S, Sound(c, S, p), OwnedBy(c, p, S) = A
             PROVE  \E U : /\ Sound(c, U, p) /\ OwnedBy(c, p, U) = C
                           /\ Front(U) = Front(S)
                           /\ Leads(c, s \o t, State(S, A \cup X, p),
                                    State(U, C \cup Z, p))
  BY DEF Turns
<1>1. PICK T : /\ Sound(c, T, p) /\ OwnedBy(c, p, T) = B /\ Front(T) = Front(S)
               /\ Leads(c, s, State(S, A \cup X, p), State(T, B \cup Y, p))
  BY DEF Turns
<1>2. PICK U : /\ Sound(c, U, p) /\ OwnedBy(c, p, U) = C /\ Front(U) = Front(T)
               /\ Leads(c, t, State(T, B \cup Y, p), State(U, C \cup Z, p))
  BY <1>1 DEF Turns
<1>3. Leads(c, s \o t, State(S, A \cup X, p), State(U, C \cup Z, p))
  BY <1>1, <1>2, LeadsOn
<1> QED  BY <1>1, <1>2, <1>3

\* pb is among what a step works on, or not: what is behind it is there.
LEMMA ResolvedIn ==
    ASSUME NEW c, NEW p, NEW needs, NEW A, BehindIn(c, p) \subseteq A,
           needs \subseteq A \cup {"pb"}
    PROVE  Resolved(c, p, needs) \subseteq A
BY DEF Resolved

LEMMA TurnsUse ==
    ASSUME NEW c, NEW p, NEW fn, NEW needs, NEW A, BehindIn(c, p) \subseteq A,
           needs \subseteq A \cup {"pb"}
    PROVE  /\ Turns(c, p, <<Use(fn, needs)>>, A, {}, A, {})
           /\ Keeps(c, p, <<Use(fn, needs)>>, A)
<1> DEFINE w == Use(fn, needs)
<1>1. /\ w.does = "call" /\ w.needs = needs /\ w.undo = {} /\ w.makes = {}
      /\ w.wires = ""
  BY DEF Use, Step
<1>2. Resolved(c, p, needs) \subseteq A
  BY ResolvedIn
<1> HIDE DEF w
<1>3. ASSUME NEW S, Sound(c, S, p), OwnedBy(c, p, S) = A
      PROVE  Leads(c, <<w>>, State(S, A, p), State(S, A, p))
  <2>1. A \ w.undo = A /\ w.needs \cup w.undo = needs /\ A \cup w.makes = A
    BY <1>1
  <2>2. Leads(c, <<w>>, State(S, A, p),
              State(S, A \cup w.makes, IF w.wires = "" THEN p ELSE w.wires))
    BY <1>1, <1>2, <1>3, <2>1, LeadsCall
  <2> QED  BY <1>1, <2>1, <2>2
<1>4. Keeps(c, p, <<w>>, A)
  BY <1>3 DEF Keeps, Tidy
<1>5. Turns(c, p, <<w>>, A, {}, A, {})
  <2>1. A \cup {} = A
    OBVIOUS
  <2> QED  BY <1>3, <2>1 DEF Turns
<1> QED  BY <1>4, <1>5 DEF w

LEMMA TurnsMake ==
    ASSUME NEW c, NEW p, NEW fn, NEW needs, NEW x, NEW A,
           BehindIn(c, p) \subseteq A, needs \subseteq A \cup {"pb"}
    PROVE  Turns(c, p, <<Make(fn, needs, x)>>, A, {}, A, {x})
<1> DEFINE w == Make(fn, needs, x)
<1>1. /\ w.does = "call" /\ w.needs = needs /\ w.undo = {} /\ w.makes = {x}
      /\ w.wires = ""
  BY DEF Make, Use, Step
<1>2. Resolved(c, p, needs) \subseteq A
  BY ResolvedIn
<1> HIDE DEF w
<1>3. ASSUME NEW S, Sound(c, S, p), OwnedBy(c, p, S) = A
      PROVE  Leads(c, <<w>>, State(S, A, p), State(S, A \cup {x}, p))
  <2>1. A \ w.undo = A /\ w.needs \cup w.undo = needs
    BY <1>1
  <2>2. Leads(c, <<w>>, State(S, A, p),
              State(S, A \cup w.makes, IF w.wires = "" THEN p ELSE w.wires))
    BY <1>1, <1>2, <1>3, <2>1, LeadsCall
  <2> QED  BY <1>1, <2>2
<1>4. Turns(c, p, <<w>>, A, {}, A, {x})
  <2>1. A \cup {} = A
    OBVIOUS
  <2> QED  BY <1>3, <2>1 DEF Turns
<1> QED  BY <1>4 DEF w

LEMMA TurnsLet ==
    ASSUME NEW c, NEW p, NEW o \in OwnersOf(c), NEW x, NEW A,
           Owned(c, p, o) = {x}, x \notin A
    PROVE  Turns(c, p, Let(o), A, {x}, A \cup {x}, {})
<1> DEFINE w == Step("let", o)
<1>1. w.does = "let" /\ w.fn = o /\ w.takes = {} /\ w.needs \cup w.undo = {}
  BY OtherStepSays
<1> HIDE DEF w
<1>2. ASSUME NEW S, Sound(c, S, p), OwnedBy(c, p, S) = A
      PROVE  /\ Sound(c, With(S, o), p) /\ Front(With(S, o)) = Front(S)
             /\ OwnedBy(c, p, With(S, o)) = A \cup {x}
             /\ Leads(c, <<w>>, State(S, A \cup {x}, p),
                      State(With(S, o), (A \cup {x}) \cup {}, p))
  <2>1. Kept(Last(S), w.takes) = Last(S)
    BY <1>1 DEF Kept
  <2>2. Leads(c, <<w>>, State(S, A \cup {x}, p), State(With(S, o), A \cup {x}, p))
    BY <1>1, <1>2, <2>1, LeadsLet DEF With
  <2>3. (A \cup {x}) \cup {} = A \cup {x}
    OBVIOUS
  <2>4. /\ Sound(c, With(S, o), p) /\ Front(With(S, o)) = Front(S)
        /\ OwnedBy(c, p, With(S, o)) = A \cup {x}
    <3>1. OwnedBy(c, p, S) \cap Owned(c, p, o) = {}
      BY <1>2
    <3> QED  BY <1>2, <3>1, OneLocalMore
  <2> QED  BY <2>2, <2>3, <2>4
<1>3. Turns(c, p, <<w>>, A, {x}, A \cup {x}, {})
  BY <1>2 DEF Turns
<1> QED  BY <1>3 DEF w, Let

\* A function called by another, which owns the format context, leaves the
\* locals of the other alone and drops its own.
LEMMA KeepsBody ==
    ASSUME NEW c, NEW p, NEW s, NEW A, NEW B, Turns(c, p, s, A, {}, B, {}),
           "format" \in A
    PROVE  /\ Keeps(c, p, Body(s), A)
           /\ Turns(c, p, Body(s), A, {}, A, {})
<1> DEFINE f == Body(s)
<1>1. ASSUME NEW S, Sound(c, S, p), OwnedBy(c, p, S) = A
      PROVE  Leads(c, f, Tidy(c, S, p), Tidy(c, S, p))
  <2> DEFINE E == Append(S, << >>)
  <2>1. Sound(c, E, p) /\ OwnedBy(c, p, E) = A /\ Front(E) = S
    BY <1>1, OneFunctionMore
  <2>2. Leads(c, Enter, Tidy(c, S, p), Tidy(c, E, p))
    BY <1>1, LeadsEnter
  <2> HIDE DEF E
  <2>3. PICK T : /\ Sound(c, T, p) /\ OwnedBy(c, p, T) = B /\ Front(T) = S
                 /\ Leads(c, s, State(E, A \cup {}, p), State(T, B \cup {}, p))
    BY <2>1 DEF Turns
  <2>4. Leads(c, s, Tidy(c, E, p), Tidy(c, T, p))
    <3>1. A \cup {} = A /\ B \cup {} = B
      OBVIOUS
    <3> QED  BY <2>1, <2>3, <3>1 DEF Tidy
  <2>5. Leads(c, Leave, Tidy(c, T, p), Tidy(c, S, p))
    BY <1>1, <2>3, LeadsLeave
  <2>6. Leads(c, Enter \o s, Tidy(c, S, p), Tidy(c, T, p))
    BY <2>2, <2>4, LeadsOn
  <2> QED  BY <2>5, <2>6, LeadsOn DEF Body
<1> HIDE DEF f
<1>2. Keeps(c, p, f, A)
  BY <1>1 DEF Keeps
<1>3. Turns(c, p, f, A, {}, A, {})
  <2>1. A \cup {} = A
    OBVIOUS
  <2> QED  BY <1>1, <2>1 DEF Turns, Tidy
<1> QED  BY <1>2, <1>3 DEF f

LEMMA TurnsAcquire ==
    ASSUME NEW c, NEW p, NEW fn, NEW needs, NEW x, NEW o \in OwnersOf(c), NEW A,
           BehindIn(c, p) \subseteq A, needs \subseteq A \cup {"pb"},
           Owned(c, p, o) = {x}, x \notin A
    PROVE  Turns(c, p, Acquire(fn, needs, x, o), A, {}, A \cup {x}, {})
<1>1. Turns(c, p, <<Make(fn, needs, x)>>, A, {}, A, {x})
  BY TurnsMake
<1>2. Turns(c, p, Let(o), A, {x}, A \cup {x}, {})
  BY TurnsLet
<1> QED  BY <1>1, <1>2, TurnsOn DEF Acquire

\* Several calls of which none makes anything.
LEMMA TurnsUse2 ==
    ASSUME NEW c, NEW p, NEW A, BehindIn(c, p) \subseteq A,
           NEW fn1, NEW needs1, needs1 \subseteq A \cup {"pb"},
           NEW fn2, NEW needs2, needs2 \subseteq A \cup {"pb"}
    PROVE  Turns(c, p, <<Use(fn1, needs1), Use(fn2, needs2)>>, A, {}, A, {})
<1> DEFINE u == Use(fn1, needs1)
           v == Use(fn2, needs2)
<1>1. Turns(c, p, <<u>>, A, {}, A, {}) /\ Turns(c, p, <<v>>, A, {}, A, {})
  BY TurnsUse
<1> HIDE DEF u, v
<1>2. Turns(c, p, <<u>> \o <<v>>, A, {}, A, {})
  BY <1>1, TurnsOn
<1>3. <<u>> \o <<v>> = <<u, v>>
  BY Tuple2
<1> QED  BY <1>2, <1>3 DEF u, v

LEMMA TurnsUse3 ==
    ASSUME NEW c, NEW p, NEW A, BehindIn(c, p) \subseteq A,
           NEW fn1, NEW needs1, needs1 \subseteq A \cup {"pb"},
           NEW fn2, NEW needs2, needs2 \subseteq A \cup {"pb"},
           NEW fn3, NEW needs3, needs3 \subseteq A \cup {"pb"}
    PROVE  Turns(c, p, <<Use(fn1, needs1), Use(fn2, needs2), Use(fn3, needs3)>>,
                 A, {}, A, {})
<1> DEFINE t == Use(fn1, needs1)
           u == Use(fn2, needs2)
           v == Use(fn3, needs3)
<1>1. Turns(c, p, <<t>>, A, {}, A, {})
  BY TurnsUse
<1>2. Turns(c, p, <<u, v>>, A, {}, A, {})
  BY TurnsUse2
<1> HIDE DEF t, u, v
<1>3. Turns(c, p, <<t>> \o <<u, v>>, A, {}, A, {})
  BY <1>1, <1>2, TurnsOn
<1>4. <<t>> \o <<u, v>> = <<t, u, v>>
  BY Tuple3
<1> QED  BY <1>3, <1>4 DEF t, u, v
-----------------------------------------------------------------------------
(* The functions of loader.rs, encoder.rs and util.rs.                     *)

LEMMA TurnsPacketAndFrame ==
    ASSUME NEW c, NEW p, NEW A, BehindIn(c, p) \subseteq A,
           "packet" \notin A, "frame" \notin A
    PROVE  Turns(c, p, PacketAndFrame, A, {}, A \cup {"packet", "frame"}, {})
<1> DEFINE B == A \cup {"packet"}
           m == Acquire("av_packet_alloc", {}, "packet", "Packet")
           n == Acquire("av_frame_alloc", {}, "frame", "Frame")
<1>1. Turns(c, p, m, A, {}, B, {})
  <2>1. "Packet" \in OwnersOf(c) /\ Owned(c, p, "Packet") = {"packet"}
    BY DEF OwnersOf, Owned
  <2> QED  BY <2>1, TurnsAcquire
<1>2. Turns(c, p, n, B, {}, B \cup {"frame"}, {})
  <2>1. "Frame" \in OwnersOf(c) /\ Owned(c, p, "Frame") = {"frame"}
    BY DEF OwnersOf, Owned
  <2>2. "frame" \notin B /\ BehindIn(c, p) \subseteq B
    OBVIOUS
  <2> HIDE DEF B
  <2> QED  BY <2>1, <2>2, TurnsAcquire
<1>3. B \cup {"frame"} = A \cup {"packet", "frame"}
  OBVIOUS
<1> HIDE DEF B, m, n
<1>4. Turns(c, p, m \o n, A, {}, B \cup {"frame"}, {})
  BY <1>1, <1>2, TurnsOn
<1> QED  BY <1>3, <1>4 DEF PacketAndFrame, m, n

LEMMA TurnsSwrNew ==
    ASSUME NEW c, NEW p, NEW A, BehindIn(c, p) \subseteq A, "swr" \notin A,
           NEW needs, needs \subseteq A
    PROVE  Turns(c, p, SwrNew(needs), A, {}, A \cup {"swr"}, {})
<1> DEFINE B == A \cup {"swr"}
           m == Acquire("swr_alloc_set_opts2", needs, "swr", "SwrCtx")
           n == <<Use("swr_init", {"swr"})>>
<1>1. Turns(c, p, m, A, {}, B, {})
  <2>1. "SwrCtx" \in OwnersOf(c) /\ Owned(c, p, "SwrCtx") = {"swr"}
    BY DEF OwnersOf, Owned
  <2>2. needs \subseteq A \cup {"pb"}
    OBVIOUS
  <2> QED  BY <2>1, <2>2, TurnsAcquire
<1>2. Turns(c, p, n, B, {}, B, {})
  <2>1. BehindIn(c, p) \subseteq B /\ {"swr"} \subseteq B \cup {"pb"}
    OBVIOUS
  <2> HIDE DEF B
  <2> QED  BY <2>1, TurnsUse
<1> HIDE DEF B, m, n
<1>3. Turns(c, p, m \o n, A, {}, B, {})
  BY <1>1, <1>2, TurnsOn
<1> QED  BY <1>3 DEF SwrNew, B, m, n

\* OpenAudio, for a call that loads.
LEMMA TurnsOpenAudio ==
    ASSUME NEW c, NEW p, NEW A, BehindIn(c, p) \subseteq A, "format" \in A,
           "codec" \notin A
    PROVE  Turns(c, p, OpenAudio, A, {}, A \cup {"codec"}, {})
<1> DEFINE B == A \cup {"codec"}
           l == <<Use("av_find_best_stream", {"format"}),
                  Use("avcodec_find_decoder", {"format"})>>
           m == Acquire("avcodec_alloc_context3", {}, "codec", "CodecCtx")
           n == <<Use("avcodec_parameters_to_context", {"codec", "format"}),
                  Use("avcodec_open2", {"codec"})>>
<1>1. Turns(c, p, l, A, {}, A, {})
  <2>1. {"format"} \subseteq A \cup {"pb"}
    OBVIOUS
  <2> QED  BY <2>1, TurnsUse2
<1>2. Turns(c, p, m, A, {}, B, {})
  <2>1. "CodecCtx" \in OwnersOf(c) /\ Owned(c, p, "CodecCtx") = {"codec"}
    BY DEF OwnersOf, Owned
  <2> QED  BY <2>1, TurnsAcquire
<1>3. Turns(c, p, n, B, {}, B, {})
  <2>1. /\ BehindIn(c, p) \subseteq B /\ {"codec"} \subseteq B \cup {"pb"}
        /\ {"codec", "format"} \subseteq B \cup {"pb"}
    OBVIOUS
  <2> HIDE DEF B
  <2> QED  BY <2>1, TurnsUse2
<1> HIDE DEF B, l, m, n
<1>4. Turns(c, p, l \o m, A, {}, B, {})
  BY <1>1, <1>2, TurnsOn
<1>5. Turns(c, p, (l \o m) \o n, A, {}, B, {})
  BY <1>3, <1>4, TurnsOn
<1> QED  BY <1>5 DEF OpenAudio, B, l, m, n

LEMMA TurnsInfoFromCtx ==
    ASSUME NEW c, NEW p, NEW A, BehindIn(c, p) \subseteq A, "format" \in A
    PROVE  Turns(c, p, InfoFromCtx, A, {}, A, {})
<1>1. {"format"} \subseteq A \cup {"pb"}
  OBVIOUS
<1> QED  BY <1>1, TurnsUse2 DEF InfoFromCtx

Loaded == {"codec", "swr", "packet", "frame"}

LEMMA TurnsLoadFromCtx ==
    ASSUME NEW c, NEW p, NEW A, BehindIn(c, p) \subseteq A, "format" \in A,
           A \cap Loaded = {}
    PROVE  Turns(c, p, LoadFromCtx, A, {}, A \cup Loaded, {})
<1> DEFINE B == A \cup {"codec"}
           C == B \cup {"swr"}
           D == C \cup {"packet", "frame"}
           k == <<Use("stream parameters", {"codec"})>>
           l == SwrNew({"codec"})
           n == <<Use("av_seek_frame", {"format", "pb", "codec"}),
                  Use("decode", {"format", "pb", "codec", "swr", "packet",
                                 "frame"})>>
<1>1. /\ BehindIn(c, p) \subseteq B /\ BehindIn(c, p) \subseteq C
      /\ BehindIn(c, p) \subseteq D /\ D = A \cup Loaded
      /\ "codec" \notin A /\ "swr" \notin B /\ {"packet", "frame"} \cap C = {}
      /\ {"codec"} \subseteq B
      /\ {"format", "codec", "swr", "packet", "frame"} \subseteq D
  BY DEF Loaded
<1> HIDE DEF B, C, D
<1>2. Turns(c, p, OpenAudio, A, {}, B, {})
  BY <1>1, TurnsOpenAudio DEF B
<1>3. Turns(c, p, k, B, {}, B, {})
  <2>1. {"codec"} \subseteq B \cup {"pb"}
    BY <1>1
  <2> QED  BY <1>1, <2>1, TurnsUse
<1>4. Turns(c, p, l, B, {}, C, {})
  BY <1>1, TurnsSwrNew DEF C
<1>5. Turns(c, p, PacketAndFrame, C, {}, D, {})
  <2>1. "packet" \notin C /\ "frame" \notin C
    BY <1>1
  <2> QED  BY <1>1, <2>1, TurnsPacketAndFrame DEF D
<1>6. Turns(c, p, n, D, {}, D, {})
  <2>1. /\ {"format", "pb", "codec"} \subseteq D \cup {"pb"}
        /\ {"format", "pb", "codec", "swr", "packet", "frame"} \subseteq D \cup {"pb"}
    BY <1>1
  <2> QED  BY <1>1, <2>1, TurnsUse2
<1> HIDE DEF k, l, n
<1>7. Turns(c, p, OpenAudio \o k, A, {}, B, {})
  BY <1>2, <1>3, TurnsOn
<1>8. Turns(c, p, (OpenAudio \o k) \o l, A, {}, C, {})
  BY <1>4, <1>7, TurnsOn
<1>9. Turns(c, p, ((OpenAudio \o k) \o l) \o PacketAndFrame, A, {}, D, {})
  BY <1>5, <1>8, TurnsOn
<1>10. Turns(c, p, (((OpenAudio \o k) \o l) \o PacketAndFrame) \o n, A, {}, D, {})
  BY <1>6, <1>9, TurnsOn
<1> QED  BY <1>1, <1>10 DEF LoadFromCtx, k, l, n

\* encode_loop gives back what it allocates.
LEMMA TurnsEncodeLoop ==
    ASSUME NEW c, NEW p, NEW A, BehindIn(c, p) \subseteq A,
           {"format", "codec", "swr", "fifo"} \subseteq A,
           "packet" \notin A, "frame" \notin A
    PROVE  Turns(c, p, EncodeLoop, A, {}, A, {})
<1> DEFINE B == A \cup {"packet", "frame"}
           n == <<Use("encode_loop", {"format", "pb", "codec", "swr", "fifo",
                                      "packet", "frame"})>>
<1>1. Turns(c, p, PacketAndFrame, A, {}, B, {})
  BY TurnsPacketAndFrame
<1>2. Turns(c, p, n, B, {}, B, {})
  <2>1. /\ BehindIn(c, p) \subseteq B
        /\ {"format", "pb", "codec", "swr", "fifo", "packet", "frame"}
              \subseteq B \cup {"pb"}
    OBVIOUS
  <2> HIDE DEF B
  <2> QED  BY <2>1, TurnsUse
<1> HIDE DEF B, n
<1>3. Turns(c, p, PacketAndFrame \o n, A, {}, B, {})
  BY <1>1, <1>2, TurnsOn
<1>4. "format" \in A
  OBVIOUS
<1> QED  BY <1>3, <1>4, KeepsBody DEF EncodeLoop, n

\* run_encode leaves the format context to the caller, and nothing else.
LEMMA KeepsRunEncode ==
    ASSUME NEW c \in ToFile, NEW p, NEW A, BehindIn(c, p) \subseteq A,
           "format" \in A, A \cap (Loaded \cup {"fifo"}) = {}
    PROVE  Keeps(c, p, RunEncode, A)
<1> DEFINE B == A \cup {"codec"}
           C == B \cup {"swr"}
           D == C \cup {"fifo"}
           j == <<Use("avcodec_find_encoder_by_name", {}),
                  Use("avformat_new_stream", {"format"})>>
           k == Acquire("avcodec_alloc_context3", {}, "codec", "EncoderCtx")
           l == <<Use("avcodec_open2", {"codec", "format"}),
                  Use("avcodec_parameters_from_context", {"codec", "format"}),
                  Use("avformat_write_header", {"format", "pb"})>>
           n == <<Use("av_write_trailer", {"format", "pb"})>>
<1>1. /\ BehindIn(c, p) \subseteq B /\ BehindIn(c, p) \subseteq C
      /\ BehindIn(c, p) \subseteq D
      /\ "codec" \notin A /\ "swr" \notin B /\ "fifo" \notin C
      /\ "packet" \notin D /\ "frame" \notin D
      /\ {"codec", "format"} \subseteq B
      /\ {"format", "codec", "swr", "fifo"} \subseteq D
  BY DEF Loaded
<1> HIDE DEF B, C, D
<1>2. Turns(c, p, j, A, {}, A, {})
  <2>1. {} \subseteq A \cup {"pb"} /\ {"format"} \subseteq A \cup {"pb"}
    OBVIOUS
  <2> QED  BY <2>1, TurnsUse2
<1>3. Turns(c, p, k, A, {}, B, {})
  <2>1. "EncoderCtx" \in OwnersOf(c) /\ Owned(c, p, "EncoderCtx") = {"codec"}
    BY DEF OwnersOf, Owned
  <2>2. {} \subseteq A \cup {"pb"}
    OBVIOUS
  <2> QED  BY <1>1, <2>1, <2>2, TurnsAcquire DEF B
<1>4. Turns(c, p, l, B, {}, B, {})
  <2>1. /\ {"codec", "format"} \subseteq B \cup {"pb"}
        /\ {"format", "pb"} \subseteq B \cup {"pb"}
    BY <1>1
  <2> QED  BY <1>1, <2>1, TurnsUse3
<1>5. Turns(c, p, SwrAllocInit, B, {}, C, {})
  <2>1. {} \subseteq B
    OBVIOUS
  <2> QED  BY <1>1, <2>1, TurnsSwrNew DEF SwrAllocInit, C
<1>6. Turns(c, p, AudioFifoNew, C, {}, D, {})
  <2>1. "AudioFifo" \in OwnersOf(c) /\ Owned(c, p, "AudioFifo") = {"fifo"}
    BY DEF OwnersOf, Owned
  <2>2. {} \subseteq C \cup {"pb"}
    OBVIOUS
  <2> QED  BY <1>1, <2>1, <2>2, TurnsAcquire DEF AudioFifoNew, D
<1>7. Turns(c, p, EncodeLoop, D, {}, D, {})
  BY <1>1, TurnsEncodeLoop
<1>8. Turns(c, p, n, D, {}, D, {})
  <2>1. {"format", "pb"} \subseteq D \cup {"pb"}
    BY <1>1
  <2> QED  BY <1>1, <2>1, TurnsUse
<1> HIDE DEF j, k, l, n
<1>9. Turns(c, p, j \o k, A, {}, B, {})
  BY <1>2, <1>3, TurnsOn
<1>10. Turns(c, p, (j \o k) \o l, A, {}, B, {})
  BY <1>4, <1>9, TurnsOn
<1>11. Turns(c, p, ((j \o k) \o l) \o SwrAllocInit, A, {}, C, {})
  BY <1>5, <1>10, TurnsOn
<1>12. Turns(c, p, (((j \o k) \o l) \o SwrAllocInit) \o AudioFifoNew, A, {}, D, {})
  BY <1>6, <1>11, TurnsOn
<1>13. Turns(c, p, ((((j \o k) \o l) \o SwrAllocInit) \o AudioFifoNew) \o EncodeLoop,
             A, {}, D, {})
  BY <1>7, <1>12, TurnsOn
<1> DEFINE s == (((((j \o k) \o l) \o SwrAllocInit) \o AudioFifoNew) \o EncodeLoop) \o n
<1>14. Turns(c, p, s, A, {}, D, {})
  BY <1>8, <1>13, TurnsOn
<1>15. RunEncode = Body(s)
  BY DEF RunEncode, j, k, l, n
<1> HIDE DEF s
<1> QED  BY <1>14, <1>15, KeepsBody

-----------------------------------------------------------------------------
(* The entry points, from their start.                                     *)

NoLocals == << << >> >>

\* The stacks of a function that calls no other.
LEMMA NoLocalsIs ==
    ASSUME NEW c, NEW p \in Targets(c)
    PROVE  /\ Sound(c, NoLocals, p) /\ OwnedBy(c, p, NoLocals) = {}
           /\ Front(NoLocals) = << >> /\ Last(NoLocals) = << >>
<1> DEFINE O == Seq(OwnersOf(c))
<1>1. << >> \in O /\ << >> \in Seq(O)
  OBVIOUS
<1>2. NoLocals = Append(<< >>, << >>)
  BY DEF NoLocals
<1> HIDE DEF O
<1>3. /\ NoLocals \in Seq(O) /\ NoLocals # << >>
      /\ Front(NoLocals) = << >> /\ Last(NoLocals) = << >>
  <2>1. LET t == Append(<< >>, << >>)
        IN  t \in Seq(O) /\ t # << >> /\ Front(t) = << >> /\ Last(t) = << >>
    BY <1>1, FrontAndLastOfAppend
  <2> QED  BY <1>2, <2>1, Zenon
<1>4. /\ OwnedBy(c, p, NoLocals) = OwnedBy(c, p, << >>) \cup OwnedIn(c, p, << >>)
      /\ Disjoint(c, p, NoLocals)
            <=> /\ Disjoint(c, p, << >>) /\ DisjointIn(c, p, << >>)
                /\ OwnedBy(c, p, << >>) \cap OwnedIn(c, p, << >>) = {}
  BY <1>1, <1>2, OwnedByAppend, Zenon
<1>5. OwnedBy(c, p, NoLocals) = {} /\ Disjoint(c, p, NoLocals)
  BY <1>4, OwnedByNone
<1> QED  BY <1>3, <1>5 DEF Sound, Stacks, O

LEMMA OneLocalIs ==
    ASSUME NEW c, NEW p \in Targets(c), NEW o \in OwnersOf(c)
    PROVE  LET S == << <<o>> >>
           IN  /\ Sound(c, S, p) /\ OwnedBy(c, p, S) = Owned(c, p, o)
               /\ Front(S) = << >> /\ Last(S) = <<o>>
               /\ Last(<<o>>) = o /\ Front(<<o>>) = << >>
               /\ With(NoLocals, o) = S
<1> DEFINE S == << <<o>> >>
<1>1. With(NoLocals, o) = S
  <2>1. Front(NoLocals) = << >> /\ Last(NoLocals) = << >>
    BY NoLocalsIs
  <2> QED  BY <2>1 DEF With
<1>2. Sound(c, NoLocals, p) /\ OwnedBy(c, p, NoLocals) = {}
  BY NoLocalsIs
<1>3. OwnedBy(c, p, NoLocals) \cap Owned(c, p, o) = {}
  BY <1>2
<1> HIDE DEF S
<1>4. /\ Sound(c, S, p) /\ Front(S) = Front(NoLocals)
      /\ Last(S) = Append(Last(NoLocals), o)
      /\ OwnedBy(c, p, S) = OwnedBy(c, p, NoLocals) \cup Owned(c, p, o)
  <2> DEFINE W == With(NoLocals, o)
  <2>1. Sound(c, W, p) /\ Front(W) = Front(NoLocals)
    BY <1>2, <1>3, OneLocalMore
  <2>2. Last(W) = Append(Last(NoLocals), o)
    BY <1>2, <1>3, OneLocalMore
  <2>3. OwnedBy(c, p, W) = OwnedBy(c, p, NoLocals) \cup Owned(c, p, o)
    BY <1>2, <1>3, OneLocalMore
  <2> QED  BY <1>1, <2>1, <2>2, <2>3
<1>5. <<o>> = Append(<< >>, o) /\ << >> \in Seq(OwnersOf(c))
  OBVIOUS
<1>6. Last(<<o>>) = o /\ Front(<<o>>) = << >>
  BY <1>5, FrontAndLastOfAppend, Zenon
<1>7. Front(S) = << >> /\ Last(S) = <<o>> /\ OwnedBy(c, p, S) = Owned(c, p, o)
  BY <1>2, <1>4, <1>5, NoLocalsIs
<1> QED  BY <1>1, <1>4, <1>6, <1>7 DEF S

\* Where a call starts.
LEMMA StartIs ==
    ASSUME NEW c
    PROVE  /\ "NULL" \in Targets(c) /\ Sound(c, NoLocals, "NULL")
           /\ OwnedBy(c, "NULL", NoLocals) = {} /\ BehindIn(c, "NULL") = {}
           /\ Start = State(NoLocals, {}, "NULL")
<1>1. "NULL" \in Targets(c) /\ BehindIn(c, "NULL") = {}
  BY DEF Targets, BehindIn
<1>2. Start = State(NoLocals, {}, "NULL")
  BY DEF Start, NoLocals
<1> QED  BY <1>1, <1>2, NoLocalsIs

\* A function that turns nothing into A, from the start of a call.
LEMMA LeadsFromStart ==
    ASSUME NEW c, NEW s, NEW A, Turns(c, "NULL", s, {}, {}, A, {})
    PROVE  \E T : /\ Sound(c, T, "NULL") /\ Front(T) = << >>
                  /\ Leads(c, s, Start, Tidy(c, T, "NULL"))
<1>1. /\ Sound(c, NoLocals, "NULL") /\ OwnedBy(c, "NULL", NoLocals) = {}
      /\ Start = State(NoLocals, {}, "NULL") /\ Front(NoLocals) = << >>
  BY StartIs, NoLocalsIs
<1>2. PICK T : /\ Sound(c, T, "NULL") /\ OwnedBy(c, "NULL", T) = A
               /\ Front(T) = Front(NoLocals)
               /\ Leads(c, s, State(NoLocals, {} \cup {}, "NULL"),
                        State(T, A \cup {}, "NULL"))
  BY <1>1 DEF Turns
<1>3. {} \cup {} = {} /\ A \cup {} = A
  OBVIOUS
<1> QED  BY <1>1, <1>2, <1>3 DEF Tidy

\* What RouteFits asks for.
Routed(c) == /\ Len(Program[c]) \in Nat
             /\ \E f : /\ f[1] = Start
                       /\ f[Len(Program[c]) + 1].scopes = << >>
                       /\ Follows(c, Program[c], f)

\* An entry point that ends where its function has no caller.
LEMMA LeaveEndsRoute ==
    ASSUME NEW c, NEW s, NEW T, NEW p, Program[c] = s \o Leave,
           Leads(c, s, Start, Tidy(c, T, p)), Sound(c, T, p), Front(T) = << >>
    PROVE  Routed(c)
<1>1. Len(T) = 1
  <2>1. Len(Front(T)) = Len(T) - 1 /\ Len(T) \in Nat
    BY ByFunction DEF Sound
  <2> QED  BY <2>1
<1>2. Leads(c, Leave, Tidy(c, T, p), Tidy(c, << >>, p))
  BY <1>1, LeadsLeave
<1>3. Leads(c, Program[c], Start, Tidy(c, << >>, p))
  BY <1>2, LeadsOn
<1>4. Tidy(c, << >>, p).scopes = << >>
  BY DEF Tidy, State
<1>5. Len(Program[c]) \in Nat
  BY <1>3 DEF Leads
<1>6. PICK f : /\ f[1] = Start /\ f[Len(Program[c]) + 1] = Tidy(c, << >>, p)
               /\ Follows(c, Program[c], f)
  BY <1>3, Zenon DEF Leads
<1> QED  BY <1>4, <1>5, <1>6 DEF Routed

\* What follows when the function has a local that owns all there is.
LEMMA LeadsTurns ==
    ASSUME NEW c, NEW p, NEW S, NEW s, NEW t, NEW B,
           Leads(c, s, Start, Tidy(c, S, p)), Sound(c, S, p), Front(S) = << >>,
           Turns(c, p, t, OwnedBy(c, p, S), {}, B, {})
    PROVE  \E T : /\ Sound(c, T, p) /\ Front(T) = << >>
                  /\ Leads(c, s \o t, Start, Tidy(c, T, p))
<1> DEFINE A == OwnedBy(c, p, S)
<1>1. PICK T : /\ Sound(c, T, p) /\ OwnedBy(c, p, T) = B /\ Front(T) = Front(S)
               /\ Leads(c, t, State(S, A \cup {}, p), State(T, B \cup {}, p))
  BY DEF Turns
<1>2. A \cup {} = A /\ B \cup {} = B
  OBVIOUS
<1>3. Leads(c, t, Tidy(c, S, p), Tidy(c, T, p))
  BY <1>1, <1>2 DEF Tidy
<1> QED  BY <1>1, <1>3, LeadsOn

\* FormatCtx::open_path.
LEMMA TurnsOpenPath ==
    ASSUME NEW c \in {"info", "load"}
    PROVE  Turns(c, "NULL", OpenPath, {}, {}, {"format"}, {})
<1> DEFINE m == Acquire("avformat_open_input", {}, "format", "FormatCtx")
<1>1. BehindIn(c, "NULL") = {}
  BY StartIs
<1>2. Turns(c, "NULL", m, {}, {}, {} \cup {"format"}, {})
  <2>1. "FormatCtx" \in OwnersOf(c) /\ Owned(c, "NULL", "FormatCtx") = {"format"}
    BY DEF OwnersOf, ToFile, Owned, FromBytes
  <2>2. BehindIn(c, "NULL") \subseteq {} /\ {} \subseteq {} \cup {"pb"}
        /\ "format" \notin {}
    BY <1>1
  <2> QED  BY <2>1, <2>2, TurnsAcquire
<1>3. Turns(c, "NULL", Finish, {"format"}, {}, {"format"}, {})
  <2>1. /\ BehindIn(c, "NULL") \subseteq {"format"}
        /\ {"format", "pb"} \subseteq {"format"} \cup {"pb"}
    BY <1>1
  <2> QED  BY <2>1, TurnsUse DEF Finish
<1>4. {} \cup {"format"} = {"format"}
  OBVIOUS
<1> HIDE DEF m
<1>5. Turns(c, "NULL", m \o Finish, {}, {}, {"format"}, {})
  BY <1>2, <1>3, <1>4, TurnsOn
<1> QED  BY <1>5 DEF OpenPath, m

LEMMA InfoRouted == Routed("info")
<1>1. BehindIn("info", "NULL") \subseteq {"format"} /\ "format" \in {"format"}
  BY StartIs
<1>2. Turns("info", "NULL", InfoFromCtx, {"format"}, {}, {"format"}, {})
  BY <1>1, TurnsInfoFromCtx
<1>3. Turns("info", "NULL", OpenPath \o InfoFromCtx, {}, {}, {"format"}, {})
  BY <1>2, TurnsOpenPath, TurnsOn
<1>4. Program["info"] = (OpenPath \o InfoFromCtx) \o Leave
  BY DEF Program
<1>5. PICK T : /\ Sound("info", T, "NULL") /\ Front(T) = << >>
               /\ Leads("info", OpenPath \o InfoFromCtx, Start,
                        Tidy("info", T, "NULL"))
  BY <1>3, LeadsFromStart
<1> QED  BY <1>4, <1>5, LeaveEndsRoute

LEMMA LoadRouted == Routed("load")
<1>1. /\ BehindIn("load", "NULL") \subseteq {"format"} /\ "format" \in {"format"}
      /\ {"format"} \cap Loaded = {}
  BY StartIs DEF Loaded
<1>2. Turns("load", "NULL", LoadFromCtx, {"format"}, {}, {"format"} \cup Loaded, {})
  BY <1>1, TurnsLoadFromCtx
<1>3. Turns("load", "NULL", OpenPath \o LoadFromCtx, {}, {},
            {"format"} \cup Loaded, {})
  BY <1>2, TurnsOpenPath, TurnsOn
<1>4. Program["load"] = (OpenPath \o LoadFromCtx) \o Leave
  BY DEF Program
<1>5. PICK T : /\ Sound("load", T, "NULL") /\ Front(T) = << >>
               /\ Leads("load", OpenPath \o LoadFromCtx, Start,
                        Tidy("load", T, "NULL"))
  BY <1>3, LeadsFromStart
<1> QED  BY <1>4, <1>5, LeaveEndsRoute

\* ReadAvio::new and WriteAvio::new: the three objects get their owner.
LEMMA LeadsAvioNew ==
    ASSUME NEW c, NEW opaque, NEW o \in OwnersOf(c),
           Owned(c, "NULL", o) = {"buffer", "avio", opaque}
    PROVE  Leads(c, AvioNew(opaque, o), Start, Tidy(c, << <<o>> >>, "NULL"))
<1> DEFINE a(A) == State(NoLocals, A, "NULL")
           A1 == {"buffer"}
           A2 == {"buffer", opaque}
           A3 == {"buffer", "avio", opaque}
           u == Make("av_malloc", {}, "buffer")
           v == Make("Box", {}, opaque)
           w == [Make("avio_alloc_context", {"buffer", opaque}, "avio")
                   EXCEPT !.undo = {"buffer", opaque}]
           l == Step("let", o)
<1>1. /\ Sound(c, NoLocals, "NULL") /\ OwnedBy(c, "NULL", NoLocals) = {}
      /\ BehindIn(c, "NULL") = {} /\ Start = a({})
  BY StartIs
<1>2. /\ u.does = "call" /\ u.needs \cup u.undo = {} /\ u.undo = {}
      /\ u.makes = {"buffer"} /\ u.wires = ""
  BY DEF Make, Use, Step
<1>3. /\ v.does = "call" /\ v.needs \cup v.undo = {} /\ v.fn = "Box"
      /\ v.makes = {opaque} /\ v.wires = ""
  BY DEF Make, Use, Step
<1>4. /\ w.does = "call" /\ w.needs \cup w.undo = {"buffer", opaque}
      /\ w.undo = {"buffer", opaque} /\ w.makes = {"avio"} /\ w.wires = ""
  BY DEF Make, Use, Step
<1>5. /\ l.does = "let" /\ l.fn = o /\ l.takes = {} /\ l.needs \cup l.undo = {}
  BY OtherStepSays
<1> HIDE DEF u, v, w, l
<1>6. Leads(c, <<u>>, a({}), a(A1))
  <2>1. Resolved(c, "NULL", u.needs \cup u.undo) \subseteq {} /\ {} \ u.undo = {}
    BY <1>2 DEF Resolved
  <2>2. Leads(c, <<u>>, a({}), State(NoLocals, {} \cup u.makes,
                               IF u.wires = "" THEN "NULL" ELSE u.wires))
    BY <1>1, <1>2, <2>1, LeadsCall
  <2>3. {} \cup u.makes = A1
    BY <1>2
  <2> QED  BY <1>2, <2>2, <2>3
<1>7. Leads(c, <<v>>, a(A1), a(A2))
  <2>1. /\ Resolved(c, "NULL", v.needs \cup v.undo) \subseteq A1
        /\ v.fn \in Infallible /\ {} \subseteq A1
    BY <1>3 DEF Resolved, Infallible
  <2>2. Leads(c, <<v>>, a(A1), State(NoLocals, A1 \cup v.makes,
                               IF v.wires = "" THEN "NULL" ELSE v.wires))
    <3> HIDE DEF A1
    <3> QED  BY <1>1, <1>3, <2>1, LeadsCall
  <2>3. A1 \cup v.makes = A2
    BY <1>3
  <2> QED  BY <1>3, <2>2, <2>3
<1>8. Leads(c, <<w>>, a(A2), a(A3))
  <2>1. /\ Resolved(c, "NULL", w.needs \cup w.undo) \subseteq A2
        /\ A2 \ w.undo = {} /\ {} \subseteq A2
    BY <1>1, <1>4 DEF Resolved
  <2>2. Leads(c, <<w>>, a(A2), State(NoLocals, A2 \cup w.makes,
                               IF w.wires = "" THEN "NULL" ELSE w.wires))
    BY <1>1, <1>4, <2>1, LeadsCall
  <2>3. A2 \cup w.makes = A3
    BY <1>4
  <2> QED  BY <1>4, <2>2, <2>3
<1>9. Leads(c, <<l>>, a(A3), Tidy(c, << <<o>> >>, "NULL"))
  <2>1. Kept(Last(NoLocals), l.takes) = Last(NoLocals)
    BY <1>5 DEF Kept
  <2>2. Leads(c, <<l>>, a(A3), State(With(NoLocals, o), A3, "NULL"))
    <3>1. {} \subseteq A3
      OBVIOUS
    <3>2. Leads(c, <<l>>, a(A3),
                State(Append(Front(NoLocals),
                             Append(Kept(Last(NoLocals), l.takes), l.fn)),
                      A3, "NULL"))
      BY <1>1, <1>5, <3>1, LeadsLet
    <3> QED  BY <1>5, <2>1, <3>2 DEF With
  <2>3. With(NoLocals, o) = << <<o>> >> /\ OwnedBy(c, "NULL", << <<o>> >>) = A3
    BY StartIs, OneLocalIs
  <2> QED  BY <2>2, <2>3 DEF Tidy
<1> HIDE DEF A1, A2, A3, a
<1>10. Leads(c, <<u, v, w>>, Start, a(A3))
  <2>1. Leads(c, <<u>> \o <<v>>, Start, a(A2))
    BY <1>1, <1>6, <1>7, LeadsOn
  <2>2. <<u>> \o <<v>> = <<u, v>>
    BY Tuple2
  <2>3. Leads(c, <<u, v>> \o <<w>>, Start, a(A3))
    BY <1>8, <2>1, <2>2, LeadsOn
  <2>4. <<u, v>> \o <<w>> = <<u, v, w>>
    BY Tuple3
  <2> QED  BY <2>3, <2>4
<1>11. Leads(c, <<u, v, w>> \o <<l>>, Start, Tidy(c, << <<o>> >>, "NULL"))
  BY <1>9, <1>10, LeadsOn
<1> QED  BY <1>11 DEF AvioNew, Let, u, v, w, l

\* FormatCtx::open_bytes: the AVIOContext moves into the context it serves.
LEMMA LeadsOpenBytes ==
    ASSUME NEW c \in FromBytes
    PROVE  LET S == << <<"FormatCtx">> >>
           IN  /\ Leads(c, OpenBytes, Start, Tidy(c, S, "avio"))
               /\ Sound(c, S, "avio") /\ Front(S) = << >>
               /\ OwnedBy(c, "avio", S) = {"format", "buffer", "avio", "cursor"}
               /\ BehindIn(c, "avio") = {"buffer", "avio", "cursor"}
<1> DEFINE R == << <<"ReadAvio">> >>
           S == << <<"FormatCtx">> >>
           A == {"buffer", "avio", "cursor"}
           B == {"format", "buffer", "avio", "cursor"}
           u == Make("avformat_alloc_context", {}, "format")
           v == Wire("avio")
           w == [Use("avformat_open_input", {"format", "pb"})
                   EXCEPT !.undo = {"format"}]
           l == [Step("let", "FormatCtx") EXCEPT !.takes = {"ReadAvio"}]
<1>1. /\ "NULL" \in Targets(c) /\ "avio" \in Targets(c)
      /\ "ReadAvio" \in OwnersOf(c) /\ "FormatCtx" \in OwnersOf(c)
      /\ \A p : /\ Owned(c, p, "ReadAvio") = A /\ Owned(c, p, "FormatCtx") = B
      /\ BehindIn(c, "NULL") = {} /\ BehindIn(c, "avio") = A
  BY DEF FromBytes, ToFile, Targets, OwnersOf, Owned, BehindIn
<1>2. /\ Sound(c, R, "NULL") /\ OwnedBy(c, "NULL", R) = A
      /\ Sound(c, R, "avio") /\ OwnedBy(c, "avio", R) = A
      /\ Front(R) = << >> /\ Last(R) = <<"ReadAvio">>
      /\ Last(<<"ReadAvio">>) = "ReadAvio" /\ Front(<<"ReadAvio">>) = << >>
  BY <1>1, OneLocalIs
<1>3. Sound(c, S, "avio") /\ OwnedBy(c, "avio", S) = B /\ Front(S) = << >>
  BY <1>1, OneLocalIs
<1>4. Leads(c, ReadAvioNew, Start, Tidy(c, R, "NULL"))
  BY <1>1, LeadsAvioNew DEF ReadAvioNew
<1>5. /\ u.does = "call" /\ u.needs \cup u.undo = {} /\ u.undo = {}
      /\ u.makes = {"format"} /\ u.wires = ""
  BY DEF Make, Use, Step
<1>6. /\ v.does = "call" /\ v.needs \cup v.undo = {"format"} /\ v.fn = "pb"
      /\ v.makes = {} /\ v.wires = "avio"
  BY DEF Wire, Step
<1>7. /\ w.does = "call" /\ w.needs \cup w.undo = {"format", "pb"}
      /\ w.undo = {"format"} /\ w.makes = {} /\ w.wires = ""
  BY DEF Use, Step
<1>8. /\ l.does = "let" /\ l.fn = "FormatCtx" /\ l.takes = {"ReadAvio"}
      /\ l.needs \cup l.undo = {}
  BY DEF Step
<1> HIDE DEF u, v, w, l, R, S
<1>9. Leads(c, <<u>>, Tidy(c, R, "NULL"), State(R, B, "NULL"))
  <2>1. /\ Resolved(c, "NULL", u.needs \cup u.undo) \subseteq A
        /\ A \ u.undo = OwnedBy(c, "NULL", R) /\ OwnedBy(c, "NULL", R) \subseteq A
    BY <1>2, <1>5 DEF Resolved
  <2>2. Leads(c, <<u>>, State(R, A, "NULL"),
              State(R, A \cup u.makes, IF u.wires = "" THEN "NULL" ELSE u.wires))
    <3> HIDE DEF A, B
    <3> QED  BY <1>2, <1>5, <2>1, LeadsCall
  <2>3. A \cup u.makes = B
    BY <1>5
  <2> QED  BY <1>2, <1>5, <2>2, <2>3 DEF Tidy
<1>10. Leads(c, <<v>>, State(R, B, "NULL"), State(R, B, "avio"))
  <2>1. /\ Resolved(c, "NULL", v.needs \cup v.undo) \subseteq B
        /\ v.fn \in Infallible /\ A \subseteq B /\ B \cup v.makes = B
        /\ v.wires # ""
    BY <1>6 DEF Resolved, Infallible
  <2>2. Leads(c, <<v>>, State(R, B, "NULL"),
              State(R, B \cup v.makes, IF v.wires = "" THEN "NULL" ELSE v.wires))
    BY <1>2, <1>6, <2>1, LeadsCall
  <2> QED  BY <1>6, <2>1, <2>2
<1>11. Leads(c, <<w>>, State(R, B, "avio"), State(R, B, "avio"))
  <2>1. /\ Resolved(c, "avio", w.needs \cup w.undo) \subseteq B
        /\ B \ w.undo = OwnedBy(c, "avio", R) /\ OwnedBy(c, "avio", R) \subseteq B
        /\ B \cup w.makes = B
    BY <1>1, <1>2, <1>7 DEF Resolved
  <2>2. Leads(c, <<w>>, State(R, B, "avio"),
              State(R, B \cup w.makes, IF w.wires = "" THEN "avio" ELSE w.wires))
    <3> HIDE DEF A, B
    <3> QED  BY <1>2, <1>7, <2>1, LeadsCall
  <2> QED  BY <1>7, <2>1, <2>2
<1>12. Leads(c, <<l>>, State(R, B, "avio"), Tidy(c, S, "avio"))
  <2>1. Kept(Last(R), l.takes) = << >>
    <3>1. <<"ReadAvio">> # << >>
      OBVIOUS
    <3> QED  BY <1>2, <1>8, <3>1 DEF Kept
  <2>2. Append(Front(R), Append(<< >>, "FormatCtx")) = S
    BY <1>2 DEF S
  <2>3. A \subseteq B
    OBVIOUS
  <2>4. Leads(c, <<l>>, State(R, B, "avio"),
              State(Append(Front(R), Append(Kept(Last(R), l.takes), l.fn)),
                    B, "avio"))
    BY <1>2, <1>8, <2>3, LeadsLet
  <2> QED  BY <1>3, <1>8, <2>1, <2>2, <2>4 DEF Tidy
<1>13. Leads(c, Finish, Tidy(c, S, "avio"), Tidy(c, S, "avio"))
  <2>1. BehindIn(c, "avio") \subseteq B /\ {"format", "pb"} \subseteq B \cup {"pb"}
    BY <1>1
  <2>2. Keeps(c, "avio", Finish, B)
    BY <2>1, TurnsUse DEF Finish
  <2> QED  BY <1>3, <2>2 DEF Keeps
<1>14. Leads(c, <<u, v, w>>, Tidy(c, R, "NULL"), State(R, B, "avio"))
  <2>1. Leads(c, <<u>> \o <<v>>, Tidy(c, R, "NULL"), State(R, B, "avio"))
    BY <1>9, <1>10, LeadsOn
  <2>2. <<u>> \o <<v>> = <<u, v>>
    BY Tuple2
  <2>3. Leads(c, <<u, v>> \o <<w>>, Tidy(c, R, "NULL"), State(R, B, "avio"))
    BY <1>11, <2>1, <2>2, LeadsOn
  <2>4. <<u, v>> \o <<w>> = <<u, v, w>>
    BY Tuple3
  <2> QED  BY <2>3, <2>4
<1>15. Leads(c, ReadAvioNew \o <<u, v, w>>, Start, State(R, B, "avio"))
  BY <1>4, <1>14, LeadsOn
<1>16. Leads(c, (ReadAvioNew \o <<u, v, w>>) \o <<l>>, Start, Tidy(c, S, "avio"))
  BY <1>12, <1>15, LeadsOn
<1>17. Leads(c, ((ReadAvioNew \o <<u, v, w>>) \o <<l>>) \o Finish, Start,
             Tidy(c, S, "avio"))
  BY <1>13, <1>16, LeadsOn
<1>18. OpenBytes = ((ReadAvioNew \o <<u, v, w>>) \o <<l>>) \o Finish
  BY DEF OpenBytes, LetFrom, u, v, w, l
<1> QED  BY <1>1, <1>3, <1>17, <1>18 DEF S

LEMMA InfoBytesRouted == Routed("info_bytes")
<1> DEFINE c == "info_bytes"
           S == << <<"FormatCtx">> >>
           A == {"format", "buffer", "avio", "cursor"}
<1>1. /\ Leads(c, OpenBytes, Start, Tidy(c, S, "avio"))
      /\ Sound(c, S, "avio") /\ Front(S) = << >>
      /\ OwnedBy(c, "avio", S) = A /\ BehindIn(c, "avio") \subseteq A
  BY LeadsOpenBytes DEF FromBytes
<1>2. "format" \in A
  OBVIOUS
<1> HIDE DEF A
<1>3. Turns(c, "avio", InfoFromCtx, A, {}, A, {})
  BY <1>1, <1>2, TurnsInfoFromCtx
<1>4. PICK T : /\ Sound(c, T, "avio") /\ Front(T) = << >>
               /\ Leads(c, OpenBytes \o InfoFromCtx, Start, Tidy(c, T, "avio"))
  BY <1>1, <1>3, LeadsTurns
<1>5. Program[c] = (OpenBytes \o InfoFromCtx) \o Leave
  BY DEF Program
<1> QED  BY <1>4, <1>5, LeaveEndsRoute

LEMMA LoadBytesRouted == Routed("load_bytes")
<1> DEFINE c == "load_bytes"
           S == << <<"FormatCtx">> >>
           A == {"format", "buffer", "avio", "cursor"}
<1>1. /\ Leads(c, OpenBytes, Start, Tidy(c, S, "avio"))
      /\ Sound(c, S, "avio") /\ Front(S) = << >>
      /\ OwnedBy(c, "avio", S) = A /\ BehindIn(c, "avio") \subseteq A
  BY LeadsOpenBytes DEF FromBytes
<1>2. "format" \in A /\ A \cap Loaded = {}
  BY DEF Loaded
<1> HIDE DEF A
<1>3. Turns(c, "avio", LoadFromCtx, A, {}, A \cup Loaded, {})
  BY <1>1, <1>2, TurnsLoadFromCtx
<1>4. PICK T : /\ Sound(c, T, "avio") /\ Front(T) = << >>
               /\ Leads(c, OpenBytes \o LoadFromCtx, Start, Tidy(c, T, "avio"))
  BY <1>1, <1>3, LeadsTurns
<1>5. Program[c] = (OpenBytes \o LoadFromCtx) \o Leave
  BY DEF Program
<1> QED  BY <1>4, <1>5, LeaveEndsRoute

\* save: the context owns the file from the moment pb points to it.
LEMMA SaveRouted == Routed("save")
<1> DEFINE c == "save"
           S == << <<"OutputCtx">> >>
           u == OutputAlloc
           l == Step("let", "OutputCtx")
           w == [Make("avio_open", {"format"}, "file") EXCEPT !.wires = "file"]
           A == {"format"}
           B == {"format", "file"}
<1>1. /\ c \in ToFile /\ "OutputCtx" \in OwnersOf(c) /\ "file" \in Targets(c)
      /\ Owned(c, "NULL", "OutputCtx") = A /\ Owned(c, "file", "OutputCtx") = B
      /\ BehindIn(c, "file") = {"file"}
  BY DEF ToFile, OwnersOf, Targets, Owned, BehindIn
<1>2. /\ Sound(c, NoLocals, "NULL") /\ OwnedBy(c, "NULL", NoLocals) = {}
      /\ BehindIn(c, "NULL") = {} /\ Start = State(NoLocals, {}, "NULL")
      /\ "NULL" \in Targets(c)
  BY StartIs
<1>3. /\ Sound(c, S, "NULL") /\ OwnedBy(c, "NULL", S) = A
      /\ Sound(c, S, "file") /\ OwnedBy(c, "file", S) = B
      /\ Front(S) = << >> /\ With(NoLocals, "OutputCtx") = S
  BY <1>1, <1>2, OneLocalIs
<1>4. /\ u.does = "call" /\ u.needs \cup u.undo = {} /\ u.undo = {}
      /\ u.makes = {"format"} /\ u.wires = ""
  BY DEF OutputAlloc, Make, Use, Step
<1>5. /\ l.does = "let" /\ l.fn = "OutputCtx" /\ l.takes = {}
      /\ l.needs \cup l.undo = {}
  BY OtherStepSays
<1>6. /\ w.does = "call" /\ w.needs \cup w.undo = {"format"} /\ w.undo = {}
      /\ w.makes = {"file"} /\ w.wires = "file"
  BY DEF Make, Use, Step
<1> HIDE DEF u, l, w, S
<1>7. Leads(c, <<u>>, Start, State(NoLocals, A, "NULL"))
  <2>1. Resolved(c, "NULL", u.needs \cup u.undo) \subseteq {} /\ {} \ u.undo = {}
    BY <1>4 DEF Resolved
  <2>2. Leads(c, <<u>>, State(NoLocals, {}, "NULL"),
              State(NoLocals, {} \cup u.makes,
                    IF u.wires = "" THEN "NULL" ELSE u.wires))
    BY <1>2, <1>4, <2>1, LeadsCall
  <2>3. {} \cup u.makes = A
    BY <1>4
  <2> QED  BY <1>2, <1>4, <2>2, <2>3
<1>8. Leads(c, <<l>>, State(NoLocals, A, "NULL"), Tidy(c, S, "NULL"))
  <2>1. Kept(Last(NoLocals), l.takes) = Last(NoLocals)
    BY <1>5 DEF Kept
  <2>2. {} \subseteq A
    OBVIOUS
  <2>3. Leads(c, <<l>>, State(NoLocals, A, "NULL"),
              State(Append(Front(NoLocals),
                           Append(Kept(Last(NoLocals), l.takes), l.fn)),
                    A, "NULL"))
    BY <1>2, <1>5, <2>2, LeadsLet
  <2> QED  BY <1>3, <1>5, <2>1, <2>3 DEF Tidy, With
<1>9. Leads(c, <<w>>, Tidy(c, S, "NULL"), Tidy(c, S, "file"))
  <2>1. /\ Resolved(c, "NULL", w.needs \cup w.undo) \subseteq A
        /\ A \ w.undo = OwnedBy(c, "NULL", S) /\ OwnedBy(c, "NULL", S) \subseteq A
    BY <1>3, <1>6 DEF Resolved
  <2>2. Leads(c, <<w>>, State(S, A, "NULL"),
              State(S, A \cup w.makes, IF w.wires = "" THEN "NULL" ELSE w.wires))
    <3> HIDE DEF A, B
    <3> QED  BY <1>3, <1>6, <2>1, LeadsCall
  <2>3. A \cup w.makes = B /\ w.wires # ""
    BY <1>6
  <2> QED  BY <1>3, <1>6, <2>2, <2>3 DEF Tidy
<1>10. Leads(c, RunEncode, Tidy(c, S, "file"), Tidy(c, S, "file"))
  <2>1. BehindIn(c, "file") \subseteq B /\ "format" \in B
    BY <1>1
  <2>2. B \cap (Loaded \cup {"fifo"}) = {}
    BY DEF Loaded
  <2> HIDE DEF B
  <2>3. Keeps(c, "file", RunEncode, B)
    BY <1>1, <2>1, <2>2, KeepsRunEncode
  <2> QED  BY <1>3, <2>3 DEF Keeps
<1>11. Leads(c, <<u>> \o <<l>>, Start, Tidy(c, S, "NULL"))
  BY <1>7, <1>8, LeadsOn
<1>12. Leads(c, (<<u>> \o <<l>>) \o <<w>>, Start, Tidy(c, S, "file"))
  BY <1>9, <1>11, LeadsOn
<1>13. Leads(c, ((<<u>> \o <<l>>) \o <<w>>) \o RunEncode, Start, Tidy(c, S, "file"))
  BY <1>10, <1>12, LeadsOn
<1>14. Program[c] = (((<<u>> \o <<l>>) \o <<w>>) \o RunEncode) \o Leave
  BY DEF Program, Save, Let, u, l, w
<1> QED  BY <1>3, <1>13, <1>14, LeaveEndsRoute

\* save_bytes: pb points to the AVIOContext of a local declared before the
\* context, which is dropped first and then owns nothing behind pb.
LEMMA SaveBytesRouted == Routed("save_bytes")
<1> DEFINE c == "save_bytes"
           R == << <<"WriteAvio">> >>
           S == With(R, "OutputCtx")
           A == {"buffer", "avio", "sink"}
           B == {"format", "buffer", "avio", "sink"}
           u == OutputAlloc
           v == Wire("avio")
           l == Step("let", "OutputCtx")
<1>1. /\ c \in ToFile /\ "avio" \in Targets(c) /\ "NULL" \in Targets(c)
      /\ "WriteAvio" \in OwnersOf(c) /\ "OutputCtx" \in OwnersOf(c)
      /\ \A p : /\ Owned(c, p, "WriteAvio") = A
                /\ Owned(c, p, "OutputCtx") = {"format"}
      /\ BehindIn(c, "NULL") = {} /\ BehindIn(c, "avio") = A
  BY DEF ToFile, OwnersOf, Targets, Owned, BehindIn
<1>2. /\ Sound(c, R, "NULL") /\ OwnedBy(c, "NULL", R) = A
      /\ Sound(c, R, "avio") /\ OwnedBy(c, "avio", R) = A
      /\ Front(R) = << >> /\ Last(R) = <<"WriteAvio">>
      /\ Last(<<"WriteAvio">>) = "WriteAvio" /\ Front(<<"WriteAvio">>) = << >>
  BY <1>1, OneLocalIs
<1>3. Append(<< >>, <<"WriteAvio">>) = R
  OBVIOUS
<1> HIDE DEF R, S
<1>4. /\ Sound(c, S, "avio") /\ OwnedBy(c, "avio", S) = B
      /\ Front(S) = << >> /\ Last(S) = Append(Last(R), "OutputCtx")
  <2>1. A \cap {"format"} = {} /\ A \cup {"format"} = B
    OBVIOUS
  <2> HIDE DEF A, B
  <2>2. OwnedBy(c, "avio", R) \cap Owned(c, "avio", "OutputCtx") = {}
    BY <1>1, <1>2, <2>1
  <2>3. /\ Sound(c, S, "avio") /\ Front(S) = Front(R)
        /\ Last(S) = Append(Last(R), "OutputCtx")
        /\ OwnedBy(c, "avio", S)
             = OwnedBy(c, "avio", R) \cup Owned(c, "avio", "OutputCtx")
    <3> DEFINE o == "OutputCtx"
    <3>1. o \in OwnersOf(c) /\ Sound(c, R, "avio")
          /\ OwnedBy(c, "avio", R) \cap Owned(c, "avio", o) = {}
      BY <1>1, <1>2, <2>2
    <3> HIDE DEF c, o
    <3> QED  BY <3>1, OneLocalMore DEF S, o
  <2> QED  BY <1>1, <1>2, <2>1, <2>3
<1>5. /\ Last(S) # << >> /\ Last(Last(S)) = "OutputCtx"
      /\ WithoutLast(S) = R
  <2>1. Last(R) \in Seq(OwnersOf(c))
    <3>1. R \in Stacks(c) /\ R # << >>
      BY <1>2 DEF Sound
    <3> QED  BY <3>1, ByFunction
  <2>2. /\ Last(S) # << >> /\ Last(Last(S)) = "OutputCtx"
        /\ Front(Last(S)) = Last(R)
    BY <1>1, <1>4, <2>1, FrontAndLastOfAppend
  <2> QED  BY <1>2, <1>3, <1>4, <2>2 DEF WithoutLast
<1>6. /\ u.does = "call" /\ u.needs \cup u.undo = {} /\ u.undo = {}
      /\ u.makes = {"format"} /\ u.wires = ""
  BY DEF OutputAlloc, Make, Use, Step
<1>7. /\ v.does = "call" /\ v.needs \cup v.undo = {"format"} /\ v.fn = "pb"
      /\ v.makes = {} /\ v.wires = "avio"
  BY DEF Wire, Step
<1>8. /\ l.does = "let" /\ l.fn = "OutputCtx" /\ l.takes = {}
      /\ l.needs \cup l.undo = {}
  BY OtherStepSays
<1> HIDE DEF u, v, l
<1>9. Leads(c, WriteAvioNew, Start, Tidy(c, R, "NULL"))
  BY <1>1, LeadsAvioNew DEF WriteAvioNew, R
<1>10. Leads(c, <<u>>, Tidy(c, R, "NULL"), State(R, B, "NULL"))
  <2>1. /\ Resolved(c, "NULL", u.needs \cup u.undo) \subseteq A
        /\ A \ u.undo = OwnedBy(c, "NULL", R) /\ OwnedBy(c, "NULL", R) \subseteq A
    BY <1>2, <1>6 DEF Resolved
  <2>2. Leads(c, <<u>>, State(R, A, "NULL"),
              State(R, A \cup u.makes, IF u.wires = "" THEN "NULL" ELSE u.wires))
    <3> HIDE DEF A, B
    <3> QED  BY <1>2, <1>6, <2>1, LeadsCall
  <2>3. A \cup u.makes = B
    BY <1>6
  <2> QED  BY <1>2, <1>6, <2>2, <2>3 DEF Tidy
<1>11. Leads(c, <<v>>, State(R, B, "NULL"), State(R, B, "avio"))
  <2>1. /\ Resolved(c, "NULL", v.needs \cup v.undo) \subseteq B
        /\ v.fn \in Infallible /\ OwnedBy(c, "NULL", R) \subseteq B
        /\ B \cup v.makes = B /\ v.wires # ""
    BY <1>2, <1>7 DEF Resolved, Infallible
  <2>2. Leads(c, <<v>>, State(R, B, "NULL"),
              State(R, B \cup v.makes, IF v.wires = "" THEN "NULL" ELSE v.wires))
    <3> HIDE DEF A, B
    <3> QED  BY <1>2, <1>7, <2>1, LeadsCall
  <2> QED  BY <1>7, <2>1, <2>2
<1>12. Leads(c, <<l>>, State(R, B, "avio"), Tidy(c, S, "avio"))
  <2>1. Kept(Last(R), l.takes) = Last(R)
    BY <1>8 DEF Kept
  <2>2. OwnedBy(c, "avio", R) \subseteq B
    BY <1>2
  <2>3. Leads(c, <<l>>, State(R, B, "avio"),
              State(Append(Front(R), Append(Kept(Last(R), l.takes), l.fn)),
                    B, "avio"))
    BY <1>2, <1>8, <2>2, LeadsLet
  <2> QED  BY <1>4, <1>8, <2>1, <2>3 DEF Tidy, With, S
<1>13. Leads(c, RunEncode, Tidy(c, S, "avio"), Tidy(c, S, "avio"))
  <2>1. BehindIn(c, "avio") \subseteq B /\ "format" \in B
    BY <1>1
  <2>2. B \cap (Loaded \cup {"fifo"}) = {}
    BY DEF Loaded
  <2> HIDE DEF A, B
  <2>3. Keeps(c, "avio", RunEncode, B)
    BY <1>1, <2>1, <2>2, KeepsRunEncode
  <2> QED  BY <1>4, <2>3 DEF Keeps
<1>14. Leads(c, <<Use("avio_flush", {"format", "pb"})>>, Tidy(c, S, "avio"),
             Tidy(c, S, "avio"))
  <2>1. BehindIn(c, "avio") \subseteq B /\ {"format", "pb"} \subseteq B \cup {"pb"}
    BY <1>1
  <2> HIDE DEF A, B
  <2>2. Keeps(c, "avio", <<Use("avio_flush", {"format", "pb"})>>, B)
    BY <2>1, TurnsUse
  <2> QED  BY <1>4, <2>2 DEF Keeps
<1>15. Leads(c, DropNow("OutputCtx"), Tidy(c, S, "avio"), Tidy(c, R, "NULL"))
  <2>1. B \ {"format"} = A
    OBVIOUS
  <2>2. Leads(c, DropNow("OutputCtx"), Tidy(c, S, "avio"),
              State(WithoutLast(S),
                    OwnedBy(c, "avio", S) \ Owned(c, "avio", Last(Last(S))),
                    IF Last(Last(S)) = "OutputCtx" THEN "NULL" ELSE "avio"))
    BY <1>4, <1>5, LeadsDrop
  <2> HIDE DEF A, B
  <2> QED  BY <1>1, <1>2, <1>4, <1>5, <2>1, <2>2 DEF Tidy
<1>16. Leads(c, <<Use("take", {"sink"})>>, Tidy(c, R, "NULL"), Tidy(c, R, "NULL"))
  <2>1. BehindIn(c, "NULL") \subseteq A /\ {"sink"} \subseteq A \cup {"pb"}
    BY <1>1
  <2> HIDE DEF A, B
  <2>2. Keeps(c, "NULL", <<Use("take", {"sink"})>>, A)
    BY <2>1, TurnsUse
  <2> QED  BY <1>2, <2>2 DEF Keeps
<1>17. Leads(c, DropNow("WriteAvio"), Tidy(c, R, "NULL"), Tidy(c, NoLocals, "NULL"))
  <2>1. <<"WriteAvio">> # << >>
    OBVIOUS
  <2>2. WithoutLast(R) = NoLocals
    <3>1. Append(<< >>, << >>) = NoLocals
      BY DEF NoLocals
    <3> QED  BY <1>2, <3>1 DEF WithoutLast
  <2>3. Leads(c, DropNow("WriteAvio"), Tidy(c, R, "NULL"),
              State(WithoutLast(R),
                    OwnedBy(c, "NULL", R) \ Owned(c, "NULL", Last(Last(R))),
                    IF Last(Last(R)) = "OutputCtx" THEN "NULL" ELSE "NULL"))
    BY <1>2, <2>1, LeadsDrop
  <2>4. A \ A = {} /\ OwnedBy(c, "NULL", NoLocals) = {}
    BY StartIs
  <2> HIDE DEF A, B
  <2> QED  BY <1>1, <1>2, <2>2, <2>3, <2>4 DEF Tidy
<1> DEFINE s1 == (WriteAvioNew \o <<u, v>>) \o <<l>>
           s2 == (s1 \o RunEncode) \o <<Use("avio_flush", {"format", "pb"})>>
           s3 == (s2 \o DropNow("OutputCtx")) \o <<Use("take", {"sink"})>>
<1>18. Leads(c, s1, Start, Tidy(c, S, "avio"))
  <2>1. Leads(c, <<u>> \o <<v>>, Tidy(c, R, "NULL"), State(R, B, "avio"))
    BY <1>10, <1>11, LeadsOn
  <2>2. <<u>> \o <<v>> = <<u, v>>
    BY Tuple2
  <2>3. Leads(c, WriteAvioNew \o <<u, v>>, Start, State(R, B, "avio"))
    BY <1>9, <2>1, <2>2, LeadsOn
  <2> QED  BY <1>12, <2>3, LeadsOn
<1>19. Leads(c, s2, Start, Tidy(c, S, "avio"))
  <2> HIDE DEF s1
  <2>1. Leads(c, s1 \o RunEncode, Start, Tidy(c, S, "avio"))
    BY <1>13, <1>18, LeadsOn
  <2> QED  BY <1>14, <2>1, LeadsOn
<1>20. Leads(c, s3 \o DropNow("WriteAvio"), Start, Tidy(c, NoLocals, "NULL"))
  <2> HIDE DEF s2
  <2>1. Leads(c, s2 \o DropNow("OutputCtx"), Start, Tidy(c, R, "NULL"))
    BY <1>15, <1>19, LeadsOn
  <2>2. Leads(c, s3, Start, Tidy(c, R, "NULL"))
    BY <1>16, <2>1, LeadsOn
  <2> HIDE DEF s3
  <2> QED  BY <1>17, <2>2, LeadsOn
<1>21. Program[c] = (s3 \o DropNow("WriteAvio")) \o Leave
  BY DEF Program, SaveBytes, Let, u, v, l
<1>22. Sound(c, NoLocals, "NULL") /\ Front(NoLocals) = << >>
  BY StartIs, NoLocalsIs
<1> QED  BY <1>20, <1>21, <1>22, LeaveEndsRoute

-----------------------------------------------------------------------------
(* From the programs to the calls.                                         *)

\* Every function of Program fits from its first step to its last.
LEMMA RouteFits ==
    ASSUME NEW c \in DOMAIN Program
    PROVE  /\ Route(c)[1] = Start
           /\ Route(c)[Len(Program[c]) + 1].scopes = << >>
           /\ Follows(c, Program[c], Route(c))
           /\ Len(Program[c]) \in Nat
<1> DEFINE P(f) == /\ f[1] = Start
                   /\ f[Len(Program[c]) + 1].scopes = << >>
                   /\ Follows(c, Program[c], f)
<1>1. Routed(c)
  <2>1. DOMAIN Program = {"info", "info_bytes", "load", "load_bytes", "save",
                          "save_bytes"}
    BY DEF Program
  <2> QED  BY <2>1, InfoRouted, InfoBytesRouted, LoadRouted, LoadBytesRouted,
              SaveRouted, SaveBytesRouted
<1>2. \E f : P(f)
  BY <1>1 DEF Routed
<1>3. P(CHOOSE f : P(f))
  <2> HIDE DEF P
  <2> QED  BY <1>2, Zenon
<1>4. P(Route(c))
  BY <1>3, Zenon DEF Route
<1> QED  BY <1>1, <1>4, Zenon DEF Routed

\* The step a call that has not failed is at.
LEMMA NextStepFits ==
    ASSUME IInv, ~failed, ~Returned
    PROVE  /\ call \in DOMAIN Program /\ at \in 1..Len(Program[call])
           /\ Fits(call, Now, Route(call)[at])
           /\ Route(call)[at + 1] = After(call, Now, Route(call)[at])
<1>1. call \in DOMAIN Program
  BY EntryPoints DEF IInv, OwnTypeOK
<1>2. at \in 1..Len(Program[call])
  <2>1. at <= Len(Program[call])
    BY DEF IInv, OnRoute
  <2>2. at \in 1..Len(Program[call]) + 1 /\ Len(Program[call]) \in Nat
    BY <1>1, RouteFits DEF IInv, OwnTypeOK
  <2> QED  BY <2>1, <2>2
<1>3. Follows(call, Program[call], Route(call))
  BY <1>1, RouteFits, Zenon
<1> QED  BY <1>1, <1>2, <1>3, Zenon DEF Follows, Now

\* A call that is where its route says, with nothing to release.
Arrived == /\ call \in Calls
           /\ at \in 1..Len(Program[call])
           /\ failed = FALSE /\ dying = << >>
           /\ State(scopes, alive, pb) = Route(call)[at]

LEMMA ArrivedIsSafe == Arrived => IInv
<1> SUFFICES ASSUME Arrived PROVE IInv
  OBVIOUS
<1> DEFINE a == Route(call)[at]
<1>1. call \in DOMAIN Program
  BY EntryPoints DEF Arrived
<1>2. Follows(call, Program[call], Route(call)) /\ Len(Program[call]) \in Nat
  BY <1>1, RouteFits
<1>3. Fits(call, Now, a)
  BY <1>2 DEF Arrived, Follows, Now
<1>4. a.scopes = scopes /\ a.alive = alive /\ a.pb = pb
  <2>1. a = State(scopes, alive, pb)
    BY DEF Arrived
  <2> QED  BY <2>1 DEF State
<1>5. Sound(call, scopes, pb) /\ OwnedBy(call, pb, scopes) \subseteq alive
  BY <1>3, <1>4 DEF Fits
<1>6. ToGo(dying) = {}
  BY DEF Arrived, ToGo
<1>7. OwnTypeOK
  <2>1. at \in 1..Len(Program[call]) + 1
    BY <1>2 DEF Arrived
  <2>2. call \in Calls /\ failed \in BOOLEAN
    BY DEF Arrived
  <2> QED  BY <1>5, <2>1, <2>2 DEF OwnTypeOK, Sound
<1>8. InOrder
  BY DEF Arrived, InOrder, Endings
<1>9. OneOwner
  BY <1>5, <1>6 DEF OneOwner, Sound
<1>10. Now.does = "leave" => AllOwned
  BY <1>3, <1>4, <1>6 DEF Fits, AllOwned
<1>11. OnRoute
  <2>1. dying \notin Unsettled
    BY DEF Arrived, Unsettled
  <2> QED  BY <1>2, <1>4, <1>6, <1>10, <2>1 DEF OnRoute, Arrived
<1>12. ~Returned
  BY <1>5 DEF Returned, Sound
<1> QED  BY <1>7, <1>8, <1>9, <1>11, <1>12 DEF IInv, Arrived

\* A call that leaves its functions after a failure, or that has returned.
Falling == /\ OwnTypeOK /\ InOrder /\ OneOwner /\ AllOwned
           /\ failed \/ Returned
           /\ Returned => dying = << >>

LEMMA FallingIsSafe == Falling => IInv
BY DEF Falling, IInv, OnRoute

\* The call starts as its route does.
LEMMA InitIsSafe == OwnInit => IInv
<1> SUFFICES ASSUME OwnInit PROVE Arrived
  BY ArrivedIsSafe
<1>1. call \in DOMAIN Program
  BY EntryPoints DEF OwnInit
<1>2. /\ Route(call)[1] = Start /\ Len(Program[call]) \in Nat
      /\ Route(call)[Len(Program[call]) + 1].scopes = << >>
  BY <1>1, RouteFits
<1>3. Len(Program[call]) # 0
  <2>1. Start.scopes # << >>
    BY DEF Start, State
  <2>2. SUFFICES ASSUME Len(Program[call]) = 0 PROVE FALSE
    OBVIOUS
  <2>3. Len(Program[call]) + 1 = 1
    BY <2>2
  <2> QED  BY <1>2, <2>1, <2>3
<1> QED  BY <1>2, <1>3 DEF OwnInit, Arrived, Start

\* A step of a call that is on its route, and that stays in a function,
\* brings the call to the next place of the route.
LEMMA StepArrives ==
    ASSUME IInv, Running, Now.does \in {"call", "let", "enter"},
           UNCHANGED <<call, failed, dying>>, at' = at + 1,
           State(scopes', alive', pb') = After(call, Now, Route(call)[at])
    PROVE  IInv'
<1> DEFINE a == Route(call)[at]
           n == Len(Program[call])
<1>1. ~failed /\ ~Returned /\ dying = << >>
  BY DEF Running
<1>2. /\ call \in DOMAIN Program /\ at \in 1..n
      /\ Fits(call, Now, a) /\ Route(call)[at + 1] = After(call, Now, a)
  BY <1>1, NextStepFits, Zenon
<1>3. State(scopes', alive', pb').scopes = scopes'
  BY DEF State
<1>4. scopes' # << >>
  <2>1. a.scopes \in Stacks(call) /\ a.scopes # << >>
    BY <1>2 DEF Fits, Sound
  <2>2. CASE Now.does = "call"
    BY <1>3, <2>1, <2>2 DEF After, State
  <2>3. CASE Now.does = "let"
    <3>1. Front(a.scopes) \in Seq(Seq(OwnersOf(call)))
      BY <2>1, ByFunction DEF Stacks
    <3>2. After(call, Now, a).scopes
            = Append(Front(a.scopes), Append(Kept(Last(a.scopes), Now.takes), Now.fn))
      BY <2>3 DEF After, State
    <3> QED  BY <1>3, <3>1, <3>2
  <2>4. CASE Now.does = "enter"
    <3>1. After(call, Now, a).scopes = Append(a.scopes, << >>)
      BY <2>4 DEF After, State
    <3> QED  BY <1>3, <2>1, <3>1 DEF Stacks
  <2> QED  BY <2>2, <2>3, <2>4
<1>5. n \in Nat /\ Route(call)[n + 1].scopes = << >>
  BY <1>2, RouteFits
<1>6. at + 1 # n + 1
  BY <1>2, <1>3, <1>4, <1>5
<1>7. at + 1 \in 1..n
  BY <1>2, <1>5, <1>6
<1>8. Arrived'
  BY <1>1, <1>2, <1>7 DEF Arrived, IInv, OwnTypeOK
<1>9. (Arrived => IInv)'
  BY ArrivedIsSafe, PTL
<1> QED  BY <1>8, <1>9

\* A call that runs is where its route says.
LEMMA OnRouteHere ==
    ASSUME IInv, Running, Now.does # "leave"
    PROVE  LET a == Route(call)[at]
           IN  a.scopes = scopes /\ a.alive = alive /\ a.pb = pb
<1>1. ~failed /\ ~Returned /\ dying = << >>
  BY DEF Running
<1>2. ToGo(dying) = {} /\ dying \notin Unsettled
  BY <1>1 DEF ToGo, Unsettled
<1> QED  BY <1>1, <1>2 DEF IInv, OnRoute

LEMMA SucceedIsSafe == IInv /\ Succeed => IInv'
<1> SUFFICES ASSUME IInv, Succeed PROVE IInv'
  OBVIOUS
<1>1. Running /\ Now.does = "call"
  BY DEF Succeed
<1>2. LET a == Route(call)[at]
      IN  a.scopes = scopes /\ a.alive = alive /\ a.pb = pb
  BY <1>1, OnRouteHere
<1>3. State(scopes', alive', pb') = After(call, Now, Route(call)[at])
  BY <1>1, <1>2 DEF Succeed, After
<1> QED  BY <1>1, <1>3, StepArrives DEF Succeed

LEMMA DeclareIsSafe == IInv /\ Declare => IInv'
<1> SUFFICES ASSUME IInv, Declare PROVE IInv'
  OBVIOUS
<1>1. Running /\ Now.does = "let"
  BY DEF Declare
<1>2. LET a == Route(call)[at]
      IN  a.scopes = scopes /\ a.alive = alive /\ a.pb = pb
  BY <1>1, OnRouteHere
<1>3. State(scopes', alive', pb') = After(call, Now, Route(call)[at])
  BY <1>1, <1>2 DEF Declare, After
<1> QED  BY <1>1, <1>3, StepArrives DEF Declare

LEMMA EnterIsSafe == IInv /\ EnterFunction => IInv'
<1> SUFFICES ASSUME IInv, EnterFunction PROVE IInv'
  OBVIOUS
<1>1. Running /\ Now.does = "enter"
  BY DEF EnterFunction
<1>2. LET a == Route(call)[at]
      IN  a.scopes = scopes /\ a.alive = alive /\ a.pb = pb
  BY <1>1, OnRouteHere
<1>3. State(scopes', alive', pb') = After(call, Now, Route(call)[at])
  BY <1>1, <1>2 DEF EnterFunction, After
<1> QED  BY <1>1, <1>3, StepArrives DEF EnterFunction

\* A step that fails undoes what nobody owns yet.
LEMMA FailIsSafe == IInv /\ Fail => IInv'
<1> SUFFICES ASSUME IInv, Fail PROVE Falling'
  <2>1. (Falling => IInv)'
    BY FallingIsSafe, PTL
  <2> QED  BY <2>1
<1> DEFINE a == Route(call)[at]
<1>1. Running /\ Now.does = "call" /\ Now.fn \notin Infallible
  BY DEF Fail
<1>2. a.scopes = scopes /\ a.alive = alive /\ a.pb = pb
  BY <1>1, OnRouteHere
<1>3. ~failed /\ ~Returned /\ dying = << >>
  BY <1>1 DEF Running
<1>4. Fits(call, Now, a)
  BY <1>3, NextStepFits
<1>5. alive' = OwnedBy(call, pb, scopes)
  BY <1>1, <1>2, <1>4 DEF Fits, Fail
<1>6. ToGo(dying) = {} /\ dying' = dying
  BY <1>3 DEF ToGo, Fail
<1>7. /\ OwnTypeOK' /\ InOrder' /\ OneOwner' /\ AllOwned'
  <2>1. UNCHANGED <<call, at, scopes, dying, pb>> /\ failed' \in BOOLEAN
    BY DEF Fail
  <2>2. OwnTypeOK /\ InOrder /\ OneOwner
    BY DEF IInv
  <2>3. OwnTypeOK'
    BY <2>1, <2>2 DEF OwnTypeOK
  <2>4. InOrder'
    BY <2>1, <2>2 DEF InOrder
  <2>5. OneOwner'
    BY <2>1, <2>2 DEF OneOwner
  <2>6. AllOwned'
    BY <1>5, <1>6, <2>1 DEF AllOwned
  <2> QED  BY <2>3, <2>4, <2>5, <2>6
<1>8. failed' /\ ~Returned'
  BY <1>3 DEF Fail, Returned
<1> QED  BY <1>7, <1>8 DEF Falling

\* Dropping a local: its objects are to go, and have no owner.
LEMMA DropLastIsSafe ==
    ASSUME IInv, AllOwned, dying = << >>, ~Returned, Last(scopes) # << >>,
           DropLast
    PROVE  LET o == Last(Last(scopes))
           IN  /\ Sound(call, scopes, pb) /\ Sound(call, scopes', pb)
               /\ scopes' = WithoutLast(scopes)
               /\ Front(scopes') = Front(scopes) /\ Len(scopes') = Len(scopes)
               /\ dying' = Releases(o) /\ ToGo(dying') = Owned(call, pb, o)
               /\ ToGo(dying') \subseteq OwnedIn(call, pb, Last(scopes))
               /\ OwnedBy(call, pb, scopes)
                    = OwnedBy(call, pb, scopes') \cup ToGo(dying')
               /\ o = "OutputCtx" <=> dying' \in Unsettled
               /\ InOrder' /\ OneOwner' /\ AllOwned' /\ ~Returned'
<1> DEFINE o == Last(Last(scopes))
<1>1. Sound(call, scopes, pb)
  BY DEF IInv, OwnTypeOK, OneOwner, Sound, Returned
<1>2. scopes' = WithoutLast(scopes) /\ dying' = Releases(o)
      /\ UNCHANGED <<call, failed, alive, pb>>
  BY DEF DropLast, WithoutLast
<1>3. /\ Sound(call, scopes', pb)
      /\ Front(scopes') = Front(scopes) /\ Len(scopes') = Len(scopes)
      /\ o \in OwnersOf(call)
      /\ Owned(call, pb, o) \subseteq OwnedIn(call, pb, Last(scopes))
      /\ OwnedBy(call, pb, scopes)
            = OwnedBy(call, pb, scopes') \cup Owned(call, pb, o)
      /\ OwnedBy(call, pb, scopes') \cap Owned(call, pb, o) = {}
  BY <1>1, <1>2, OneLocalLess
<1>4. EndsWell(dying', o)
  <2>1. call \in DOMAIN Program /\ pb \in Targets(call)
    BY EntryPoints DEF IInv, OwnTypeOK
  <2> QED  BY <1>2, <1>3, <2>1, ReleasesWhatItOwns
<1>5. ToGo(dying') = Owned(call, pb, o)
  BY <1>4 DEF EndsWell
<1>6. InOrder'
  BY <1>2, <1>4 DEF EndsWell, InOrder
<1>7. OneOwner'
  BY <1>2, <1>3, <1>5 DEF OneOwner, Sound
<1>8. AllOwned'
  <2>1. ToGo(dying) = {}
    BY DEF ToGo
  <2> QED  BY <1>2, <1>3, <1>5, <2>1 DEF AllOwned
<1>9. ~Returned'
  BY <1>3 DEF Sound, Returned
<1>10. o = "OutputCtx" <=> dying' \in Unsettled
  BY <1>4 DEF EndsWell
<1> QED  BY <1>1, <1>2, <1>3, <1>5, <1>6, <1>7, <1>8, <1>9, <1>10

\* Leaving a function drops its locals, after a failure or at its end.
LEMMA DropLocalIsSafe == IInv /\ DropLocal => IInv'
<1> SUFFICES ASSUME IInv, DropLocal PROVE IInv'
  OBVIOUS
<1> DEFINE a == Route(call)[at]
<1>1. /\ DropLast /\ UNCHANGED <<call, at, failed, alive, pb>>
      /\ ~Returned /\ dying = << >> /\ Last(scopes) # << >>
      /\ failed \/ Now.does = "leave"
  BY DEF DropLocal, DropLast, Leaving
<1>2. AllOwned
  BY <1>1 DEF IInv, OnRoute
<1>3. /\ Sound(call, scopes, pb) /\ Sound(call, scopes', pb)
      /\ Front(scopes') = Front(scopes) /\ Len(scopes') = Len(scopes)
      /\ ToGo(dying') \subseteq OwnedIn(call, pb, Last(scopes))
      /\ InOrder' /\ OneOwner' /\ AllOwned' /\ ~Returned'
  BY <1>1, <1>2, DropLastIsSafe
<1>4. OwnTypeOK'
  BY <1>1, <1>3 DEF IInv, OwnTypeOK, Sound
<1>5. OnRoute'
  <2> SUFFICES ASSUME ~failed PROVE OnRoute'
    BY <1>1 DEF OnRoute
  <2>1. Now.does = "leave" /\ Now' = Now
    BY <1>1 DEF Now
  <2>2. /\ at <= Len(Program[call]) /\ Front(scopes) = Front(a.scopes)
        /\ Len(scopes) > 1 => pb = a.pb
    BY <1>1, <2>1 DEF IInv, OnRoute
  <2>3. ASSUME Len(scopes') > 1 PROVE "format" \notin ToGo(dying')
    <3>1. Fits(call, Now, a)
      BY <1>1, NextStepFits
    <3>2. /\ a.scopes \in Stacks(call) /\ a.scopes # << >>
          /\ scopes \in Stacks(call) /\ scopes # << >>
      BY <1>3, <3>1 DEF Fits, Sound
    <3>3. Len(a.scopes) = Len(scopes)
      <4>1. /\ Len(Front(a.scopes)) = Len(a.scopes) - 1 /\ Len(a.scopes) \in Nat
            /\ Len(Front(scopes)) = Len(scopes) - 1 /\ Len(scopes) \in Nat
        BY <3>2, ByFunction
      <4> QED  BY <2>2, <4>1
    <3>4. "format" \in OwnedBy(call, pb, Front(scopes))
      BY <1>3, <2>1, <2>2, <2>3, <3>1, <3>3 DEF Fits
    <3>5. OwnedBy(call, pb, Front(scopes))
             \cap OwnedIn(call, pb, Last(scopes)) = {}
      BY <1>3, <3>2, ByFunction DEF Sound
    <3> QED  BY <1>3, <3>4, <3>5
  <2> QED  BY <1>1, <1>3, <2>1, <2>2, <2>3 DEF OnRoute
<1> QED  BY <1>1, <1>2, <1>3, <1>4, <1>5 DEF IInv

\* drop(out_ctx): the owner goes, the function goes on.
LEMMA DropEarlyIsSafe == IInv /\ DropEarly => IInv'
<1> SUFFICES ASSUME IInv, DropEarly PROVE IInv'
  OBVIOUS
<1> DEFINE a == Route(call)[at]
           b == Route(call)[at + 1]
           o == Last(Last(scopes))
           n == Len(Program[call])
<1>1. /\ DropLast /\ Running /\ Now.does = "drop" /\ at' = at + 1
      /\ UNCHANGED <<call, failed, alive, pb>>
  BY DEF DropEarly, DropLast
<1>2. ~failed /\ ~Returned /\ dying = << >>
  BY <1>1 DEF Running
<1>3. a.scopes = scopes /\ a.alive = alive /\ a.pb = pb
  BY <1>1, OnRouteHere
<1>4. /\ call \in DOMAIN Program /\ at \in 1..n
      /\ Fits(call, Now, a) /\ b = After(call, Now, a)
  BY <1>2, NextStepFits, Zenon
<1>5. AllOwned /\ Last(scopes) # << >>
  <2>1. ToGo(dying) = {}
    BY <1>2 DEF ToGo
  <2> QED  BY <1>1, <1>3, <1>4, <2>1 DEF Fits, AllOwned
<1>6. /\ Sound(call, scopes, pb) /\ Sound(call, scopes', pb)
      /\ scopes' = WithoutLast(scopes) /\ Len(scopes') = Len(scopes)
      /\ ToGo(dying') = Owned(call, pb, o)
      /\ OwnedBy(call, pb, scopes)
            = OwnedBy(call, pb, scopes') \cup ToGo(dying')
      /\ o = "OutputCtx" <=> dying' \in Unsettled
      /\ InOrder' /\ OneOwner' /\ AllOwned' /\ ~Returned'
  BY <1>1, <1>2, <1>5, DropLastIsSafe
<1>7. /\ b.scopes = scopes' /\ b.alive = alive \ ToGo(dying')
      /\ b.pb = IF o = "OutputCtx" THEN "NULL" ELSE pb
  BY <1>1, <1>3, <1>4, <1>6 DEF After, State
<1>8. at + 1 \in 1..n
  <2>1. n \in Nat /\ Route(call)[n + 1].scopes = << >>
    BY <1>4, RouteFits
  <2>2. b.scopes # << >>
    BY <1>6, <1>7 DEF Sound
  <2> QED  BY <1>4, <2>1, <2>2
<1>9. OwnTypeOK'
  BY <1>1, <1>6, <1>8 DEF IInv, OwnTypeOK, Sound
<1>10. Fits(call, Program[call][at + 1], b)
  <2>1. Follows(call, Program[call], Route(call))
    BY <1>4, RouteFits
  <2> QED  BY <1>8, <2>1, Zenon DEF Follows
<1>11. IF dying' \in Unsettled THEN b.pb = "NULL" ELSE b.pb = pb
  BY <1>6, <1>7
<1>12. ToGo(dying') \subseteq alive
  BY <1>1, <1>6 DEF AllOwned
<1>13. ASSUME Now'.does = "leave", Len(scopes') > 1
       PROVE  pb = b.pb /\ "format" \notin ToGo(dying')
  <2>1. "format" \in OwnedBy(call, b.pb, Front(scopes'))
    <3>1. Now' = Program[call][at + 1]
      BY <1>1 DEF Now
    <3> DEFINE w == Program[call][at + 1]
    <3>2. Fits(call, w, b) /\ w.does = "leave"
      BY <1>10, <1>13, <3>1
    <3> HIDE DEF w, b
    <3>3. Len(b.scopes) = 1 \/ "format" \in OwnedBy(call, b.pb, Front(b.scopes))
      BY <3>2, Zenon DEF Fits
    <3>4. b.scopes = scopes'
      BY <1>7
    <3>5. Len(scopes') \in Nat
      BY <1>6 DEF Sound, Stacks
    <3>6. Len(b.scopes) # 1
      BY <1>13, <3>4, <3>5
    <3> QED  BY <3>3, <3>4, <3>6
  <2>2. scopes' \in Stacks(call) /\ scopes' # << >>
    BY <1>6 DEF Sound
  <2>3. "format" \in OwnedBy(call, pb, Front(scopes'))
    <3>1. Front(scopes') \in Stacks(call)
      BY <2>2, ByFunction
    <3> QED  BY <2>1, <3>1, StackOwns
  <2>4. "format" \in OwnedBy(call, pb, scopes')
    BY <2>2, <2>3, ByFunction
  <2>5. "format" \notin ToGo(dying')
    BY <1>1, <1>6, <2>4 DEF OneOwner
  <2>6. o # "OutputCtx"
    BY <1>6, <2>5 DEF Owned
  <2> QED  BY <1>7, <2>5, <2>6
<1>14. OnRoute'
  BY <1>1, <1>6, <1>7, <1>8, <1>11, <1>12, <1>13 DEF OnRoute, Now
<1> QED  BY <1>1, <1>6, <1>9, <1>14 DEF IInv

\* The function is left: what its caller owns is what there is.
LEMMA LeaveIsSafe == IInv /\ LeaveFunction => IInv'
<1> SUFFICES ASSUME IInv, LeaveFunction PROVE IInv'
  OBVIOUS
<1> DEFINE a == Route(call)[at]
           b == Route(call)[at + 1]
           n == Len(Program[call])
<1>1. /\ scopes' = Front(scopes) /\ UNCHANGED <<call, failed, dying, alive, pb>>
      /\ ~Returned /\ dying = << >> /\ Last(scopes) = << >>
      /\ failed \/ Now.does = "leave"
      /\ at' = IF failed THEN at ELSE at + 1
  BY DEF LeaveFunction, Leaving
<1>2. AllOwned /\ ToGo(dying) = {}
  BY <1>1 DEF IInv, OnRoute, ToGo
<1>3. Sound(call, scopes, pb)
  BY <1>1 DEF IInv, OwnTypeOK, OneOwner, Sound, Returned
<1>4. /\ scopes' \in Stacks(call) /\ Disjoint(call, pb, scopes')
      /\ Len(scopes') = Len(scopes) - 1 /\ Len(scopes) \in Nat
      /\ alive = OwnedBy(call, pb, scopes')
  <2>1. /\ Front(scopes) \in Stacks(call) /\ Disjoint(call, pb, Front(scopes))
        /\ Len(Front(scopes)) = Len(scopes) - 1 /\ Len(scopes) \in Nat
        /\ OwnedBy(call, pb, scopes)
              = OwnedBy(call, pb, Front(scopes)) \cup OwnedIn(call, pb, Last(scopes))
    BY <1>3, ByFunction DEF Sound
  <2>2. OwnedIn(call, pb, Last(scopes)) = {}
    BY <1>1, OwnedByNone
  <2> QED  BY <1>1, <1>2, <2>1, <2>2 DEF AllOwned
<1>5. AllOwned' /\ InOrder' /\ OneOwner'
  <2>1. ToGo(dying') = {}
    BY <1>1, <1>2
  <2> QED  BY <1>1, <1>4, <2>1 DEF AllOwned, InOrder, OneOwner, Endings
<1>6. CASE failed
  <2>1. OwnTypeOK'
    BY <1>1, <1>4, <1>6 DEF IInv, OwnTypeOK
  <2>2. Falling'
    BY <1>1, <1>5, <1>6, <2>1 DEF Falling
  <2>3. (Falling => IInv)'
    BY FallingIsSafe, PTL
  <2> QED  BY <2>2, <2>3
<1>7. CASE ~failed
  <2>1. /\ call \in DOMAIN Program /\ at \in 1..n
        /\ Fits(call, Now, a) /\ b = After(call, Now, a)
    BY <1>1, <1>7, NextStepFits, Zenon
  <2>2. n \in Nat
    BY <2>1, RouteFits
  <2>3. CASE scopes' = << >>
    <3>1. OwnTypeOK'
      BY <1>1, <1>4, <1>7, <2>1, <2>2 DEF IInv, OwnTypeOK
    <3>2. Falling'
      BY <1>1, <1>5, <2>3, <3>1 DEF Falling, Returned
    <3>3. (Falling => IInv)'
      BY FallingIsSafe, PTL
    <3> QED  BY <3>2, <3>3
  <2>4. CASE scopes' # << >>
    <3>1. Len(scopes) > 1
      <4>1. scopes' \in Seq(Seq(OwnersOf(call)))
        BY <1>4 DEF Stacks
      <4>2. Len(scopes') # 0
        BY <2>4, <4>1
      <4> QED  BY <1>4, <4>2
    <3>2. Front(a.scopes) = scopes' /\ a.pb = pb
      BY <1>1, <1>7, <3>1 DEF IInv, OnRoute
    <3>3. b = Tidy(call, scopes', pb)
      BY <1>1, <1>7, <2>1, <3>2 DEF After
    <3>4. b = State(scopes', alive', pb')
      BY <1>1, <1>4, <3>3 DEF Tidy
    <3>5. at + 1 # n + 1
      <4>1. Route(call)[n + 1].scopes = << >>
        BY <2>1, RouteFits
      <4>2. b.scopes = scopes'
        BY <3>4 DEF State
      <4> QED  BY <2>4, <4>1, <4>2
    <3>6. Arrived'
      BY <1>1, <1>7, <2>1, <2>2, <3>4, <3>5 DEF Arrived, IInv, OwnTypeOK
    <3>7. (Arrived => IInv)'
      BY ArrivedIsSafe, PTL
    <3> QED  BY <3>6, <3>7
  <2> QED  BY <2>3, <2>4
<1> QED  BY <1>6, <1>7

\* An object is released.
LEMMA ReleaseIsSafe == IInv /\ Release => IInv'
<1> SUFFICES ASSUME IInv, Release PROVE IInv'
  OBVIOUS
<1> DEFINE a == Route(call)[at]
           h == Head(dying)
           t == Tail(dying)
           owned == OwnedBy(call, pb, scopes)
<1>1. /\ dying # << >> /\ dying' = t /\ alive' = alive \ {h}
      /\ pb' = IF h = "pb" THEN "NULL" ELSE pb
      /\ UNCHANGED <<call, at, failed, scopes>>
  BY DEF Release
<1>2. OwnTypeOK /\ InOrder /\ OneOwner /\ OnRoute /\ AllOwned /\ ~Returned
  BY <1>1 DEF IInv
<1>3. Shortens(dying, h, t)
  BY <1>1, <1>2, EndingTail DEF InOrder
<1> HIDE DEF h, t
<1>4. scopes \in Stacks(call) /\ pb \in Targets(call)
  BY <1>2 DEF OwnTypeOK
\* Where pb points matters to nobody once the context is to go.
<1>5. OwnedBy(call, pb', scopes) = owned /\ Disjoint(call, pb', scopes)
  <2>1. CASE h = "pb"
    <3>1. ToGo(dying) = {"format"}
      BY <1>3, <2>1, ToGo2 DEF Shortens
    <3>2. "format" \notin owned
      BY <1>2, <3>1 DEF OneOwner
    <3> QED  BY <1>2, <1>4, <3>2, StackOwns DEF OneOwner
  <2>2. CASE h # "pb"
    BY <1>1, <1>2, <2>2 DEF OneOwner
  <2> QED  BY <2>1, <2>2
<1>6. "pb" \notin alive
  <2>1. owned \subseteq Objects
    BY <1>4, StackOwns
  <2>2. "pb" \notin ToGo(dying)
    BY DEF ToGo
  <2> QED  BY <1>2, <2>1, <2>2 DEF AllOwned, Objects
<1>7. /\ owned \cap ToGo(dying) = {} /\ ToGo(t) = ToGo(dying) \ {h}
      /\ h # "pb" => h \in ToGo(dying)
  BY <1>2, <1>3 DEF OneOwner, Shortens
<1> HIDE DEF owned
<1>8. alive' = owned \cup ToGo(t)
  <2>1. alive = owned \cup ToGo(dying)
    BY <1>2 DEF AllOwned, owned
  <2> QED  BY <1>1, <1>6, <1>7, <2>1
<1>9. OneOwner' /\ AllOwned'
  BY <1>1, <1>5, <1>7, <1>8 DEF OneOwner, AllOwned, owned
<1>10. InOrder'
  BY <1>1, <1>3 DEF InOrder, Shortens
<1>11. OwnTypeOK'
  BY <1>1, <1>2 DEF OwnTypeOK, Targets
<1>12. OnRoute'
  <2> SUFFICES ASSUME ~failed PROVE OnRoute'
    BY <1>1 DEF OnRoute
  <2>1. at <= Len(Program[call]) /\ Now' = Now
    BY <1>1, <1>2 DEF OnRoute, Now
  <2>2. CASE Now.does = "leave"
    <3>1. /\ Front(scopes) = Front(a.scopes)
          /\ Len(scopes) > 1 => pb = a.pb /\ "format" \notin ToGo(dying)
      BY <1>2, <2>2 DEF OnRoute
    <3>2. Len(scopes) > 1 => h # "pb"
      <4>1. ToGo(<<"pb", "format">>) = {"format"}
        BY ToGo2
      <4> QED  BY <1>3, <3>1, <4>1 DEF Shortens
    <3> QED  BY <1>1, <1>7, <1>9, <2>1, <2>2, <3>1, <3>2 DEF OnRoute
  <2>3. CASE Now.does # "leave"
    <3>1. /\ scopes = a.scopes /\ alive = a.alive \cup ToGo(dying)
          /\ a.alive \cap ToGo(dying) = {}
          /\ IF dying \in Unsettled THEN a.pb = "NULL" ELSE pb = a.pb
      BY <1>2, <2>3 DEF OnRoute
    <3> DEFINE there == a.alive
    <3> HIDE DEF there
    <3>2. alive' = a.alive \cup ToGo(t) /\ a.alive \cap ToGo(t) = {}
      BY <1>1, <1>6, <1>7, <3>1
    <3>3. IF t \in Unsettled THEN a.pb = "NULL" ELSE pb' = a.pb
      <4>1. <<"pb", "format">> \in Unsettled
        BY DEF Unsettled
      <4> QED  BY <1>1, <1>3, <3>1, <4>1 DEF Shortens
    <3> HIDE DEF a
    <3> QED  BY <1>1, <2>1, <2>3, <3>1, <3>2, <3>3 DEF OnRoute, a
  <2> QED  BY <2>2, <2>3
<1>13. ~Returned'
  BY <1>1, <1>2 DEF Returned
<1> QED  BY <1>9, <1>10, <1>11, <1>12, <1>13 DEF IInv

\* The invariant holds before every step of every call.
LEMMA EveryStepIsSafe == IInv /\ [OwnNext]_ownVars => IInv'
<1> SUFFICES ASSUME IInv, [OwnNext]_ownVars PROVE IInv'
  OBVIOUS
<1>1. CASE UNCHANGED ownVars
  BY <1>1 DEF ownVars, IInv, OwnTypeOK, InOrder, OneOwner, AllOwned, OnRoute,
              Returned, Now
<1>2. CASE Idle
  BY <1>1, <1>2 DEF Idle
<1>3. CASE OwnNext /\ ~Idle
  BY <1>3, SucceedIsSafe, FailIsSafe, DeclareIsSafe, EnterIsSafe,
     DropLocalIsSafe, DropEarlyIsSafe, LeaveIsSafe, ReleaseIsSafe, Zenon
  DEF OwnNext
<1> QED  BY <1>1, <1>2, <1>3

\* What the next step works on is there ...
LEMMA SafeDoesNotDangle == IInv => NothingDangles
<1> SUFFICES ASSUME IInv PROVE Touched \subseteq alive
  BY DEF NothingDangles
<1> DEFINE a == Route(call)[at]
           h == Head(dying)
<1>1. CASE dying # << >>
  <2>1. OwnTypeOK /\ InOrder /\ AllOwned
    BY <1>1 DEF IInv
  <2>2. Shortens(dying, h, Tail(dying)) /\ dying \in Endings
    BY <1>1, <2>1, EndingTail DEF InOrder
  <2>3. CASE h = "format"
    <3>1. dying \in {<<"format">>, <<"format", "buffer", "avio", "cursor">>}
      BY <2>2, <2>3 DEF Shortens
    <3>2. CASE dying = <<"format">>
      <4>1. pb = "NULL" /\ ToGo(dying) = {"format"}
        BY <2>1, <3>2, ToGo1 DEF InOrder
      <4> QED  BY <1>1, <2>1, <2>3, <4>1
               DEF Touched, ReleaseNeeds, Behind, AllOwned
    <3>3. CASE dying = <<"format", "buffer", "avio", "cursor">>
      <4>1. call \in FromBytes /\ ToGo(dying) = {"format", "buffer", "avio", "cursor"}
        BY <2>1, <3>3, ToGo4 DEF InOrder
      <4>2. Behind(pb) \subseteq {"buffer", "avio", "cursor"}
        BY <2>1, <4>1 DEF OwnTypeOK, Targets, FromBytes, Behind
      <4> QED  BY <1>1, <2>1, <2>3, <4>1, <4>2 DEF Touched, ReleaseNeeds, AllOwned
    <3> QED  BY <3>1, <3>2, <3>3
  <2>4. CASE h = "pb"
    <3>1. ToGo(dying) = {"format"}
      BY <2>2, <2>4, ToGo2 DEF Shortens
    <3> QED  BY <1>1, <2>1, <2>4, <3>1 DEF Touched, ReleaseNeeds, AllOwned
  <2>5. CASE h = "buffer"
    <3>1. {"buffer", "avio"} \subseteq ToGo(dying)
      BY <2>2, <2>5 DEF Shortens
    <3> QED  BY <1>1, <2>1, <2>5, <3>1 DEF Touched, ReleaseNeeds, AllOwned
  <2>6. CASE h \notin {"format", "pb", "buffer"}
    <3>1. h \in ToGo(dying)
      BY <2>2, <2>6 DEF Shortens
    <3>2. Touched \subseteq {h}
      BY <1>1, <2>6 DEF Touched, ReleaseNeeds
    <3> QED  BY <2>1, <3>1, <3>2 DEF AllOwned
  <2> QED  BY <2>3, <2>4, <2>5, <2>6
<1>2. CASE Running
  <2>1. ~failed /\ ~Returned /\ dying = << >>
    BY <1>2 DEF Running
  <2>2. Fits(call, Now, a)
    BY <2>1, NextStepFits
  <2>3. CASE Now.does = "leave"
    <3>1. Now.needs \cup Now.undo = {}
      BY <2>2, <2>3 DEF Fits
    <3> QED  BY <1>2, <2>1, <3>1 DEF Touched
  <2>4. CASE Now.does # "leave"
    <3>1. a.scopes = scopes /\ a.alive = alive /\ a.pb = pb
      BY <1>2, <2>4, OnRouteHere
    <3>2. Resolved(call, pb, Now.needs \cup Now.undo) \subseteq alive
      BY <2>2, <3>1 DEF Fits
    <3>3. BehindIn(call, pb) = Behind(pb)
      BY DEF BehindIn, Behind
    <3> QED  BY <1>2, <2>1, <3>2, <3>3 DEF Touched, Resolved
  <2> QED  BY <2>3, <2>4
<1>3. CASE dying = << >> /\ ~Running
  BY <1>3 DEF Touched
<1> QED  BY <1>1, <1>2, <1>3

\* ... and nothing is left when the call has returned.
LEMMA SafeDoesNotLeak == IInv => NothingLeaks
<1> SUFFICES ASSUME IInv, Returned PROVE alive = {}
  BY DEF NothingLeaks
<1>1. AllOwned /\ dying = << >> /\ scopes = << >>
  BY DEF IInv, Returned
<1>2. OwnedBy(call, pb, << >>) = {} /\ ToGo(<< >>) = {}
  BY OwnedByNone DEF ToGo
<1> QED  BY <1>1, <1>2 DEF AllOwned

-----------------------------------------------------------------------------
(* The theorems.                                                           *)

\* Throughout a call every object has one owner or is about to be released,
\* and a call that has not failed is at a step that fits (the whole of
\* IInv; loader.rs, encoder.rs, avio.rs, util.rs).
THEOREM OwnershipHolds == OwnSpec => []IInv
BY InitIsSafe, EveryStepIsSafe, PTL DEF OwnSpec

\* Whichever entry point is called and whichever of its steps fails, nothing
\* is used, released or read through pb after it is gone, and nothing is
\* released twice (the Drop of FormatCtx, OutputCtx and the AVIOContexts, and
\* the cleanup of AvioNew and avformat_open_input when they fail).
THEOREM NeverDangles == OwnSpec => []NothingDangles
BY OwnershipHolds, SafeDoesNotDangle, PTL

\* When it has returned, with a result or with any of its errors, everything
\* it asked FFmpeg for is released.
THEOREM NeverLeaks == OwnSpec => []NothingLeaks
BY OwnershipHolds, SafeDoesNotLeak, PTL
-----------------------------------------------------------------------------
(* A call with its callbacks.                                              *)

\* A step of a call is a callback or leaves cursor and sink alone.
LEMMA CallStep == [CallNext]_callVars => [Next]_vars
<1> SUFFICES ASSUME [CallNext]_callVars PROVE [Next]_vars
  OBVIOUS
<1>1. CASE ReadCallback
  BY <1>1, Zenon DEF ReadCallback, Next, Whences
<1>2. CASE WriteCallback
  BY <1>2, Zenon DEF WriteCallback, Next
<1>3. CASE FlushSink \/ TakeBytes
  BY <1>3, Zenon DEF FlushSink, TakeBytes, Next
<1>4. CASE OwnershipStep \/ UNCHANGED callVars
  BY <1>4, Zenon DEF OwnershipStep, callVars
<1> QED BY <1>1, <1>2, <1>3, <1>4, Zenon DEF CallNext

\* It is a step of Ownership, or a callback, which changes nothing there.
LEMMA CallStepOwns == [CallNext]_callVars => [OwnNext]_ownVars
<1> SUFFICES ASSUME [CallNext]_callVars PROVE [OwnNext]_ownVars
  OBVIOUS
<1>1. CASE ReadCallback \/ WriteCallback
  BY <1>1, Zenon DEF ReadCallback, WriteCallback
<1>2. CASE FlushSink \/ TakeBytes
  BY <1>2, Zenon DEF FlushSink, TakeBytes, OwnNext
<1>3. CASE OwnershipStep \/ UNCHANGED callVars
  BY <1>3, Zenon DEF OwnershipStep, callVars
<1> QED BY <1>1, <1>2, <1>3, Zenon DEF CallNext

\* Every call, with whichever steps of it fail, uses cursor and sink the way
\* ByteIO describes.
THEOREM CallUsesTheCallbacks == CallSpec => Spec
<1>1. CallInit => Init
  BY DEF CallInit
<1> QED BY <1>1, CallStep, PTL DEF CallSpec, Spec

\* It makes and releases its objects the way Ownership describes, whatever
\* FFmpeg reads and writes through the callbacks.
THEOREM CallOwnsItsObjects == CallSpec => OwnSpec
<1>1. CallInit => OwnInit
  BY DEF CallInit
<1> QED BY <1>1, CallStepOwns, PTL DEF CallSpec, OwnSpec

\* So in a call read_packet copies only bytes of the input (avio.rs,
\* read_packet and read_seek) ...
THEOREM CallReadsStayInside == CallSpec => []CursorInBounds
BY CallUsesTheCallbacks, ReadsStayInside, PTL

\* ... every variable of the callbacks keeps its type (ReadCursor, WriteSink) ...
THEOREM CallTypeCorrect == CallSpec => []TypeOK
BY CallUsesTheCallbacks, TypeCorrect, PTL

\* ... what save_bytes returns is what the muxer wrote, where it wrote it
\* (write_packet, write_seek, avio_flush before into_bytes) ...
THEOREM CallSinkIsAFile == CallSpec => KeepsPromise
BY CallUsesTheCallbacks, SinkIsAFile, PTL

\* ... no object is used after it is gone (the drop order of FormatCtx and of
\* save_bytes), whatever the callbacks read and wrote in between ...
THEOREM CallNeverDangles == CallSpec => []NothingDangles
BY CallOwnsItsObjects, NeverDangles, PTL

\* ... and none is left behind when load, info or save has returned.
THEOREM CallNeverLeaks == CallSpec => []NothingLeaks
BY CallOwnsItsObjects, NeverLeaks, PTL
=============================================================================
