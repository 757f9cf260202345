------------------------ MODULE GeneratedAgentProofs ------------------------
(* Proofs about the program a canvas is written as (GeneratedAgent), for   *)
(* any canvases and any tools.                                             *)
(*                                                                         *)
(* A program that loads is a sequence of parts each of which finds what it *)
(* evaluates bound by the parts before it.  The lemmas say when joining    *)
(* sequences of parts and inserting a part keep that, so each host is      *)
(* proved by going through its parts in order, and each post-processor by  *)
(* what it inserts and where.                                              *)
EXTENDS GeneratedAgent, SequenceTheorems, WellFoundedInduction, TLAPS

\* A set of natural numbers has a least one.
LEMMA LeastOf ==
  ASSUME NEW T, T \subseteq Nat, T # {}
  PROVE  \E m \in T : \A k \in T : m <= k
<1> DEFINE R == {ss \in Nat \X Nat : ss[1] < ss[2]}
<1>2. \A a, b \in Nat : a < b => <<a, b>> \in R
  OBVIOUS
<1>3. IsWellFoundedOn(R, Nat)
  BY NatLessThanWellFounded, Zenon DEF OpToRel
<1> HIDE DEF R
<1>4. PICK x \in T : \A y \in T : ~ (<<y, x>> \in R)
  BY <1>3, WFMin, Zenon
<1>5. ASSUME NEW y \in T PROVE x <= y
  <2>1. x \in Nat /\ y \in Nat  OBVIOUS
  <2>2. ~ (y < x)  BY <1>2, <1>4, <2>1, Zenon
  <2> QED  BY <2>1, <2>2
<1> QED  BY <1>5

-----------------------------------------------------------------------------
(* The pieces of a generated program.                                      *)

\* What the parts of a piece bind, look up when called and are marked with, and
\* that each finds what it evaluates among b and what is bound before it.
BindsOf(s) == UNION {s[i].binds : i \in DOMAIN s}
CallsOf(s) == UNION {s[i].calls : i \in DOMAIN s}
MarksOf(s) == {s[i].mark : i \in DOMAIN s}
Before(s, i) == UNION {s[j].binds : j \in 1..(i - 1)}
Fits(s, b) == \A i \in DOMAIN s : s[i].loads \subseteq b \cup Before(s, i)

\* A piece that binds b or more, looks up what is in c or less, has no other marks
\* than m, and fits where n is bound.
Piece(s, b, c, m, n) ==
  /\ s \in Seq(Range(s))
  /\ b \subseteq BindsOf(s) /\ CallsOf(s) \subseteq c /\ MarksOf(s) \subseteq m
  /\ \A x : n \subseteq x => Fits(s, x)

LEMMA SequenceIs ==
  ASSUME NEW s, s \in Seq(Range(s))
  PROVE  /\ Len(s) \in Nat /\ DOMAIN s = 1..Len(s)
         /\ \A S : Range(s) \subseteq S => s \in Seq(S)
<1>1. Len(s) \in Nat /\ DOMAIN s = 1..Len(s)
  OBVIOUS
<1>2. ASSUME NEW S, Range(s) \subseteq S PROVE s \in Seq(S)
  BY <1>2, SeqMonotonic
<1> QED BY <1>1, <1>2

\* A sequence is one of its own elements.
LEMMA OwnElements ==
  ASSUME NEW S, NEW s \in Seq(S)
  PROVE  s \in Seq(Range(s))
<1>1. s \in [1..Len(s) -> S] /\ Len(s) \in Nat /\ DOMAIN s = 1..Len(s)
  BY LenProperties
<1>2. \A i \in 1..Len(s) : s[i] \in Range(s)
  BY <1>1 DEF Range
<1> DEFINE R == Range(s)
<1> HIDE DEF R
<1>3. s \in [1..Len(s) -> R]
  BY <1>1, <1>2 DEF R
<1>4. s \in Seq(R)
  BY <1>1, <1>3, SeqDef
<1> QED BY <1>4 DEF R

LEMMA Joined ==
  ASSUME NEW s, NEW t, s \in Seq(Range(s)), t \in Seq(Range(t))
  PROVE  /\ s \o t \in Seq(Range(s \o t))
         /\ Len(s \o t) = Len(s) + Len(t) /\ DOMAIN (s \o t) = 1..(Len(s) + Len(t))
         /\ \A i \in 1..Len(s) : (s \o t)[i] = s[i]
         /\ \A i \in 1..Len(t) : (s \o t)[Len(s) + i] = t[i]
         /\ Len(s) \in Nat /\ Len(t) \in Nat
         /\ DOMAIN s = 1..Len(s) /\ DOMAIN t = 1..Len(t)
<1> DEFINE S == Range(s) \cup Range(t)
<1>1. s \in Seq(S) /\ t \in Seq(S)
  BY SequenceIs
<1> HIDE DEF S
<1>2. /\ s \o t \in Seq(S)
      /\ Len(s \o t) = Len(s) + Len(t) /\ DOMAIN (s \o t) = 1..(Len(s) + Len(t))
      /\ \A i \in 1..Len(s) : (s \o t)[i] = s[i]
      /\ \A i \in 1..Len(t) : (s \o t)[Len(s) + i] = t[i]
      /\ Len(s) \in Nat /\ Len(t) \in Nat
      /\ DOMAIN s = 1..Len(s) /\ DOMAIN t = 1..Len(t)
  BY <1>1
<1>3. s \o t \in Seq(Range(s \o t))
  BY <1>2, OwnElements
<1> QED BY <1>2, <1>3

LEMMA JoinedParts ==
  ASSUME NEW s, NEW t, s \in Seq(Range(s)), t \in Seq(Range(t))
  PROVE  /\ BindsOf(s \o t) = BindsOf(s) \cup BindsOf(t)
         /\ CallsOf(s \o t) = CallsOf(s) \cup CallsOf(t)
         /\ MarksOf(s \o t) = MarksOf(s) \cup MarksOf(t)
<1> DEFINE u == s \o t
<1>1. /\ DOMAIN s = 1..Len(s) /\ DOMAIN t = 1..Len(t) /\ DOMAIN u = 1..(Len(s) + Len(t))
      /\ \A i \in 1..Len(s) : u[i] = s[i]
      /\ \A i \in 1..Len(t) : u[Len(s) + i] = t[i]
      /\ Len(s) \in Nat /\ Len(t) \in Nat
  BY Joined
<1> HIDE DEF u
<1>2. \A i \in DOMAIN u : (i \in DOMAIN s /\ u[i] = s[i])
                          \/ \E k \in DOMAIN t : i = Len(s) + k /\ u[i] = t[k]
  <2> TAKE i \in DOMAIN u
  <2>1. CASE i <= Len(s)
    BY <1>1, <2>1
  <2>2. CASE i > Len(s)
    <3>1. i - Len(s) \in 1..Len(t) /\ i = Len(s) + (i - Len(s))
      BY <1>1, <2>2
    <3> QED BY <1>1, <3>1
  <2> QED BY <1>1, <2>1, <2>2
<1>3. /\ \A i \in DOMAIN s : i \in DOMAIN u /\ u[i] = s[i]
      /\ \A k \in DOMAIN t : Len(s) + k \in DOMAIN u /\ u[Len(s) + k] = t[k]
  BY <1>1
<1>4. BindsOf(u) = BindsOf(s) \cup BindsOf(t)
  BY <1>2, <1>3 DEF BindsOf
<1>5. CallsOf(u) = CallsOf(s) \cup CallsOf(t)
  BY <1>2, <1>3 DEF CallsOf
<1>6. MarksOf(u) = MarksOf(s) \cup MarksOf(t)
  BY <1>2, <1>3 DEF MarksOf
<1> QED BY <1>4, <1>5, <1>6 DEF u

LEMMA JoinedFits ==
  ASSUME NEW s, NEW t, s \in Seq(Range(s)), t \in Seq(Range(t)), NEW b,
         Fits(s, b), Fits(t, b \cup BindsOf(s))
  PROVE  Fits(s \o t, b)
<1> DEFINE u == s \o t
<1>1. /\ DOMAIN s = 1..Len(s) /\ DOMAIN t = 1..Len(t) /\ DOMAIN u = 1..(Len(s) + Len(t))
      /\ \A i \in 1..Len(s) : u[i] = s[i]
      /\ \A i \in 1..Len(t) : u[Len(s) + i] = t[i]
      /\ Len(s) \in Nat /\ Len(t) \in Nat
  BY Joined
<1> HIDE DEF u
<1>2. ASSUME NEW i \in DOMAIN u PROVE u[i].loads \subseteq b \cup Before(u, i)
  <2>1. CASE i <= Len(s)
    <3>1. i \in DOMAIN s /\ u[i] = s[i]
      BY <1>1, <2>1
    <3>2. \A j \in 1..(i - 1) : u[j] = s[j]
      BY <1>1, <2>1
    <3>3. Before(u, i) = Before(s, i)
      BY <3>2 DEF Before
    <3> QED BY <3>1, <3>3 DEF Fits
  <2>2. CASE i > Len(s)
    <3> DEFINE k == i - Len(s)
    <3>1. k \in DOMAIN t /\ u[i] = t[k] /\ i = Len(s) + k
      BY <1>1, <2>2
    <3>2. \A j \in DOMAIN s : j \in 1..(i - 1) /\ u[j] = s[j]
      BY <1>1, <2>2
    <3>3. \A j \in 1..(k - 1) : Len(s) + j \in 1..(i - 1) /\ u[Len(s) + j] = t[j]
      BY <1>1, <3>1
    <3> HIDE DEF k
    <3>4. BindsOf(s) \subseteq Before(u, i)
      BY <3>2 DEF Before, BindsOf
    <3>5. Before(t, k) \subseteq Before(u, i)
      BY <3>3 DEF Before
    <3>6. t[k].loads \subseteq b \cup BindsOf(s) \cup Before(t, k)
      BY <3>1 DEF Fits
    <3> QED BY <3>1, <3>4, <3>5, <3>6
  <2> QED BY <1>1, <2>1, <2>2
<1>3. Fits(u, b)
  BY <1>2 DEF Fits
<1> QED BY <1>3 DEF u

\* Two pieces, one after the other.
LEMMA PiecesJoin ==
  ASSUME NEW s, NEW b1, NEW c1, NEW m1, NEW n1, Piece(s, b1, c1, m1, n1),
         NEW t, NEW b2, NEW c2, NEW m2, NEW n2, Piece(t, b2, c2, m2, n2)
  PROVE  Piece(s \o t, b1 \cup b2, c1 \cup c2, m1 \cup m2, n1 \cup (n2 \ b1))
<1>1. /\ s \in Seq(Range(s)) /\ b1 \subseteq BindsOf(s) /\ CallsOf(s) \subseteq c1
      /\ MarksOf(s) \subseteq m1 /\ \A x : n1 \subseteq x => Fits(s, x)
      /\ t \in Seq(Range(t)) /\ b2 \subseteq BindsOf(t) /\ CallsOf(t) \subseteq c2
      /\ MarksOf(t) \subseteq m2 /\ \A x : n2 \subseteq x => Fits(t, x)
  BY DEF Piece
<1>2. s \o t \in Seq(Range(s \o t))
  BY <1>1, Joined
<1>3. /\ BindsOf(s \o t) = BindsOf(s) \cup BindsOf(t)
      /\ CallsOf(s \o t) = CallsOf(s) \cup CallsOf(t)
      /\ MarksOf(s \o t) = MarksOf(s) \cup MarksOf(t)
  BY <1>1, JoinedParts
<1>4. ASSUME NEW x, n1 \cup (n2 \ b1) \subseteq x PROVE Fits(s \o t, x)
  <2>1. n2 \subseteq x \cup BindsOf(s)
    BY <1>1, <1>4
  <2>2. Fits(s, x) /\ Fits(t, x \cup BindsOf(s))
    BY <1>1, <1>4, <2>1
  <2> QED BY <1>1, <2>2, JoinedFits
<1> QED BY <1>1, <1>2, <1>3, <1>4 DEF Piece

\* A piece of no, one or two parts, and one that depends on a flag.
LEMMA NoParts == Piece(<< >>, {}, {}, {}, {})
<1> DEFINE s == << >>
<1>1. s \in Seq(Range(s)) /\ DOMAIN s = {}
  BY OwnElements, EmptySeq
<1> HIDE DEF s
<1>2. Piece(s, {}, {}, {}, {})
  BY <1>1 DEF Piece, BindsOf, CallsOf, MarksOf, Fits
<1> QED BY <1>2 DEF s

LEMMA PartFields ==
  \A m, b, l, c : /\ Part(m, b, l, c).mark = m /\ Part(m, b, l, c).binds = b
                  /\ Part(m, b, l, c).loads = l /\ Part(m, b, l, c).calls = c
BY DEF Part

LEMMA OnePart ==
  \A m, b, l, c : Piece(<<Part(m, b, l, c)>>, b, c, {m}, l)
<1> TAKE m, b, l, c
<1> DEFINE p == Part(m, b, l, c)
           s == <<p>>
<1>1. p.mark = m /\ p.binds = b /\ p.loads = l /\ p.calls = c
  BY PartFields
<1> HIDE DEF p
<1>2. s \in Seq({p}) /\ DOMAIN s = {1} /\ s[1] = p
  OBVIOUS
<1> HIDE DEF s
<1>3. s \in Seq(Range(s))
  BY <1>2, OwnElements
<1>4. Piece(s, b, c, {m}, l)
  BY <1>1, <1>2, <1>3 DEF Piece, BindsOf, CallsOf, MarksOf, Fits
<1> QED BY <1>4 DEF s, p

LEMMA TwoParts ==
  \A m1, b1, l1, c1, m2, b2, l2, c2 :
    Piece(<<Part(m1, b1, l1, c1), Part(m2, b2, l2, c2)>>,
          b1 \cup b2, c1 \cup c2, {m1, m2}, l1 \cup (l2 \ b1))
<1> TAKE m1, b1, l1, c1, m2, b2, l2, c2
<1> DEFINE p == Part(m1, b1, l1, c1)
           q == Part(m2, b2, l2, c2)
<1>1. Piece(<<p>>, b1, c1, {m1}, l1) /\ Piece(<<q>>, b2, c2, {m2}, l2)
  BY OnePart
<1> HIDE DEF p, q
<1>2. <<p, q>> = <<p>> \o <<q>>
  <2>1. /\ <<p, q>> \in Seq({p, q}) /\ <<p>> \in Seq({p, q}) /\ <<q>> \in Seq({p, q})
        /\ Len(<<p, q>>) = 2 /\ <<p, q>>[1] = p /\ <<p, q>>[2] = q
    OBVIOUS
  <2>2. /\ <<p>> \o <<q>> \in Seq({p, q}) /\ Len(<<p>> \o <<q>>) = 2
        /\ (<<p>> \o <<q>>)[1] = p /\ (<<p>> \o <<q>>)[2] = q
    BY <2>1
  <2>3. \A i \in 1..2 : i = 1 \/ i = 2
    OBVIOUS
  <2> QED BY <2>1, <2>2, <2>3, SeqEqual
<1>3. Piece(<<p>> \o <<q>>, b1 \cup b2, c1 \cup c2, {m1} \cup {m2}, l1 \cup (l2 \ b1))
  BY <1>1, PiecesJoin
<1>4. {m1} \cup {m2} = {m1, m2}
  OBVIOUS
<1> QED BY <1>2, <1>3, <1>4 DEF p, q

LEMMA FlaggedParts ==
  ASSUME NEW on, NEW s, NEW b, NEW c, NEW m, NEW n, Piece(s, b, c, m, n)
  PROVE  Piece(OnlyParts(on, s), Only(on, b), Only(on, c), Only(on, m), Only(on, n))
BY NoParts DEF OnlyParts, Only

LEMMA PieceWeaker ==
  ASSUME NEW s, NEW b1, NEW c1, NEW m1, NEW n1, Piece(s, b1, c1, m1, n1),
         NEW b2, NEW c2, NEW m2, NEW n2,
         b2 \subseteq b1, c1 \subseteq c2, m1 \subseteq m2, n1 \subseteq n2
  PROVE  Piece(s, b2, c2, m2, n2)
BY DEF Piece

-----------------------------------------------------------------------------
(* Programs.                                                               *)

\* A program as far as it is written: the imports, the app and the prompt, then
\* pieces that fit.
Begun(s, im, b, c, m) ==
  /\ Piece(s, b, c, m, {}) /\ Len(s) >= 3
  /\ s[1] = Part("imports", im, {}, {}) /\ s[2].mark = "app" /\ s[3].mark = "prompt"

LEMMA OpeningBegun ==
  ASSUME NEW im, "BedrockAgentCoreApp" \in im
  PROVE  Begun(Opening(im), im, im \cup {"app", "SYSTEM_PROMPT"}, {},
               {"imports", "app", "prompt"})
<1> DEFINE p == Part("imports", im, {}, {})
           q == Part("app", {"app"}, {"BedrockAgentCoreApp"}, {})
           r == Part("prompt", {"SYSTEM_PROMPT"}, {}, {})
           s == Opening(im)
<1>1. /\ p.binds = im /\ p.loads = {} /\ p.calls = {} /\ p.mark = "imports"
      /\ q.binds = {"app"} /\ q.loads = {"BedrockAgentCoreApp"} /\ q.calls = {} /\ q.mark = "app"
      /\ r.binds = {"SYSTEM_PROMPT"} /\ r.loads = {} /\ r.calls = {} /\ r.mark = "prompt"
  BY PartFields
<1>2. s = <<p, q, r>>
  BY DEF Opening
<1>3. s \in Seq({p, q, r}) /\ Len(s) = 3 /\ DOMAIN s = {1, 2, 3}
      /\ s[1] = p /\ s[2] = q /\ s[3] = r
  <2> HIDE DEF p, q, r, s
  <2> QED BY <1>2
<1> HIDE DEF p, q, r, s
<1>4. s \in Seq(Range(s))
  BY <1>3, OwnElements
<1>5. BindsOf(s) = im \cup {"app", "SYSTEM_PROMPT"} /\ CallsOf(s) = {}
      /\ MarksOf(s) = {"imports", "app", "prompt"}
  BY <1>1, <1>3 DEF BindsOf, CallsOf, MarksOf
<1>6. \A x : Fits(s, x)
  <2>1. im \subseteq Before(s, 2)
    <3>1. 1 \in 1..(2 - 1)
      OBVIOUS
    <3> QED BY <1>1, <1>3, <3>1 DEF Before
  <2> QED BY <1>1, <1>3, <2>1 DEF Fits
<1>7. Piece(s, im \cup {"app", "SYSTEM_PROMPT"}, {}, {"imports", "app", "prompt"}, {})
  BY <1>4, <1>5, <1>6 DEF Piece
<1>8. s[1] = Part("imports", im, {}, {})
  BY <1>3 DEF p
<1> QED BY <1>1, <1>3, <1>7, <1>8 DEF Begun, s

LEMMA BegunGrows ==
  ASSUME NEW s, NEW im, NEW b1, NEW c1, NEW m1, Begun(s, im, b1, c1, m1),
         NEW t, NEW b2, NEW c2, NEW m2, NEW n2, Piece(t, b2, c2, m2, n2), n2 \subseteq b1
  PROVE  Begun(s \o t, im, b1 \cup b2, c1 \cup c2, m1 \cup m2)
<1>1. /\ Piece(s, b1, c1, m1, {}) /\ Len(s) >= 3
      /\ s[1] = Part("imports", im, {}, {}) /\ s[2].mark = "app" /\ s[3].mark = "prompt"
  BY DEF Begun
<1>2. Piece(s \o t, b1 \cup b2, c1 \cup c2, m1 \cup m2, {} \cup (n2 \ b1))
  BY <1>1, PiecesJoin
<1>3. {} \cup (n2 \ b1) = {}
  OBVIOUS
<1>4. /\ Len(s \o t) = Len(s) + Len(t) /\ Len(s) \in Nat /\ Len(t) \in Nat
      /\ \A i \in 1..Len(s) : (s \o t)[i] = s[i]
  BY <1>1, Joined DEF Piece
<1>5. Len(s \o t) >= 3 /\ (s \o t)[1] = s[1] /\ (s \o t)[2] = s[2] /\ (s \o t)[3] = s[3]
  BY <1>1, <1>4
<1> QED BY <1>1, <1>2, <1>3, <1>5 DEF Begun

\* The order of a whole program: the imports first, the server's start last, the
\* entrypoint between them.
Ordered(s, im) ==
  /\ s \in Seq(Range(s)) /\ Len(s) >= 5
  /\ s[1] = Part("imports", im, {}, {})
  /\ \A i \in DOMAIN s : s[i].mark = "main" <=> i = Len(s)
  /\ {"app", "prompt", "entrypoint"} \subseteq MarksOf(s)
  /\ \A i \in DOMAIN s : s[i].mark = "entrypoint" => "invoke" \in s[i].binds

LEMMA ProgramCloses ==
  ASSUME NEW s, NEW im, NEW b, NEW c, NEW m, Begun(s, im, b, c, m), NEW k,
         "app" \in b, m \cap {"entrypoint", "main"} = {}
  PROVE  /\ Ordered(s \o Closing(k), im)
         /\ Fits(s \o Closing(k), {})
         /\ b \cup {"invoke"} \subseteq BindsOf(s \o Closing(k))
         /\ CallsOf(s \o Closing(k)) \subseteq c \cup k \cup {"SYSTEM_PROMPT"}
         /\ MarksOf(s \o Closing(k)) \subseteq m \cup {"entrypoint", "main"}
<1> DEFINE p == Part("entrypoint", {"invoke"}, {"app"}, k \cup {"SYSTEM_PROMPT"})
           q == Part("main", {}, {"app"}, {})
           t == Closing(k)
           u == s \o t
<1>1. p.mark = "entrypoint" /\ p.binds = {"invoke"} /\ q.mark = "main"
  BY PartFields
<1>2. t = <<p, q>>
  BY DEF Closing
<1>3. Piece(t, {"invoke"} \cup {}, (k \cup {"SYSTEM_PROMPT"}) \cup {}, {"entrypoint", "main"},
            {"app"} \cup ({"app"} \ {"invoke"}))
  BY TwoParts DEF Closing
<1>4. Piece(t, {"invoke"}, k \cup {"SYSTEM_PROMPT"}, {"entrypoint", "main"}, {"app"})
  BY <1>3, PieceWeaker
<1>5. Begun(u, im, b \cup {"invoke"}, c \cup (k \cup {"SYSTEM_PROMPT"}),
            m \cup {"entrypoint", "main"})
  BY <1>4, BegunGrows
<1>6. /\ s \in Seq(Range(s)) /\ t \in Seq(Range(t)) /\ Len(s) >= 3 /\ MarksOf(s) \subseteq m
  BY <1>4 DEF Begun, Piece
<1> HIDE DEF p, q, t
<1>7. Len(t) = 2 /\ t[1] = p /\ t[2] = q
  BY <1>2
<1>8. /\ Len(u) = Len(s) + Len(t) /\ DOMAIN u = 1..(Len(s) + Len(t))
      /\ \A i \in 1..Len(s) : u[i] = s[i]
      /\ \A i \in 1..Len(t) : u[Len(s) + i] = t[i]
      /\ Len(s) \in Nat /\ DOMAIN s = 1..Len(s)
  BY <1>6, Joined
<1> HIDE DEF u
<1>9. /\ Len(u) = Len(s) + 2 /\ DOMAIN u = 1..(Len(s) + 2)
      /\ u[Len(s) + 1] = p /\ u[Len(s) + 2] = q
  BY <1>7, <1>8
<1>10. \A i \in 1..Len(s) : u[i].mark \notin {"entrypoint", "main"}
  BY <1>6, <1>8 DEF MarksOf
<1>11. \A i \in DOMAIN u : i \in 1..Len(s) \/ i = Len(s) + 1 \/ i = Len(s) + 2
  BY <1>8, <1>9
<1>12. /\ \A i \in DOMAIN u : u[i].mark = "main" <=> i = Len(u)
       /\ \A i \in DOMAIN u : u[i].mark = "entrypoint" => "invoke" \in u[i].binds
  BY <1>1, <1>8, <1>9, <1>10, <1>11
<1>13. /\ Piece(u, b \cup {"invoke"}, c \cup (k \cup {"SYSTEM_PROMPT"}),
                m \cup {"entrypoint", "main"}, {})
       /\ u[1] = Part("imports", im, {}, {}) /\ u[2].mark = "app" /\ u[3].mark = "prompt"
  BY <1>5 DEF Begun
<1>14. {"app", "prompt", "entrypoint"} \subseteq MarksOf(u)
  <2>1. 2 \in DOMAIN u /\ 3 \in DOMAIN u /\ Len(s) + 1 \in DOMAIN u
    BY <1>6, <1>8, <1>9
  <2> QED BY <1>1, <1>9, <1>13, <2>1 DEF MarksOf
<1>15. Len(u) >= 5
  BY <1>6, <1>8, <1>9
<1>16. Ordered(u, im)
  BY <1>12, <1>13, <1>14, <1>15 DEF Ordered, Piece
<1>17. /\ Fits(u, {}) /\ b \cup {"invoke"} \subseteq BindsOf(u)
       /\ CallsOf(u) \subseteq c \cup k \cup {"SYSTEM_PROMPT"}
       /\ MarksOf(u) \subseteq m \cup {"entrypoint", "main"}
  BY <1>13 DEF Piece
<1> QED BY <1>16, <1>17 DEF u, t

-----------------------------------------------------------------------------
(* What the post-processors do to a program.                               *)

\* A part put into a sequence moves the parts behind it.
LEMMA Insertion ==
  ASSUME NEW s, s \in Seq(Range(s)), NEW k \in 1..Len(s), NEW x
  PROVE  /\ InsertAt(s, k, x) \in Seq(Range(InsertAt(s, k, x)))
         /\ Len(InsertAt(s, k, x)) = Len(s) + 1
         /\ \A j \in 1..(k - 1) : InsertAt(s, k, x)[j] = s[j]
         /\ InsertAt(s, k, x)[k] = x
         /\ \A j \in k..Len(s) : InsertAt(s, k, x)[j + 1] = s[j]
<1> DEFINE S == Range(s) \cup {x}
           u == InsertAt(s, k, x)
           a == SubSeq(s, 1, k - 1)
           z == SubSeq(s, k, Len(s))
<1>1. Len(s) \in Nat /\ s \in Seq(S) /\ x \in S
  BY SequenceIs
<1> HIDE DEF S
<1>2. \A i \in 1..Len(s) : s[i] \in S
  BY <1>1, ElementOfSeq
<1>3. /\ a \in Seq(S) /\ Len(a) = k - 1
      /\ \A i \in 1..(k - 1) : a[i] = s[i]
  <2>1. k - 1 \in Int /\ \A i \in 1..(k - 1) : s[i] \in S
    BY <1>1, <1>2
  <2>2. /\ a \in Seq(S) /\ Len(a) = IF 1 <= k - 1 THEN k - 1 - 1 + 1 ELSE 0
        /\ \A i \in 1..(k - 1 - 1 + 1) : a[i] = s[1 + i - 1]
    BY <2>1, SubSeqProperties
  <2> QED BY <2>2
<1>4. /\ z \in Seq(S) /\ Len(z) = Len(s) - k + 1
      /\ \A i \in 1..(Len(s) - k + 1) : z[i] = s[k + i - 1]
  <2>1. k \in Int /\ Len(s) \in Int /\ \A i \in k..Len(s) : s[i] \in S
    BY <1>1, <1>2
  <2>2. /\ z \in Seq(S) /\ Len(z) = IF k <= Len(s) THEN Len(s) - k + 1 ELSE 0
        /\ \A i \in 1..(Len(s) - k + 1) : z[i] = s[k + i - 1]
    BY <2>1, SubSeqProperties
  <2> QED BY <1>1, <2>2
<1>5. u = a \o <<x>> \o z
  BY DEF InsertAt
<1> HIDE DEF a, z, u
<1>6. /\ <<x>> \in Seq(S) /\ Len(<<x>>) = 1 /\ <<x>>[1] = x
  BY <1>1
<1>7. /\ a \o <<x>> \in Seq(S) /\ Len(a \o <<x>>) = k
      /\ \A i \in 1..(k - 1) : (a \o <<x>>)[i] = s[i]
      /\ (a \o <<x>>)[k] = x
  BY <1>1, <1>3, <1>6
<1> DEFINE y == a \o <<x>>
<1> HIDE DEF y
<1>8. /\ u \in Seq(S) /\ Len(u) = k + Len(z)
      /\ \A i \in 1..k : u[i] = y[i]
      /\ \A i \in 1..Len(z) : u[k + i] = z[i]
  <2>1. u = y \o z /\ y \in Seq(S) /\ Len(y) = k /\ z \in Seq(S)
    BY <1>4, <1>5, <1>7 DEF y
  <2>2. /\ u \in Seq(S) /\ Len(u) = k + Len(z)
        /\ \A i \in 1..(k + Len(z)) : u[i] = IF i <= k THEN y[i] ELSE z[i - k]
    BY <2>1, ConcatProperties
  <2>3. Len(z) \in Nat
    BY <1>1, <1>4
  <2>4. ASSUME NEW i \in 1..Len(z) PROVE u[k + i] = z[i]
    <3>1. k + i \in 1..(k + Len(z)) /\ ~(k + i <= k) /\ (k + i) - k = i
      BY <2>3
    <3> QED BY <2>2, <3>1
  <2>5. \A i \in 1..k : u[i] = y[i]
    BY <2>2, <2>3
  <2> QED BY <2>2, <2>4, <2>5
<1>9. u \in Seq(Range(u))
  BY <1>8, OwnElements
<1>10. \A j \in k..Len(s) : u[j + 1] = s[j]
  <2> TAKE j \in k..Len(s)
  <2> DEFINE i == j - k + 1
  <2>1. i \in 1..(Len(s) - k + 1) /\ k + i = j + 1 /\ k + i - 1 = j
    BY <1>1
  <2> HIDE DEF i
  <2>2. u[k + i] = z[i] /\ z[i] = s[k + i - 1]
    BY <1>4, <1>8, <2>1
  <2> QED BY <2>1, <2>2
<1>11. Len(u) = Len(s) + 1
  BY <1>1, <1>4, <1>8
<1>12. (\A j \in 1..(k - 1) : u[j] = s[j]) /\ u[k] = x
  BY <1>1, <1>7, <1>8 DEF y
<1> QED BY <1>9, <1>10, <1>11, <1>12 DEF u

LEMMA InsertedParts ==
  ASSUME NEW s, s \in Seq(Range(s)), NEW k \in 1..Len(s), NEW x
  PROVE  /\ BindsOf(InsertAt(s, k, x)) = BindsOf(s) \cup x.binds
         /\ CallsOf(InsertAt(s, k, x)) = CallsOf(s) \cup x.calls
         /\ MarksOf(InsertAt(s, k, x)) = MarksOf(s) \cup {x.mark}
<1> DEFINE u == InsertAt(s, k, x)
<1>1. /\ u \in Seq(Range(u)) /\ Len(u) = Len(s) + 1
      /\ \A j \in 1..(k - 1) : u[j] = s[j]
      /\ u[k] = x
      /\ \A j \in k..Len(s) : u[j + 1] = s[j]
  BY Insertion
<1> HIDE DEF u
<1>2. Len(s) \in Nat /\ DOMAIN s = 1..Len(s) /\ DOMAIN u = 1..(Len(s) + 1)
  BY <1>1, SequenceIs
<1>3. \A i \in DOMAIN u : u[i] = x \/ \E j \in DOMAIN s : u[i] = s[j]
  <2> TAKE i \in DOMAIN u
  <2>1. CASE i < k
    BY <1>1, <1>2, <2>1
  <2>2. CASE i = k
    BY <1>1, <2>2
  <2>3. CASE i > k
    <3>1. i - 1 \in k..Len(s) /\ (i - 1) + 1 = i
      BY <1>2, <2>3
    <3> QED BY <1>1, <1>2, <3>1
  <2> QED BY <1>2, <2>1, <2>2, <2>3
<1>4. \A j \in DOMAIN s : \E i \in DOMAIN u : u[i] = s[j]
  <2> TAKE j \in DOMAIN s
  <2>1. CASE j < k
    BY <1>1, <1>2, <2>1
  <2>2. CASE j >= k
    <3>1. j \in k..Len(s) /\ j + 1 \in DOMAIN u
      BY <1>2, <2>2
    <3> QED BY <1>1, <3>1
  <2> QED BY <1>2, <2>1, <2>2
<1>5. k \in DOMAIN u /\ u[k] = x
  BY <1>1, <1>2
<1>6. BindsOf(u) = BindsOf(s) \cup x.binds
  <2>1. BindsOf(u) \subseteq BindsOf(s) \cup x.binds
    BY <1>3 DEF BindsOf
  <2>2. BindsOf(s) \subseteq BindsOf(u) /\ x.binds \subseteq BindsOf(u)
    BY <1>4, <1>5 DEF BindsOf
  <2> QED BY <2>1, <2>2
<1>7. CallsOf(u) = CallsOf(s) \cup x.calls
  <2>1. CallsOf(u) \subseteq CallsOf(s) \cup x.calls
    BY <1>3 DEF CallsOf
  <2>2. CallsOf(s) \subseteq CallsOf(u) /\ x.calls \subseteq CallsOf(u)
    BY <1>4, <1>5 DEF CallsOf
  <2> QED BY <2>1, <2>2
<1>8. MarksOf(u) = MarksOf(s) \cup {x.mark}
  <2>1. MarksOf(u) \subseteq MarksOf(s) \cup {x.mark}
    BY <1>3 DEF MarksOf
  <2>2. MarksOf(s) \subseteq MarksOf(u) /\ x.mark \in MarksOf(u)
    BY <1>4, <1>5 DEF MarksOf
  <2> QED BY <2>1, <2>2
<1> QED BY <1>6, <1>7, <1>8 DEF u

LEMMA InsertedFits ==
  ASSUME NEW s, s \in Seq(Range(s)), NEW k \in 1..Len(s), NEW x, NEW b, Fits(s, b),
         x.loads \subseteq b \cup Before(s, k)
  PROVE  Fits(InsertAt(s, k, x), b)
<1> DEFINE u == InsertAt(s, k, x)
<1>1. /\ u \in Seq(Range(u)) /\ Len(u) = Len(s) + 1
      /\ \A j \in 1..(k - 1) : u[j] = s[j]
      /\ u[k] = x
      /\ \A j \in k..Len(s) : u[j + 1] = s[j]
  BY Insertion
<1> HIDE DEF u
<1>2. Len(s) \in Nat /\ DOMAIN s = 1..Len(s) /\ DOMAIN u = 1..(Len(s) + 1)
  BY <1>1, SequenceIs
<1>3. ASSUME NEW i \in DOMAIN u PROVE u[i].loads \subseteq b \cup Before(u, i)
  <2>1. CASE i <= k
    <3>1. \A j \in 1..(i - 1) : u[j] = s[j]
      BY <1>1, <1>2, <2>1
    <3>2. Before(u, i) = Before(s, i)
      BY <3>1 DEF Before
    <3>3. i < k => i \in DOMAIN s /\ u[i] = s[i]
      BY <1>1, <1>2
    <3>4. i < k \/ i = k
      BY <1>2, <2>1
    <3> QED BY <1>1, <3>2, <3>3, <3>4 DEF Fits
  <2>2. CASE i > k
    <3>1. i - 1 \in k..Len(s) /\ (i - 1) + 1 = i /\ i - 1 \in DOMAIN s
      BY <1>2, <2>2
    <3>2. u[i] = s[i - 1]
      BY <1>1, <3>1
    <3>3. \A j \in 1..(i - 1 - 1) : \E l \in 1..(i - 1) : u[l] = s[j]
      <4> TAKE j \in 1..(i - 1 - 1)
      <4>1. CASE j < k
        BY <1>1, <1>2, <2>2, <4>1
      <4>2. CASE j >= k
        <5>1. j \in k..Len(s) /\ j + 1 \in 1..(i - 1)
          BY <1>2, <4>2
        <5> QED BY <1>1, <5>1
      <4> QED BY <1>2, <4>1, <4>2
    <3>4. Before(s, i - 1) \subseteq Before(u, i)
      BY <3>3 DEF Before
    <3>5. s[i - 1].loads \subseteq b \cup Before(s, i - 1)
      BY <3>1 DEF Fits
    <3> QED BY <3>2, <3>4, <3>5
  <2> QED BY <1>2, <2>1, <2>2
<1>4. Fits(u, b)
  BY <1>3 DEF Fits
<1> QED BY <1>4 DEF u

LEMMA InsertedOrder ==
  ASSUME NEW s, NEW im, Ordered(s, im), NEW k \in 2..Len(s), NEW x,
         x.mark \notin {"entrypoint", "main"}
  PROVE  Ordered(InsertAt(s, k, x), im)
<1> DEFINE u == InsertAt(s, k, x)
<1>0. /\ s \in Seq(Range(s)) /\ Len(s) >= 5 /\ s[1] = Part("imports", im, {}, {})
      /\ \A i \in DOMAIN s : s[i].mark = "main" <=> i = Len(s)
      /\ {"app", "prompt", "entrypoint"} \subseteq MarksOf(s)
      /\ \A i \in DOMAIN s : s[i].mark = "entrypoint" => "invoke" \in s[i].binds
  BY DEF Ordered
<1>00. Len(s) \in Nat /\ k \in 1..Len(s)
  BY <1>0, SequenceIs
<1>1. /\ u \in Seq(Range(u)) /\ Len(u) = Len(s) + 1
      /\ \A j \in 1..(k - 1) : u[j] = s[j]
      /\ u[k] = x
      /\ \A j \in k..Len(s) : u[j + 1] = s[j]
      /\ MarksOf(u) = MarksOf(s) \cup {x.mark}
  BY <1>0, <1>00, Insertion, InsertedParts
<1> HIDE DEF u
<1>2. DOMAIN s = 1..Len(s) /\ DOMAIN u = 1..(Len(s) + 1)
  BY <1>0, <1>1, SequenceIs
<1>3. u[1] = s[1]
  BY <1>1
<1>4. \A i \in DOMAIN u : /\ u[i].mark = "main" <=> i = Len(u)
                          /\ u[i].mark = "entrypoint" => "invoke" \in u[i].binds
  <2> TAKE i \in DOMAIN u
  <2>1. CASE i < k
    <3>1. i \in DOMAIN s /\ u[i] = s[i] /\ i # Len(s) /\ i # Len(u)
      BY <1>00, <1>1, <1>2, <2>1
    <3> QED BY <1>0, <3>1
  <2>2. CASE i = k
    <3>1. k # Len(u)
      BY <1>00, <1>1
    <3> QED BY <1>1, <2>2, <3>1
  <2>3. CASE i > k
    <3>1. /\ i - 1 \in k..Len(s) /\ (i - 1) + 1 = i /\ i - 1 \in DOMAIN s
          /\ i - 1 = Len(s) <=> i = Len(u)
      BY <1>00, <1>1, <1>2, <2>3
    <3>2. u[i] = s[i - 1]
      BY <1>1, <3>1
    <3> QED BY <1>0, <3>1, <3>2
  <2> QED BY <1>00, <1>2, <2>1, <2>2, <2>3
<1>5. Len(u) >= 5
  BY <1>00, <1>0, <1>1
<1>6. Ordered(u, im)
  BY <1>0, <1>1, <1>3, <1>4, <1>5 DEF Ordered
<1> QED BY <1>6 DEF u

-----------------------------------------------------------------------------
(* Programs whose parts agree.                                             *)

\* What the functions of p look up.
Wanted(p) ==
  CallsOf(p.parts)
    \cup {m.api : m \in {m \in p.models : m.api # "converse"}}
    \cup (IF \E m \in p.models : m.guarded THEN {"GUARDRAIL_ID", "_GUARDRAIL_KWARGS"} ELSE {})
    \cup (UNION {a.has : a \in p.agents})
    \cup (IF \E a \in p.agents : a.hooked THEN {"_APPROVAL_HOOKS"} ELSE {})

\* The functions whose model calls no guardrail reaches.
Unreached == {"_forced_execute", "retrieve_multi_hop", "retrieve_reranked"}

IsCall(m) ==
  /\ {"api", "guarded"} \subseteq DOMAIN m
  /\ m.api = "converse" => m.anchor = "TOOL_CONFIG" \/ m.by \in Unreached

IsAgent(a) == {"has", "hooked"} \subseteq DOMAIN a

\* A program that loads and whose functions find what they look up.
Program(p, im) ==
  /\ p = Text(p.parts, p.models, p.agents)
  /\ Ordered(p.parts, im) /\ Fits(p.parts, {})
  /\ "os" \in im
  /\ Wanted(p) \subseteq BindsOf(p.parts)
  /\ p.agents # {} => "Agent" \in im

\* The first part with a mark that is there.
LEMMA FirstIs ==
  ASSUME NEW p, p.parts \in Seq(Range(p.parts)), NEW mark, mark \in MarksOf(p.parts)
  PROVE  First(p, mark) \in 1..Len(p.parts) /\ p.parts[First(p, mark)].mark = mark
<1> DEFINE s == p.parts
           I == {i \in 1..Len(s) : s[i].mark = mark}
<1>1. Len(s) \in Nat /\ DOMAIN s = 1..Len(s)
  BY SequenceIs
<1>2. I # {} /\ I \subseteq Nat
  BY <1>1 DEF MarksOf
<1>3. PICK i \in I : \A j \in I : i <= j
  <2> HIDE DEF I
  <2> QED BY <1>2, LeastOf
<1>4. \A j \in 1..(i - 1) : s[j].mark # mark
  <2> SUFFICES ASSUME NEW j \in 1..(i - 1), s[j].mark = mark PROVE FALSE
    OBVIOUS
  <2>1. j \in 1..Len(s) /\ j < i
    BY <1>1, <1>3
  <2>2. j \in I
    BY <2>1
  <2> QED BY <1>1, <1>3, <2>1, <2>2
<1>5. i \in DOMAIN s /\ s[i].mark = mark
  BY <1>1, <1>3
<1>6. \E l \in DOMAIN s : s[l].mark = mark /\ \A j \in 1..(l - 1) : s[j].mark # mark
  BY <1>4, <1>5
<1>7. First(p, mark) \in DOMAIN s /\ s[First(p, mark)].mark = mark
  BY <1>6 DEF First
<1> QED BY <1>1, <1>7

\* A text is made of its fields, and keeps them when another is replaced.
LEMMA TextFields ==
  \A parts, models, agents :
    LET p == Text(parts, models, agents)
    IN  p.parts = parts /\ p.models = models /\ p.agents = agents
BY DEF Text

LEMMA InsertedText ==
  ASSUME NEW p, p = Text(p.parts, p.models, p.agents), NEW mark, NEW x
  PROVE  /\ PartAfter(p, mark, x)
              = Text(InsertAt(p.parts, First(p, mark) + 1, x), p.models, p.agents)
         /\ PartBefore(p, mark, x)
              = Text(InsertAt(p.parts, First(p, mark), x), p.models, p.agents)
BY DEF Text, PartAfter, PartBefore

\* A part that any post-processor adds: it goes behind the imports and before the
\* server's start, and keeps a program.
LEMMA ProgramGrows ==
  ASSUME NEW p, NEW im, Program(p, im), NEW k \in 2..Len(p.parts), NEW x,
         x.mark \notin {"entrypoint", "main"}, x.loads \subseteq Before(p.parts, k),
         x.calls \subseteq BindsOf(p.parts) \cup x.binds,
         NEW q, q = Text(InsertAt(p.parts, k, x), p.models, p.agents)
  PROVE  /\ Program(q, im) /\ q.models = p.models /\ q.agents = p.agents
         /\ BindsOf(q.parts) = BindsOf(p.parts) \cup x.binds
         /\ MarksOf(q.parts) = MarksOf(p.parts) \cup {x.mark}
<1> DEFINE u == InsertAt(p.parts, k, x)
<1>1. /\ Ordered(p.parts, im) /\ Fits(p.parts, {}) /\ Wanted(p) \subseteq BindsOf(p.parts)
      /\ "os" \in im
      /\ p.agents # {} => "Agent" \in im
  BY DEF Program
<1>2. p.parts \in Seq(Range(p.parts)) /\ k \in 1..Len(p.parts)
  BY <1>1 DEF Ordered
<1>3. Ordered(u, im) /\ Fits(u, {})
  BY <1>1, <1>2, InsertedOrder, InsertedFits
<1>4. /\ BindsOf(u) = BindsOf(p.parts) \cup x.binds /\ CallsOf(u) = CallsOf(p.parts) \cup x.calls
      /\ MarksOf(u) = MarksOf(p.parts) \cup {x.mark} /\ Len(u) = Len(p.parts) + 1
  BY <1>2, InsertedParts, Insertion
<1>5. q.parts = u /\ q.models = p.models /\ q.agents = p.agents
  BY TextFields
<1>6. q = Text(q.parts, q.models, q.agents)
  BY <1>5
<1> HIDE DEF u
<1>7. Wanted(q) = Wanted(p) \cup x.calls
  BY <1>4, <1>5 DEF Wanted
<1>8. Wanted(q) \subseteq BindsOf(q.parts)
  BY <1>1, <1>4, <1>5, <1>7
<1>9. Program(q, im)
  BY <1>1, <1>3, <1>5, <1>6, <1>8 DEF Program
<1> QED BY <1>4, <1>5, <1>9

\* What is behind the imports may use them, and where the post-processors put
\* their parts is behind the imports and before the end.
LEMMA Places ==
  ASSUME NEW p, NEW im, Program(p, im)
  PROVE  /\ \A k \in 2..Len(p.parts) : im \subseteq Before(p.parts, k)
         /\ \A mark \in MarksOf(p.parts) :
              mark \notin {"imports", "main"} => First(p, mark) \in 2..(Len(p.parts) - 1)
         /\ \A mark \in MarksOf(p.parts) \ {"main"} : First(p, mark) + 1 \in 2..Len(p.parts)
         /\ First(p, "main") = Len(p.parts)
         /\ "invoke" \in Before(p.parts, Len(p.parts))
         /\ {"app", "prompt", "entrypoint", "main"} \subseteq MarksOf(p.parts)
<1> DEFINE s == p.parts
<1>1. /\ s \in Seq(Range(s)) /\ Len(s) >= 5 /\ s[1] = Part("imports", im, {}, {})
      /\ \A i \in DOMAIN s : s[i].mark = "main" <=> i = Len(s)
      /\ {"app", "prompt", "entrypoint"} \subseteq MarksOf(s)
      /\ \A i \in DOMAIN s : s[i].mark = "entrypoint" => "invoke" \in s[i].binds
  BY DEF Program, Ordered
<1>2. Len(s) \in Nat /\ DOMAIN s = 1..Len(s)
  BY <1>1, SequenceIs
<1>3. \A mark \in MarksOf(s) : First(p, mark) \in 1..Len(s) /\ s[First(p, mark)].mark = mark
  BY <1>1, FirstIs
<1> HIDE DEF s
<1>4. s[1].binds = im /\ s[1].mark = "imports"
  BY <1>1, PartFields
<1>5. ASSUME NEW k \in 2..Len(s) PROVE im \subseteq Before(s, k)
  <2>1. 1 \in 1..(k - 1)
    BY <1>2
  <2> QED BY <1>4, <2>1 DEF Before
<1>6. s[Len(s)].mark = "main" /\ Len(s) \in DOMAIN s /\ 1 \in DOMAIN s
  BY <1>1, <1>2
<1>7. "main" \in MarksOf(s)
  BY <1>6 DEF MarksOf
<1>8. First(p, "main") = Len(s)
  BY <1>1, <1>2, <1>3, <1>7
<1>9. \A mark \in MarksOf(s) : mark # "main" => First(p, mark) # Len(s)
  BY <1>3, <1>6
<1>10. \A mark \in MarksOf(s) : mark # "imports" => First(p, mark) # 1
  BY <1>3, <1>4
<1>11. \A mark \in MarksOf(s) :
         mark \notin {"imports", "main"} => First(p, mark) \in 2..(Len(s) - 1)
  BY <1>2, <1>3, <1>9, <1>10
<1>12. \A mark \in MarksOf(s) \ {"main"} : First(p, mark) + 1 \in 2..Len(s)
  BY <1>2, <1>3, <1>9
<1>13. "invoke" \in Before(s, Len(s))
  <2>1. First(p, "entrypoint") \in 1..(Len(s) - 1) /\ First(p, "entrypoint") \in DOMAIN s
    BY <1>1, <1>2, <1>11
  <2>2. "invoke" \in s[First(p, "entrypoint")].binds
    BY <1>1, <1>3, <2>1
  <2> QED BY <2>1, <2>2 DEF Before
<1> QED BY <1>1, <1>5, <1>7, <1>8, <1>11, <1>12, <1>13 DEF s

\* The guardrail's part, and the model calls it reaches.
LEMMA Guarded ==
  ASSUME NEW p, NEW im, Program(p, im), \A m \in p.models : IsCall(m)
  PROVE  LET q == InjectGuardrails(p)
         IN  /\ Program(q, im) /\ q.agents = p.agents
             /\ MarksOf(q.parts) \subseteq MarksOf(p.parts) \cup {"guardrails"}
             /\ \A m \in q.models :
                  m.guarded \/ m.api \notin {"BedrockModel", "converse"} \/ m.by \in Unreached
<1> DEFINE x == Part("guardrails", {"GUARDRAIL_ID", "_GUARDRAIL_KWARGS"}, {"os"}, {})
           mark == IF HasMark(p, "model_id") THEN "model_id" ELSE "prompt"
           k == First(p, mark) + 1
           q1 == PartAfter(p, mark, x)
           M == (p.models \ Reached(p)) \cup {[m EXCEPT !.guarded = TRUE] : m \in Reached(p)}
           q == InjectGuardrails(p)
<1>1. /\ p = Text(p.parts, p.models, p.agents) /\ "os" \in im
      /\ Wanted(p) \subseteq BindsOf(p.parts)
  BY DEF Program
<1>2. x.mark = "guardrails" /\ x.binds = {"GUARDRAIL_ID", "_GUARDRAIL_KWARGS"}
      /\ x.loads = {"os"} /\ x.calls = {}
  BY PartFields
<1>3. mark \in MarksOf(p.parts) \ {"main"}
  BY Places DEF HasMark, MarksOf
<1> HIDE DEF x, mark
<1>4. k \in 2..Len(p.parts) /\ im \subseteq Before(p.parts, k)
  BY <1>3, Places
<1>5. q1 = Text(InsertAt(p.parts, k, x), p.models, p.agents)
  BY <1>1, InsertedText
<1> HIDE DEF k
<1>6. /\ Program(q1, im) /\ q1.models = p.models /\ q1.agents = p.agents
      /\ BindsOf(q1.parts) = BindsOf(p.parts) \cup x.binds
      /\ MarksOf(q1.parts) = MarksOf(p.parts) \cup {x.mark}
  BY <1>1, <1>2, <1>4, <1>5, ProgramGrows
<1>7. q = [q1 EXCEPT !.models = (@ \ Reached(p))
                             \cup {[m EXCEPT !.guarded = TRUE] : m \in Reached(p)}]
  BY DEF InjectGuardrails, x, mark
<1> HIDE DEF q1, q
<1>8. q1 = Text(q1.parts, q1.models, q1.agents)
  BY <1>6 DEF Program
<1>9. q = Text(q1.parts, M, p.agents)
  BY <1>6, <1>7, <1>8 DEF Text
<1>10. q.parts = q1.parts /\ q.models = M /\ q.agents = p.agents
  BY <1>9, TextFields
<1>11. ASSUME NEW m \in p.models
       PROVE  [m EXCEPT !.guarded = TRUE].api = m.api /\ [m EXCEPT !.guarded = TRUE].guarded
  <2> HIDE DEF M
  <2>1. {"api", "guarded"} \subseteq DOMAIN m
    BY DEF IsCall
  <2> QED BY <2>1
<1>12. Reached(p) \subseteq p.models
  BY DEF Reached
<1>13. \A m \in M : \/ m \in p.models \ Reached(p)
                    \/ m.guarded /\ \E l \in p.models : m.api = l.api
  BY <1>11, <1>12
<1> HIDE DEF M
<1>14. \A m \in q.models :
         m.guarded \/ m.api \notin {"BedrockModel", "converse"} \/ m.by \in Unreached
  BY <1>10, <1>13 DEF Reached, IsCall
<1>16. Wanted(q) \subseteq BindsOf(q.parts)
  <2>1. Wanted(q1) \subseteq BindsOf(q1.parts)
    BY <1>6 DEF Program
  <2>2. {m.api : m \in {m \in q.models : m.api # "converse"}}
          \subseteq {m.api : m \in {m \in q1.models : m.api # "converse"}}
    BY <1>6, <1>10, <1>13
  <2>3. Wanted(q) \subseteq Wanted(q1) \cup {"GUARDRAIL_ID", "_GUARDRAIL_KWARGS"}
    BY <1>6, <1>10, <2>2 DEF Wanted
  <2> QED BY <1>2, <1>6, <1>10, <2>1, <2>3
<1>17. Program(q, im)
  BY <1>6, <1>9, <1>10, <1>16 DEF Program
<1> QED BY <1>2, <1>6, <1>10, <1>14, <1>17 DEF q

\* The telemetry's two parts.
LEMMA Observed ==
  ASSUME NEW p, NEW im, Program(p, im)
  PROVE  LET q == InjectOtel(p)
         IN  /\ Program(q, im) /\ q.agents = p.agents /\ q.models = p.models
             /\ MarksOf(q.parts) \subseteq MarksOf(p.parts) \cup {"otel", "wrap"}
<1> DEFINE x == OtelPart
           y == Part("wrap", {"invoke"}, {"invoke"}, {"_otel_force_flush"})
           k == First(p, "app") + 1
           q1 == PartAfter(p, "app", x)
           l == First(q1, "main")
           q == InjectOtel(p)
<1>1. p = Text(p.parts, p.models, p.agents)
  BY DEF Program
<1>2. /\ x.mark = "otel" /\ x.binds = {"_otel_force_flush"} /\ x.loads = {} /\ x.calls = {}
      /\ y.mark = "wrap" /\ y.binds = {"invoke"} /\ y.loads = {"invoke"}
      /\ y.calls = {"_otel_force_flush"}
  BY PartFields DEF OtelPart
<1>3. q = PartBefore(q1, "main", y)
  BY DEF InjectOtel
<1> HIDE DEF x, y
<1>4. k \in 2..Len(p.parts)
  BY Places
<1>5. q1 = Text(InsertAt(p.parts, k, x), p.models, p.agents)
  BY <1>1, InsertedText
<1> HIDE DEF k, q1, q
<1>6. /\ Program(q1, im) /\ q1.models = p.models /\ q1.agents = p.agents
      /\ BindsOf(q1.parts) = BindsOf(p.parts) \cup x.binds
      /\ MarksOf(q1.parts) = MarksOf(p.parts) \cup {x.mark}
  <2>1. /\ x.mark \notin {"entrypoint", "main"} /\ x.loads \subseteq Before(p.parts, k)
        /\ x.calls \subseteq BindsOf(p.parts) \cup x.binds
    BY <1>2
  <2> HIDE DEF l
  <2> QED BY <1>1, <1>4, <1>5, <2>1, ProgramGrows, SMTT(60)
<1>7. q1 = Text(q1.parts, q1.models, q1.agents)
  BY <1>6 DEF Program
<1>8. l = Len(q1.parts) /\ l \in 2..Len(q1.parts) /\ "invoke" \in Before(q1.parts, l)
  <2>1. Len(q1.parts) >= 5 /\ Len(q1.parts) \in Nat
    BY <1>6, SequenceIs DEF Program, Ordered
  <2> QED BY <1>6, <2>1, Places
<1>9. q = Text(InsertAt(q1.parts, l, y), q1.models, q1.agents)
  BY <1>3, <1>7, InsertedText
<1> HIDE DEF l
<1>10. /\ Program(q, im) /\ q.models = q1.models /\ q.agents = q1.agents
       /\ MarksOf(q.parts) = MarksOf(q1.parts) \cup {y.mark}
  <2>1. /\ y.mark \notin {"entrypoint", "main"} /\ y.loads \subseteq Before(q1.parts, l)
        /\ y.calls \subseteq BindsOf(q1.parts) \cup y.binds
    BY <1>2, <1>6, <1>8
  <2> QED BY <1>6, <1>7, <1>8, <1>9, <2>1, ProgramGrows
<1> QED BY <1>2, <1>6, <1>10 DEF q

\* An import more.
LEMMA Widened ==
  ASSUME NEW s, NEW im, Ordered(s, im), NEW name, Fits(s, {name})
  PROVE  LET w == [s EXCEPT ![1] = Part("imports", im \cup {name}, {}, {})]
         IN  /\ Ordered(w, im \cup {name}) /\ Fits(w, {})
             /\ BindsOf(w) = BindsOf(s) \cup {name} /\ CallsOf(w) = CallsOf(s)
             /\ MarksOf(w) = MarksOf(s)
<1> DEFINE x == Part("imports", im \cup {name}, {}, {})
           w == [s EXCEPT ![1] = x]
<1>1. /\ s \in Seq(Range(s)) /\ Len(s) >= 5 /\ s[1] = Part("imports", im, {}, {})
      /\ \A i \in DOMAIN s : s[i].mark = "main" <=> i = Len(s)
      /\ {"app", "prompt", "entrypoint"} \subseteq MarksOf(s)
      /\ \A i \in DOMAIN s : s[i].mark = "entrypoint" => "invoke" \in s[i].binds
  BY DEF Ordered
<1>2. Len(s) \in Nat /\ DOMAIN s = 1..Len(s)
  BY <1>1, SequenceIs
<1>3. /\ x.mark = "imports" /\ x.binds = im \cup {name} /\ x.loads = {} /\ x.calls = {}
      /\ s[1].mark = "imports" /\ s[1].binds = im /\ s[1].loads = {} /\ s[1].calls = {}
  BY <1>1, PartFields
<1> HIDE DEF x
<1>4. /\ w \in Seq(Range(s) \cup {x}) /\ Len(w) = Len(s) /\ DOMAIN w = DOMAIN s
      /\ w[1] = x /\ \A i \in DOMAIN s : i # 1 => w[i] = s[i]
  <2>1. s \in Seq(Range(s) \cup {x}) /\ 1 \in 1..Len(s) /\ x \in Range(s) \cup {x}
    BY <1>1, <1>2, SequenceIs
  <2>2. /\ w \in Seq(Range(s) \cup {x}) /\ Len(w) = Len(s)
        /\ \A i \in 1..Len(s) : w[i] = IF i = 1 THEN x ELSE s[i]
    BY <2>1, ExceptSeq
  <2>3. DOMAIN w = DOMAIN s
    OBVIOUS
  <2> HIDE DEF w
  <2> QED BY <1>2, <2>1, <2>2, <2>3
<1> HIDE DEF w
<1>5. w \in Seq(Range(w)) /\ 1 \in DOMAIN s
  BY <1>1, <1>2, <1>4, OwnElements
<1>6. BindsOf(w) = BindsOf(s) \cup {name}
  <2>1. \A i \in DOMAIN s : w[i].binds \subseteq s[i].binds \cup {name} /\ s[i].binds \subseteq w[i].binds
    BY <1>3, <1>4
  <2>2. name \in w[1].binds
    BY <1>3, <1>4
  <2> QED BY <1>4, <1>5, <2>1, <2>2 DEF BindsOf
<1>7. CallsOf(w) = CallsOf(s) /\ MarksOf(w) = MarksOf(s)
  <2>1. \A i \in DOMAIN s : w[i].calls = s[i].calls /\ w[i].mark = s[i].mark
    BY <1>3, <1>4
  <2> QED BY <1>4, <2>1 DEF CallsOf, MarksOf
<1>8. Fits(w, {})
  <2> SUFFICES ASSUME NEW i \in DOMAIN w PROVE w[i].loads \subseteq Before(w, i)
    BY DEF Fits
  <2>1. CASE i = 1
    BY <1>3, <1>4, <2>1
  <2>2. CASE i # 1
    <3>1. \A j \in 1..(i - 1) : j \in DOMAIN s /\ s[j].binds \subseteq w[j].binds
      BY <1>2, <1>3, <1>4
    <3>2. Before(s, i) \subseteq Before(w, i)
      BY <3>1 DEF Before
    <3>3. 1 \in 1..(i - 1)
      BY <1>2, <1>4, <2>2
    <3>4. name \in Before(w, i)
      BY <1>3, <1>4, <3>3 DEF Before
    <3>5. w[i] = s[i] /\ s[i].loads \subseteq {name} \cup Before(s, i)
      BY <1>4, <2>2 DEF Fits
    <3> QED BY <3>2, <3>4, <3>5
  <2> QED BY <2>1, <2>2
<1>9. /\ \A i \in DOMAIN w : w[i].mark = "main" <=> i = Len(w)
      /\ \A i \in DOMAIN w : w[i].mark = "entrypoint" => "invoke" \in w[i].binds
  BY <1>1, <1>3, <1>4
<1>10. w[1] = Part("imports", im \cup {name}, {}, {})
  BY <1>4 DEF x
<1>11. Ordered(w, im \cup {name})
  BY <1>1, <1>4, <1>5, <1>7, <1>9, <1>10 DEF Ordered
<1> QED BY <1>6, <1>7, <1>8, <1>11 DEF w, x

\* The approval's part and the hooks of the agents.
LEMMA Approved ==
  ASSUME NEW p, NEW im, Program(p, im), \A a \in p.agents : IsAgent(a), "Agent" \in im
  PROVE  LET q == InjectHitl(p)
         IN  /\ Program(q, im \cup {"tool"}) /\ q.models = p.models
             /\ MarksOf(q.parts) \subseteq MarksOf(p.parts) \cup {"hitl"}
             /\ \A a \in q.agents : /\ a.hooked /\ "human_approval" \in a.has
                                     /\ \E b \in p.agents : b.has \subseteq a.has
             /\ \A b \in p.agents : \E a \in q.agents : b.has \subseteq a.has
<1> DEFINE x == ApprovalPart
           s == p.parts
           k == First(p, "entrypoint")
           q1 == PartBefore(p, "entrypoint", x)
           u == InsertAt(s, k, x)
           w == [u EXCEPT ![1] = Part("imports", im \cup {"tool"}, {}, {})]
           A == {[a EXCEPT !.has = @ \cup {"human_approval"}, !.hooked = TRUE] : a \in p.agents}
           q == InjectHitl(p)
<1>1. /\ p = Text(s, p.models, p.agents) /\ Ordered(s, im) /\ Fits(s, {}) /\ "os" \in im
      /\ Wanted(p) \subseteq BindsOf(s)
  BY DEF Program
<1>2. x.mark = "hitl" /\ x.binds = {"human_approval", "_APPROVAL_HOOKS"}
      /\ x.loads = {"tool"} /\ x.calls = {}
  BY PartFields DEF ApprovalPart
<1>3. q = [q1 EXCEPT !.parts[1].binds = @ \cup {"tool"},
                     !.agents = {[a EXCEPT !.has = @ \cup {"human_approval"},
                                           !.hooked = TRUE] : a \in @}]
  BY DEF InjectHitl
<1>4. q1 = Text(u, p.models, p.agents)
  BY <1>1, InsertedText
<1> HIDE DEF x, q1
<1>5. k \in 2..(Len(s) - 1) /\ s \in Seq(Range(s))
  BY <1>1, Places DEF Ordered
<1>6. Len(s) \in Nat /\ k \in 1..Len(s) /\ k \in 2..Len(s)
  BY <1>5, SequenceIs
<1> HIDE DEF k
<1>7. /\ Ordered(u, im) /\ BindsOf(u) = BindsOf(s) \cup x.binds
      /\ CallsOf(u) = CallsOf(s) \cup x.calls /\ MarksOf(u) = MarksOf(s) \cup {x.mark}
  <2>1. x.mark \notin {"entrypoint", "main"}
    BY <1>2
  <2> QED BY <1>1, <1>5, <1>6, <2>1, InsertedOrder, InsertedParts
<1>8. Fits(u, {"tool"})
  <2>1. Fits(s, {"tool"})
    BY <1>1 DEF Fits
  <2>2. x.loads \subseteq {"tool"} \cup Before(s, k)
    BY <1>2
  <2> QED BY <1>5, <1>6, <2>1, <2>2, InsertedFits
<1> HIDE DEF u
<1>9. /\ Ordered(w, im \cup {"tool"}) /\ Fits(w, {})
      /\ BindsOf(w) = BindsOf(u) \cup {"tool"} /\ CallsOf(w) = CallsOf(u)
      /\ MarksOf(w) = MarksOf(u)
  BY <1>7, <1>8, Widened
<1>10. u[1] = Part("imports", im, {}, {})
  BY <1>7 DEF Ordered
<1>11. [u EXCEPT ![1].binds = @ \cup {"tool"}] = w
  <2>1. [u[1] EXCEPT !.binds = @ \cup {"tool"}] = Part("imports", im \cup {"tool"}, {}, {})
    BY <1>10 DEF Part
  <2> HIDE DEF w
  <2>2. [u EXCEPT ![1].binds = @ \cup {"tool"}]
           = [u EXCEPT ![1] = [u[1] EXCEPT !.binds = @ \cup {"tool"}]]
    OBVIOUS
  <2> QED BY <2>1, <2>2 DEF w
<1>12. q = Text(w, p.models, A)
  <2>1. [q1 EXCEPT !.parts[1].binds = @ \cup {"tool"}] = Text(w, p.models, p.agents)
    <3> HIDE DEF w
    <3>1. [q1 EXCEPT !.parts[1].binds = @ \cup {"tool"}]
             = Text([u EXCEPT ![1].binds = @ \cup {"tool"}], p.models, p.agents)
      BY <1>4 DEF Text
    <3> QED BY <1>11, <3>1
  <2> HIDE DEF w
  <2>2. q = [[q1 EXCEPT !.parts[1].binds = @ \cup {"tool"}]
                EXCEPT !.agents = {[a EXCEPT !.has = @ \cup {"human_approval"},
                                             !.hooked = TRUE] : a \in @}]
    BY <1>3
  <2> QED BY <2>1, <2>2 DEF Text
<1>13. q.parts = w /\ q.models = p.models /\ q.agents = A
  BY <1>12, TextFields
<1> HIDE DEF w, q
<1>14. ASSUME NEW a \in p.agents
       PROVE  LET b == [a EXCEPT !.has = @ \cup {"human_approval"}, !.hooked = TRUE]
              IN  b.has = a.has \cup {"human_approval"} /\ b.hooked
  <2> HIDE DEF A
  <2>1. {"has", "hooked"} \subseteq DOMAIN a
    BY DEF IsAgent
  <2> QED BY <2>1
<1>15. /\ \A a \in A : a.hooked /\ \E b \in p.agents : a.has = b.has \cup {"human_approval"}
       /\ \A b \in p.agents : \E a \in A : a.has = b.has \cup {"human_approval"}
  BY <1>14
<1> HIDE DEF A
<1>16. Wanted(q) \subseteq BindsOf(w)
  <2>1. UNION {a.has : a \in A} \subseteq (UNION {a.has : a \in p.agents}) \cup {"human_approval"}
    BY <1>15
  <2>2. Wanted(q) \subseteq Wanted(p) \cup {"human_approval", "_APPROVAL_HOOKS"}
    BY <1>2, <1>7, <1>9, <1>13, <2>1 DEF Wanted
  <2> QED BY <1>1, <1>2, <1>7, <1>9, <2>2
<1>17. Program(q, im \cup {"tool"})
  BY <1>1, <1>9, <1>12, <1>13, <1>16 DEF Program
<1>18. /\ \A a \in q.agents : /\ a.hooked /\ "human_approval" \in a.has
                               /\ \E b \in p.agents : b.has \subseteq a.has
       /\ \A b \in p.agents : \E a \in q.agents : b.has \subseteq a.has
  BY <1>13, <1>15
<1>19. MarksOf(q.parts) \subseteq MarksOf(p.parts) \cup {"hitl"}
  BY <1>2, <1>7, <1>9, <1>13
<1> QED BY <1>13, <1>17, <1>18, <1>19 DEF q

\* What a host hands to the post-processors, and what they make of it.
HostMade(p, c) ==
  /\ \E im : Program(p, im)
  /\ \A m \in p.models : IsCall(m)
  /\ \A a \in p.agents : IsAgent(a) /\ ~a.hooked
  /\ Retrieves(c) => \A a \in p.agents : RetrievalTool(c) \in a.has
  /\ "discovery" \in MarksOf(p.parts) =>
       \E a \in p.agents : a.has \cap {"_discover_gateway_tools", "_get_gateway_tools"} # {}

Delivered(p, c) ==
  /\ \E im : Program(p, im)
  /\ "guardrails" \in c.tools =>
       \A m \in p.models :
         m.guarded \/ m.api \notin {"BedrockModel", "converse"} \/ m.by \in Unreached
  /\ "hitl" \in c.tools => \A a \in p.agents : a.hooked /\ "human_approval" \in a.has
  /\ "hitl" \notin c.tools => \A a \in p.agents : ~a.hooked
  /\ Retrieves(c) => \A a \in p.agents : RetrievalTool(c) \in a.has
  /\ "discovery" \in MarksOf(p.parts) =>
       \E a \in p.agents : a.has \cap {"_discover_gateway_tools", "_get_gateway_tools"} # {}

LEMMA ProcessedDelivers ==
  ASSUME NEW c, NEW p, HostMade(p, c)
  PROVE  Delivered(Processed(p, c), c)
<1> DEFINE g == IF "guardrails" \in c.tools THEN InjectGuardrails(p) ELSE p
           t == IF "observability" \in c.tools THEN InjectOtel(g) ELSE g
           q == IF "hitl" \in c.tools /\ UsesStrands(t) THEN InjectHitl(t) ELSE t
           Shown == {"_discover_gateway_tools", "_get_gateway_tools"}
<1>1. PICK im : Program(p, im)
  BY DEF HostMade
<1>2. /\ \A m \in p.models : IsCall(m)
      /\ \A a \in p.agents : IsAgent(a) /\ ~a.hooked
  BY DEF HostMade
<1>3. /\ Program(g, im) /\ g.agents = p.agents
      /\ MarksOf(g.parts) \subseteq MarksOf(p.parts) \cup {"guardrails"}
      /\ "guardrails" \in c.tools =>
           \A m \in g.models :
             m.guarded \/ m.api \notin {"BedrockModel", "converse"} \/ m.by \in Unreached
  BY <1>1, <1>2, Guarded
<1> HIDE DEF g
<1>4. /\ Program(t, im) /\ t.agents = p.agents /\ t.models = g.models
      /\ MarksOf(t.parts) \subseteq MarksOf(g.parts) \cup {"otel", "wrap"}
  BY <1>3, Observed
<1> HIDE DEF t
<1>5. UsesStrands(t) <=> "Agent" \in im
  <2>1. t.parts[1] = Part("imports", im, {}, {})
    BY <1>4 DEF Program, Ordered
  <2> QED BY <2>1, PartFields DEF UsesStrands
<1>6. /\ \E j : Program(q, j)
      /\ q.models = t.models
      /\ MarksOf(q.parts) \subseteq MarksOf(t.parts) \cup {"hitl"}
      /\ "hitl" \in c.tools => \A a \in q.agents : a.hooked /\ "human_approval" \in a.has
      /\ "hitl" \notin c.tools => \A a \in q.agents : ~a.hooked
      /\ \A a \in q.agents : \E b \in p.agents : b.has \subseteq a.has
      /\ \A b \in p.agents : \E a \in q.agents : b.has \subseteq a.has
  <2>1. CASE "hitl" \in c.tools /\ UsesStrands(t)
    <3>1. \A a \in t.agents : IsAgent(a)
      BY <1>2, <1>4
    <3> DEFINE r == InjectHitl(t)
    <3>2. /\ Program(r, im \cup {"tool"}) /\ r.models = t.models
          /\ MarksOf(r.parts) \subseteq MarksOf(t.parts) \cup {"hitl"}
          /\ \A a \in r.agents : /\ a.hooked /\ "human_approval" \in a.has
                                  /\ \E b \in t.agents : b.has \subseteq a.has
          /\ \A b \in t.agents : \E a \in r.agents : b.has \subseteq a.has
      BY <1>4, <1>5, <2>1, <3>1, Approved
    <3>3. q = r
      BY <2>1
    <3> HIDE DEF r, q
    <3> QED BY <1>4, <2>1, <3>2, <3>3
  <2>2. CASE ~("hitl" \in c.tools /\ UsesStrands(t))
    <3>1. q = t
      BY <2>2
    <3>2. "hitl" \in c.tools => t.agents = {}
      BY <1>4, <1>5, <2>2 DEF Program
    <3> HIDE DEF q
    <3> QED BY <1>2, <1>4, <3>1, <3>2
  <2> QED BY <2>1, <2>2
<1> HIDE DEF q
<1>7. "discovery" \in MarksOf(q.parts) => \E a \in q.agents : a.has \cap Shown # {}
  <2> SUFFICES ASSUME "discovery" \in MarksOf(q.parts)
               PROVE  \E a \in q.agents : a.has \cap Shown # {}
    OBVIOUS
  <2>1. "discovery" \in MarksOf(p.parts)
    BY <1>3, <1>4, <1>6
  <2>2. PICK b \in p.agents : b.has \cap Shown # {}
    BY <2>1 DEF HostMade
  <2>3. PICK a \in q.agents : b.has \subseteq a.has
    BY <1>6
  <2> QED BY <2>2, <2>3
<1>8. Retrieves(c) => \A a \in q.agents : RetrievalTool(c) \in a.has
  BY <1>6 DEF HostMade
<1>9. "guardrails" \in c.tools =>
        \A m \in q.models :
          m.guarded \/ m.api \notin {"BedrockModel", "converse"} \/ m.by \in Unreached
  BY <1>3, <1>4, <1>6
<1>10. Processed(p, c) = q
  BY DEF Processed, g, t, q
<1> HIDE DEF Shown
<1> QED BY <1>6, <1>7, <1>8, <1>9, <1>10 DEF Delivered, Shown

\* The calls and the agents of a host, before the post-processors: what they need
\* is among b.
NewCall(m, b) == IsCall(m) /\ ~m.guarded /\ m.api \in b \cup {"converse"}
NewAgent(a, b) == IsAgent(a) /\ ~a.hooked /\ a.has \subseteq b

LEMMA Calls ==
  ASSUME NEW api, NEW by, NEW anchor, NEW b, api \in b \cup {"converse"},
         api = "converse" => anchor = "TOOL_CONFIG" \/ by \in Unreached
  PROVE  /\ NewCall(ModelCall(api, by, anchor), b)
         /\ \A i : NewCall([ModelCall(api, by, anchor) EXCEPT !.nr = i], b)
<1>1. \A i : LET m == [ModelCall(api, by, anchor) EXCEPT !.nr = i]
            IN  /\ m.api = api /\ m.by = by /\ m.anchor = anchor /\ ~m.guarded
                /\ {"api", "guarded"} \subseteq DOMAIN m
  BY DEF ModelCall
<1>2. LET m == ModelCall(api, by, anchor)
      IN  /\ m.api = api /\ m.by = by /\ m.anchor = anchor /\ ~m.guarded
          /\ {"api", "guarded"} \subseteq DOMAIN m
  BY DEF ModelCall
<1> QED BY <1>1, <1>2 DEF NewCall, IsCall

LEMMA Agents ==
  ASSUME NEW id, NEW has, NEW b, has \subseteq b
  PROVE  NewAgent(AnAgent(id, has), b) /\ AnAgent(id, has).has = has
<1>1. LET a == AnAgent(id, has)
      IN  a.has = has /\ ~a.hooked /\ {"has", "hooked"} \subseteq DOMAIN a
  BY DEF AnAgent
<1> QED BY <1>1 DEF NewAgent, IsAgent

\* A host that has begun well and binds what it looks up.
LEMMA HostCloses ==
  ASSUME NEW c, NEW s, NEW im, NEW b, NEW d, NEW m, Begun(s, im, b, d, m), NEW k,
         "os" \in im, {"app", "SYSTEM_PROMPT"} \subseteq b, d \cup k \subseteq b,
         m \cap {"entrypoint", "main"} = {},
         NEW models, \A x \in models : NewCall(x, b),
         NEW agents, \A a \in agents : NewAgent(a, b), agents # {} => "Agent" \in im,
         Retrieves(c) => \A a \in agents : RetrievalTool(c) \in a.has,
         "discovery" \in m =>
           \E a \in agents : a.has \cap {"_discover_gateway_tools", "_get_gateway_tools"} # {}
  PROVE  HostMade(Text(s \o Closing(k), models, agents), c)
<1> DEFINE t == s \o Closing(k)
           p == Text(t, models, agents)
<1>1. /\ Ordered(t, im) /\ Fits(t, {})
      /\ b \cup {"invoke"} \subseteq BindsOf(t)
      /\ CallsOf(t) \subseteq d \cup k \cup {"SYSTEM_PROMPT"}
      /\ MarksOf(t) \subseteq m \cup {"entrypoint", "main"}
  BY ProgramCloses
<1> HIDE DEF t
<1>2. p.parts = t /\ p.models = models /\ p.agents = agents
  BY TextFields
<1>3. p = Text(p.parts, p.models, p.agents)
  BY <1>2
<1> HIDE DEF p
<1>4. Wanted(p) \subseteq BindsOf(t)
  <2>1. ~\E x \in models : x.guarded
    BY DEF NewCall
  <2>2. ~\E a \in agents : a.hooked
    BY DEF NewAgent
  <2>3. {x.api : x \in {x \in models : x.api # "converse"}} \subseteq b
    BY DEF NewCall
  <2>4. UNION {a.has : a \in agents} \subseteq b
    BY DEF NewAgent
  <2>5. Wanted(p) = CallsOf(t) \cup {x.api : x \in {x \in models : x.api # "converse"}}
                      \cup (UNION {a.has : a \in agents})
    BY <1>2, <2>1, <2>2 DEF Wanted
  <2> QED BY <1>1, <2>3, <2>4, <2>5
<1>5. Program(p, im)
  BY <1>1, <1>2, <1>3, <1>4 DEF Program
<1>6. "discovery" \in MarksOf(p.parts) =>
        \E a \in p.agents : a.has \cap {"_discover_gateway_tools", "_get_gateway_tools"} # {}
  BY <1>1, <1>2
<1>7. (\A x \in p.models : IsCall(x)) /\ (\A a \in p.agents : IsAgent(a) /\ ~a.hooked)
  BY <1>2 DEF NewCall, NewAgent
<1> QED BY <1>2, <1>5, <1>6, <1>7 DEF HostMade, p, t

\* Opening and settings, with which most hosts begin.
SetUp(im) == im \cup {"app", "SYSTEM_PROMPT", "MODEL_ID", "REGION"}
SetUpMarks == {"imports", "app", "prompt", "model_id", "region"}

LEMMA SettingsBegun ==
  ASSUME NEW im, {"BedrockAgentCoreApp", "os"} \subseteq im
  PROVE  Begun(Opening(im) \o Settings, im, SetUp(im), {}, SetUpMarks)
<1>1. Begun(Opening(im), im, im \cup {"app", "SYSTEM_PROMPT"}, {}, {"imports", "app", "prompt"})
  BY OpeningBegun
<1>2. Piece(Settings, {"MODEL_ID"} \cup {"REGION"}, {} \cup {}, {"model_id", "region"},
            {"os"} \cup ({"os"} \ {"MODEL_ID"}))
  BY TwoParts DEF Settings
<1> DEFINE b1 == im \cup {"app", "SYSTEM_PROMPT"}
           b2 == {"MODEL_ID"} \cup {"REGION"}
           m1 == {"imports", "app", "prompt"}
           m2 == {"model_id", "region"}
           n2 == {"os"} \cup ({"os"} \ {"MODEL_ID"})
           none == {} \cup {}
<1>3. n2 \subseteq b1
  OBVIOUS
<1>4. b1 \cup b2 = SetUp(im) /\ m1 \cup m2 = SetUpMarks /\ {} \cup none = {}
  BY DEF SetUp, SetUpMarks
<1>5. Begun(Opening(im), im, b1, {}, m1) /\ Piece(Settings, b2, none, m2, n2)
  BY <1>1, <1>2
<1> HIDE DEF b1, b2, m1, m2, n2, none
<1>6. Begun(Opening(im) \o Settings, im, b1 \cup b2, {} \cup none, m1 \cup m2)
  BY <1>3, <1>5, BegunGrows
<1> QED BY <1>4, <1>6

LEMMA PartAdded ==
  ASSUME NEW s, NEW im, NEW b, NEW c, NEW m, Begun(s, im, b, c, m),
         NEW mark, NEW binds, NEW loads, NEW calls, loads \subseteq b
  PROVE  Begun(s \o <<Part(mark, binds, loads, calls)>>, im,
               b \cup binds, c \cup calls, m \cup {mark})
  BY OnePart, BegunGrows

LEMMA PartsAdded ==
  ASSUME NEW s, NEW im, NEW b, NEW c, NEW m, Begun(s, im, b, c, m),
         NEW m1, NEW b1, NEW l1, NEW c1, NEW m2, NEW b2, NEW l2, NEW c2,
         l1 \subseteq b, l2 \subseteq b \cup b1
  PROVE  Begun(s \o <<Part(m1, b1, l1, c1), Part(m2, b2, l2, c2)>>, im,
               b \cup (b1 \cup b2), c \cup (c1 \cup c2), m \cup {m1, m2})
<1>1. Piece(<<Part(m1, b1, l1, c1), Part(m2, b2, l2, c2)>>,
            b1 \cup b2, c1 \cup c2, {m1, m2}, l1 \cup (l2 \ b1))
  BY TwoParts
<1>2. l1 \cup (l2 \ b1) \subseteq b
  OBVIOUS
<1> DEFINE t == <<Part(m1, b1, l1, c1), Part(m2, b2, l2, c2)>>
           n == l1 \cup (l2 \ b1)
<1>3. Piece(t, b1 \cup b2, c1 \cup c2, {m1, m2}, n) /\ n \subseteq b
  BY <1>1, <1>2
<1> HIDE DEF t, n
<1>4. Begun(s \o t, im, b \cup (b1 \cup b2), c \cup (c1 \cup c2), m \cup {m1, m2})
  BY <1>3, BegunGrows
<1> QED BY <1>4 DEF t

LEMMA OnlyAdded ==
  ASSUME NEW s, NEW im, NEW b, NEW c, NEW m, Begun(s, im, b, c, m),
         NEW on, NEW t, NEW b2, NEW c2, NEW m2, NEW n2, Piece(t, b2, c2, m2, n2),
         on => n2 \subseteq b
  PROVE  Begun(s \o OnlyParts(on, t), im,
               b \cup Only(on, b2), c \cup Only(on, c2), m \cup Only(on, m2))
<1>1. Piece(OnlyParts(on, t), Only(on, b2), Only(on, c2), Only(on, m2), Only(on, n2))
  BY FlaggedParts
<1>2. Only(on, n2) \subseteq b
  BY DEF Only
<1> QED BY <1>1, <1>2, BegunGrows

-----------------------------------------------------------------------------
(* Every host writes a program that the post-processors can work on.       *)

LEMMA ConverseHost ==
  ASSUME NEW c, ~Retrieves(c), NEW names
  PROVE  HostMade(ConverseText(names), c)
<1> DEFINE im == Basics \cup {"boto3", "re"}
           s1 == Opening(im) \o Settings
           bt == {"TOOL_CONFIG", "TOOL_HANDLERS"} \cup names
           s2 == s1 \o <<Part("tools", bt, {}, {})>>
           bl == {"_get_bedrock", "_converse_loop"}
           cl == {"boto3", "REGION", "MODEL_ID", "TOOL_CONFIG", "TOOL_HANDLERS"} \cup names
           s3 == s2 \o <<Part("loop", bl, {}, cl)>>
           k == {"_converse_loop"}
           models == {ModelCall("converse", "_converse_loop", "TOOL_CONFIG")}
<1>1. {"BedrockAgentCoreApp", "os", "boto3"} \subseteq im
  BY DEF Basics
<1>2. /\ ConverseText(names) = Text(s3 \o Closing(k), models, {})
      /\ "_converse_loop" \in bl
      /\ cl \subseteq {"boto3", "REGION", "MODEL_ID"} \cup bt
  BY DEF ConverseText
<1> HIDE DEF im, bt, bl, cl
<1>3. Begun(s1, im, SetUp(im), {}, SetUpMarks)
  BY <1>1, SettingsBegun
<1> HIDE DEF s1
<1>4. Begun(s2, im, SetUp(im) \cup bt, {} \cup {}, SetUpMarks \cup {"tools"})
  BY <1>3, PartAdded
<1> HIDE DEF s2
<1>5. Begun(s3, im, (SetUp(im) \cup bt) \cup bl, ({} \cup {}) \cup cl,
            (SetUpMarks \cup {"tools"}) \cup {"loop"})
  BY <1>4, PartAdded
<1> HIDE DEF s3
<1> DEFINE b == (SetUp(im) \cup bt) \cup bl
           d == ({} \cup {}) \cup cl
           m == (SetUpMarks \cup {"tools"}) \cup {"loop"}
<1>6. /\ {"app", "SYSTEM_PROMPT"} \subseteq b /\ d \cup k \subseteq b
      /\ m \cap {"entrypoint", "main"} = {} /\ "discovery" \notin m
  BY <1>1, <1>2 DEF SetUp, SetUpMarks
<1>7. Begun(s3, im, b, d, m)
  BY <1>5
<1> HIDE DEF b, d, m, k
<1>8. \A x \in models : NewCall(x, b)
  BY Calls
<1> HIDE DEF models
<1>9. HostMade(Text(s3 \o Closing(k), models, {}), c)
  BY <1>1, <1>6, <1>7, <1>8, HostCloses
<1> QED BY <1>2, <1>9

GatewayCalls == GatewayImports \cup {"GATEWAY_URL", "GATEWAY_AUTH_MODE", "json"}
GatewayBinds == {"GATEWAY_URL", "GATEWAY_AUTH_MODE", "_discover_gateway_tools"}

LEMMA GatewayPiece ==
  Piece(GatewayLines, GatewayBinds, GatewayCalls, {"gateway_env", "discovery"}, {"os"})
<1> DEFINE b1 == {"GATEWAY_URL", "GATEWAY_AUTH_MODE"}
           b2 == {"_discover_gateway_tools"}
           d2 == GatewayImports \cup {"GATEWAY_URL", "GATEWAY_AUTH_MODE", "json"}
           none == {}
           os == {"os"}
           marks == {"gateway_env", "discovery"}
<1>1. GatewayLines = <<Part("gateway_env", b1, os, none), Part("discovery", b2, none, d2)>>
  BY DEF GatewayLines
<1>2. Piece(<<Part("gateway_env", b1, os, none), Part("discovery", b2, none, d2)>>,
            b1 \cup b2, none \cup d2, marks, os \cup (none \ b1))
  BY TwoParts
<1>3. b1 \cup b2 = GatewayBinds /\ none \cup d2 = GatewayCalls /\ os \cup (none \ b1) = os
  BY DEF GatewayBinds, GatewayCalls
<1> HIDE DEF b1, b2, d2, none
<1> QED BY <1>1, <1>2, <1>3

LEMMA GatewayHost ==
  ASSUME NEW c, ~Retrieves(c)
  PROVE  HostMade(GatewayText, c)
<1> DEFINE im == Basics \cup GatewayImports \cup {"Agent", "BedrockModel"}
           s1 == Opening(im) \o Settings
           s2 == s1 \o GatewayLines
           ba == {"_get_agent"}
           da == {"Agent", "MODEL_ID", "REGION", "_discover_gateway_tools"}
           s3 == s2 \o <<Part("agent", ba, {}, da)>>
           k == {"_get_agent"}
           has == {"_discover_gateway_tools"}
           models == {ModelCall("BedrockModel", "_get_agent", "constructor")}
           agents == {AnAgent("tooled", has), AnAgent("bare", {})}
           marks == {"gateway_env", "discovery"}
           os == {"os"}
<1>1. /\ {"BedrockAgentCoreApp", "os", "json", "Agent", "BedrockModel"} \subseteq im
      /\ GatewayImports \subseteq im /\ os = {"os"} /\ os \subseteq im
  BY DEF Basics
<1>2. GatewayText = Text(s3 \o Closing(k), models, agents)
  BY DEF GatewayText
<1> HIDE DEF im
<1>3. Begun(s1, im, SetUp(im), {}, SetUpMarks)
  BY <1>1, SettingsBegun
<1>4. Piece(GatewayLines, GatewayBinds, GatewayCalls, marks, os) /\ os \subseteq SetUp(im)
  BY <1>1, GatewayPiece DEF SetUp
<1> HIDE DEF s1, marks, os, da, ba
<1>5. Begun(s2, im, SetUp(im) \cup GatewayBinds, {} \cup GatewayCalls, SetUpMarks \cup marks)
  BY <1>3, <1>4, BegunGrows
<1> HIDE DEF s2
<1>6. Begun(s3, im, (SetUp(im) \cup GatewayBinds) \cup ba, ({} \cup GatewayCalls) \cup da,
            (SetUpMarks \cup marks) \cup {"agent"})
  BY <1>5, PartAdded
<1> HIDE DEF s3
<1> DEFINE b == (SetUp(im) \cup GatewayBinds) \cup ba
           d == ({} \cup GatewayCalls) \cup da
           m == (SetUpMarks \cup marks) \cup {"agent"}
<1>7. /\ {"app", "SYSTEM_PROMPT", "BedrockModel"} \subseteq b
      /\ d \cup k \subseteq b /\ has \subseteq b
      /\ m \cap {"entrypoint", "main"} = {}
  BY <1>1 DEF SetUp, SetUpMarks, GatewayBinds, GatewayCalls, marks, ba, da
<1>8. Begun(s3, im, b, d, m)
  BY <1>6
<1> HIDE DEF b, d, m, k
<1>9. \A x \in models : NewCall(x, b)
  BY <1>7, Calls
<1>10. /\ NewAgent(AnAgent("tooled", has), b) /\ AnAgent("tooled", has).has = has
       /\ NewAgent(AnAgent("bare", {}), b)
  BY <1>7, Agents
<1> HIDE DEF models
<1>11. /\ \A a \in agents : NewAgent(a, b)
       /\ \E a \in agents : a.has \cap {"_discover_gateway_tools", "_get_gateway_tools"} # {}
  BY <1>10
<1> HIDE DEF agents
<1>12. HostMade(Text(s3 \o Closing(k), models, agents), c)
  BY <1>1, <1>7, <1>8, <1>9, <1>11, HostCloses
<1> QED BY <1>2, <1>12

LEMMA A2AHost ==
  ASSUME NEW c, ~Retrieves(c)
  PROVE  HostMade(A2AText, c)
<1> DEFINE im == Basics \cup {"httpx", "JSONResponse", "ipaddress", "socket",
                            "Agent", "tool", "BedrockModel"}
           s1 == Opening(im) \o Settings
           bc == {"_build_agent_card", "_agent_card_route"}
           os == {"os"}
           json == {"JSONResponse"}
           none == {}
           lr == {"app", "_agent_card_route"}
           s2 == s1 \o <<Part("card", bc, os, json), Part("route", none, lr, none)>>
           bg == {"_a2a_check_peer_host"}
           dg == {"socket", "ipaddress"}
           bp == {"call_a2a_peer"}
           lp == {"tool"}
           dp == {"httpx", "json", "_a2a_check_peer_host"}
           s3 == s2 \o <<Part("guard", bg, none, dg), Part("peer", bp, lp, dp)>>
           ba == {"_get_agent"}
           da == {"Agent", "MODEL_ID", "REGION"}
           s4 == s3 \o <<Part("agent", ba, none, da)>>
           k == {"_get_agent"}
           has == {"call_a2a_peer"}
           models == {ModelCall("BedrockModel", "_get_agent", "constructor")}
           agents == {AnAgent("agent", has)}
           b1 == SetUp(im)
           b2 == b1 \cup (bc \cup none)
           b3 == b2 \cup (bg \cup bp)
           b == b3 \cup ba
           d2 == none \cup (json \cup none)
           d3 == d2 \cup (dg \cup dp)
           d == d3 \cup da
           m2 == SetUpMarks \cup {"card", "route"}
           m3 == m2 \cup {"guard", "peer"}
           m == m3 \cup {"agent"}
<1>1. /\ {"BedrockAgentCoreApp", "os", "json", "httpx", "JSONResponse", "ipaddress",
          "socket", "Agent", "tool", "BedrockModel"} \subseteq im
  BY DEF Basics
<1>2. A2AText = Text(s4 \o Closing(k), models, agents)
  BY DEF A2AText, CardParts, PeerParts
<1> HIDE DEF im
<1>3. /\ {"app", "SYSTEM_PROMPT", "BedrockModel"} \subseteq b
      /\ d \cup k \subseteq b /\ has \subseteq b
      /\ m \cap {"entrypoint", "main"} = {} /\ "discovery" \notin m
      /\ os \subseteq b1 /\ lr \subseteq b1 \cup bc
      /\ none \subseteq b2 /\ lp \subseteq b2 \cup bg /\ none \subseteq b3
  BY <1>1 DEF SetUp, SetUpMarks
<1>4. Begun(s1, im, b1, none, SetUpMarks)
  BY <1>1, SettingsBegun
<1> HIDE DEF s1, bc, os, json, none, lr, bg, dg, bp, lp, dp, ba, da, k, has, b1
<1>5. Begun(s2, im, b2, d2, m2)
  BY <1>3, <1>4, PartsAdded
<1> HIDE DEF s2, b2, d2, m2
<1>6. Begun(s3, im, b3, d3, m3)
  BY <1>3, <1>5, PartsAdded
<1> HIDE DEF s3, b3, d3, m3
<1>7. Begun(s4, im, b, d, m)
  BY <1>3, <1>6, PartAdded
<1> HIDE DEF s4, b, d, m
<1>8. \A x \in models : NewCall(x, b)
  BY <1>3, Calls
<1>9. \A a \in agents : NewAgent(a, b)
  BY <1>3, Agents
<1> HIDE DEF models, agents
<1>10. HostMade(Text(s4 \o Closing(k), models, agents), c)
  BY <1>1, <1>3, <1>7, <1>8, <1>9, HostCloses
<1> QED BY <1>2, <1>10

LEMMA NoClassIsConverse == \A p : ModelClass(p) # "converse"
  BY DEF ModelClass

LEMMA StrandsHost ==
  ASSUME NEW c, ~Retrieves(c)
  PROVE  HostMade(StrandsText(c), c)
<1> DEFINE class == ModelClass(c.provider)
           im == {"BedrockAgentCoreApp", "os", "Agent", class}
           s1 == Opening(im)
           none == {}
           ba == {"load_model"}
           da == {"os", "Agent"}
           s2 == s1 \o <<Part("agent", ba, none, da)>>
           models == {ModelCall(class, "load_model", "constructor")}
           agents == {AnAgent("agent", none)}
           b1 == im \cup {"app", "SYSTEM_PROMPT"}
           b == b1 \cup ba
           d == none \cup da
           m1 == {"imports", "app", "prompt"}
           m == m1 \cup {"agent"}
<1>1. StrandsText(c) = Text(s2 \o Closing(ba), models, agents)
  BY DEF StrandsText
<1>2. class # "converse"
  BY NoClassIsConverse
<1> HIDE DEF class
<1>3. /\ {"BedrockAgentCoreApp", "os", "Agent", class} \subseteq im
      /\ {"app", "SYSTEM_PROMPT", class} \subseteq b
      /\ d \cup ba \subseteq b /\ none \subseteq b /\ none \subseteq b1
      /\ m \cap {"entrypoint", "main"} = {} /\ "discovery" \notin m
  OBVIOUS
<1>4. Begun(s1, im, b1, none, m1)
  BY <1>3, OpeningBegun
<1> HIDE DEF s1, im, none, ba, da, b1, m1
<1>5. Begun(s2, im, b, d, m)
  BY <1>3, <1>4, PartAdded
<1> HIDE DEF s2, b, d, m
<1>6. \A x \in models : NewCall(x, b)
  BY <1>2, <1>3, Calls
<1>7. \A a \in agents : NewAgent(a, b)
  BY <1>3, Agents
<1> HIDE DEF models, agents
<1>8. HostMade(Text(s2 \o Closing(ba), models, agents), c)
  BY <1>3, <1>5, <1>6, <1>7, HostCloses
<1> QED BY <1>1, <1>8

LEMMA MultiAgentHost ==
  ASSUME NEW c, ~Retrieves(c), NEW builder
  PROVE  HostMade(MultiAgentText(c, builder), c)
<1> DEFINE classes == MultiAgentImports(c)
           im == {"BedrockAgentCoreApp", "os", "Agent"} \cup builder \cup classes
           s1 == Opening(im)
           none == {}
           ba == {"_build"}
           da == {"os", "Agent"} \cup builder
           s2 == s1 \o <<Part("agents", ba, none, da)>>
           models == {[ModelCall(ModelClass(c.agents[i]), "_build", "constructor")
                        EXCEPT !.nr = i] : i \in DOMAIN c.agents}
           agents == {AnAgent(i, {}) : i \in DOMAIN c.agents}
           b1 == im \cup {"app", "SYSTEM_PROMPT"}
           b == b1 \cup ba
           d == none \cup da
           m1 == {"imports", "app", "prompt"}
           m == m1 \cup {"agents"}
<1>1. MultiAgentText(c, builder) = Text(s2 \o Closing(ba), models, agents)
  BY DEF MultiAgentText
<1>2. \A i \in DOMAIN c.agents : ModelClass(c.agents[i]) \in classes
  BY DEF MultiAgentImports, Range
<1> HIDE DEF classes
<1>3. /\ {"BedrockAgentCoreApp", "os", "Agent"} \subseteq im
      /\ {"app", "SYSTEM_PROMPT"} \subseteq b /\ classes \subseteq b
      /\ d \cup ba \subseteq b /\ none \subseteq b1
      /\ m \cap {"entrypoint", "main"} = {} /\ "discovery" \notin m
  OBVIOUS
<1>4. Begun(s1, im, b1, none, m1)
  BY <1>3, OpeningBegun
<1> HIDE DEF s1, im, none, ba, da, b1, m1
<1>5. Begun(s2, im, b, d, m)
  BY <1>3, <1>4, PartAdded
<1> HIDE DEF s2, b, d, m
<1>6. \A x \in models : NewCall(x, b)
  <2> SUFFICES ASSUME NEW i \in DOMAIN c.agents
               PROVE  NewCall([ModelCall(ModelClass(c.agents[i]), "_build", "constructor")
                                 EXCEPT !.nr = i], b)
    OBVIOUS
  <2> DEFINE api == ModelClass(c.agents[i])
  <2>1. api \in b /\ api # "converse"
    BY <1>2, <1>3, NoClassIsConverse
  <2> HIDE DEF models, agents, api
  <2>2. \A j : NewCall([ModelCall(api, "_build", "constructor") EXCEPT !.nr = j], b)
    BY <2>1, Calls
  <2> QED BY <2>2 DEF api
<1>7. \A a \in agents : NewAgent(a, b)
  BY Agents
<1> HIDE DEF models, agents
<1>8. HostMade(Text(s2 \o Closing(ba), models, agents), c)
  BY <1>3, <1>5, <1>6, <1>7, HostCloses
<1> QED BY <1>1, <1>8

\* The retrieval tool and what it brings.
KbCalls == {"boto3", "os", "json", "REGION"}

LEMMA RetrievalPiece ==
  ASSUME NEW c
  PROVE  \E b : /\ RetrievalTool(c) \in b
                /\ Piece(RetrievalParts(c), b, b \cup KbCalls, {"rag", "kb"}, {"tool"})
<1>1. CASE RetrievalTool(c) = "retrieve_from_kb"
  <2> DEFINE b == {"retrieve_from_kb", "_get_kb_client"}
  <2>1. RetrievalParts(c) = <<Part("kb", b, {"tool"}, KbCalls)>>
    BY <1>1 DEF RetrievalParts, SingleShotPart, KbCalls
  <2>2. Piece(<<Part("kb", b, {"tool"}, KbCalls)>>, b, KbCalls, {"kb"}, {"tool"})
    BY OnePart
  <2>3. Piece(RetrievalParts(c), b, b \cup KbCalls, {"rag", "kb"}, {"tool"})
    BY <2>1, <2>2, PieceWeaker
  <2> QED BY <1>1, <2>3
<1>2. CASE RetrievalTool(c) # "retrieve_from_kb"
  <2> DEFINE b1 == {"_rag_os", "_rag_json", "_rag_boto3", "_rag_raw_retrieve",
                    "_get_kb_client", "_get_judge_client"}
             b2 == {RetrievalTool(c)}
             d2 == {"_rag_os", "_rag_json", "_rag_raw_retrieve", "_get_judge_client"}
             none == {}
             l2 == {"tool"}
             b == b1 \cup b2
             t == <<Part("rag", b1, none, none), Part("kb", b2, l2, d2)>>
  <2>1. RetrievalParts(c) = t
    BY <1>2 DEF RetrievalParts, RagPreamble
  <2>2. Piece(t, b1 \cup b2, none \cup d2, {"rag", "kb"}, none \cup (l2 \ b1))
    BY TwoParts
  <2>3. none \cup d2 \subseteq b \cup KbCalls /\ none \cup (l2 \ b1) \subseteq {"tool"}
    OBVIOUS
  <2> DEFINE d == none \cup d2
             n == none \cup (l2 \ b1)
  <2> HIDE DEF d, n, t
  <2>4. Piece(t, b, b \cup KbCalls, {"rag", "kb"}, {"tool"})
    <3>1. Piece(t, b, d, {"rag", "kb"}, n) /\ d \subseteq b \cup KbCalls /\ n \subseteq {"tool"}
      BY <2>2, <2>3 DEF d, n
    <3> HIDE DEF b
    <3> QED BY <3>1, PieceWeaker
  <2> QED BY <2>1, <2>4
<1> QED BY <1>1, <1>2

LEMMA JudgeCallsNew ==
  ASSUME NEW c, NEW b
  PROVE  \A x \in JudgeCalls(c) : NewCall(x, b)
<1> SUFFICES ASSUME c.strategy \in {"multi_hop", "reranked"}
             PROVE  NewCall(ModelCall("converse", RetrievalTool(c), "none"), b)
  BY DEF JudgeCalls
<1>1. RetrievalTool(c) \in Unreached
  BY DEF RetrievalTool, Unreached
<1> QED BY <1>1, Calls

LEMMA MemoryGatewayPiece ==
  Piece(MemoryGateway, GatewayBinds \cup {"_get_gateway_tools"},
        GatewayCalls \cup {"_discover_gateway_tools", "GATEWAY_URL"},
        {"gateway_env", "discovery", "gateway_init"}, {"os"})
<1> DEFINE b2 == {"_get_gateway_tools"}
           d2 == {"_discover_gateway_tools", "GATEWAY_URL"}
           none == {}
           os == {"os"}
           marks == {"gateway_env", "discovery"}
           init == {"gateway_init"}
           t == <<Part("gateway_init", b2, none, d2)>>
           n == os \cup (none \ GatewayBinds)
<1>1. MemoryGateway = GatewayLines \o t
  BY DEF MemoryGateway
<1>2. Piece(GatewayLines, GatewayBinds, GatewayCalls, marks, os)
  BY GatewayPiece
<1>3. Piece(t, b2, d2, init, none)
  BY OnePart
<1>4. n = os /\ marks \cup init = {"gateway_env", "discovery", "gateway_init"}
  OBVIOUS
<1> HIDE DEF b2, d2, none, os, marks, init, t
<1>5. Piece(GatewayLines \o t, GatewayBinds \cup b2, GatewayCalls \cup d2, marks \cup init, n)
  BY <1>2, <1>3, PiecesJoin
<1> HIDE DEF n
<1> QED BY <1>1, <1>4, <1>5 DEF b2, d2, os

LEMMA MemoryHost ==
  ASSUME NEW c
  PROVE  HostMade(MemoryText(c), c)
<1> DEFINE G == WithGateway(c)
           K == WithKb(c)
           im == Basics \cup {"Agent", "BedrockModel"} \cup Only(G, GatewayImports)
                   \cup Only(K, {"boto3", "tool"})
           none == {}
           os == {"os"}
           s1 == Opening(im) \o Settings
           be == {"MEMORY_ID"}
           s2 == s1 \o <<Part("memory_env", be, os, none)>>
           bg == GatewayBinds \cup {"_get_gateway_tools"}
           dg == GatewayCalls \cup {"_discover_gateway_tools", "GATEWAY_URL"}
           mg == {"gateway_env", "discovery", "gateway_init"}
           s3 == s2 \o OnlyParts(G, MemoryGateway)
           s4 == s3 \o OnlyParts(K, RetrievalParts(c))
           mk == {"rag", "kb"}
           lk == {"tool"}
           ba == {"_get_agent"}
           da == {"Agent", "MODEL_ID", "REGION"}
           bm == {"_get_recent_context", "_get_long_term_context", "_save_to_memory"}
           dm == {"MEMORY_ID", "REGION"}
           s5 == s4 \o <<Part("agent", ba, none, da), Part("memory", bm, none, dm)>>
           k == ba \cup bm
           has == MemoryTools(c)
           models == {ModelCall("BedrockModel", "_get_agent", "constructor")}
                       \cup Only(K, JudgeCalls(c))
           agents == {AnAgent("agent", has)}
<1>1. PICK bk : /\ RetrievalTool(c) \in bk
                /\ Piece(RetrievalParts(c), bk, bk \cup KbCalls, mk, lk)
  BY RetrievalPiece
<1>2. /\ {"BedrockAgentCoreApp", "os", "json", "Agent", "BedrockModel"} \subseteq im
      /\ G => GatewayImports \subseteq im
      /\ K => {"boto3", "tool"} \subseteq im
  BY DEF Basics, Only
<1>3. MemoryText(c) = Text(s5 \o Closing(k), models, agents)
  <2>1. MemoryLines = Part("memory", bm, none, dm) /\ MemoryLines.binds = bm
    BY PartFields DEF MemoryLines
  <2> QED BY <2>1 DEF MemoryText
<1> DEFINE b1 == SetUp(im)
           b2 == b1 \cup be
           b3 == b2 \cup Only(G, bg)
           b4 == b3 \cup Only(K, bk)
           b == b4 \cup (ba \cup bm)
           d2 == none \cup none
           d3 == d2 \cup Only(G, dg)
           d4 == d3 \cup Only(K, bk \cup KbCalls)
           d == d4 \cup (da \cup dm)
           m2 == SetUpMarks \cup {"memory_env"}
           m3 == m2 \cup Only(G, mg)
           m4 == m3 \cup Only(K, mk)
           m == m4 \cup {"agent", "memory"}
<1> HIDE DEF G, K, im
<1>4. /\ {"app", "SYSTEM_PROMPT", "BedrockModel"} \subseteq b
      /\ os \subseteq b1 /\ (G => os \subseteq b2) /\ (K => lk \subseteq b3)
      /\ none \subseteq b4 /\ none \subseteq b4 \cup ba
  BY <1>2 DEF SetUp
<1>5. d \cup k \subseteq b
  <2>1. {"json", "os", "REGION", "MODEL_ID", "Agent", "MEMORY_ID"} \cup ba \cup bm \subseteq b
    BY <1>2 DEF SetUp
  <2>2. G => dg \subseteq b
    BY <1>2 DEF SetUp, GatewayBinds, GatewayCalls, Only
  <2>3. K => bk \cup KbCalls \subseteq b
    BY <1>2 DEF SetUp, KbCalls, Only
  <2> HIDE DEF b, dg
  <2> QED BY <2>1, <2>2, <2>3 DEF Only
<1>6. m \cap {"entrypoint", "main"} = {} /\ ("discovery" \in m => G)
  BY DEF SetUpMarks, Only
<1>7. has \subseteq b
  BY <1>1 DEF MemoryTools, Only, G, K
<1> HIDE DEF s1, none, os, be, bg, dg, mg, mk, lk, ba, da, bm, dm, k, b1
<1>8. Begun(s1, im, b1, none, SetUpMarks)
  BY <1>2, SettingsBegun DEF b1, s1, none
<1>9. Begun(s2, im, b2, d2, m2)
  BY <1>4, <1>8, PartAdded
<1> HIDE DEF s2, b2, d2, m2
<1>10. Piece(MemoryGateway, bg, dg, mg, os)
  BY MemoryGatewayPiece DEF bg, dg, mg, os
<1>11. Begun(s3, im, b3, d3, m3)
  BY <1>4, <1>9, <1>10, OnlyAdded
<1> HIDE DEF s3, b3, d3, m3
<1>12. Begun(s4, im, b4, d4, m4)
  BY <1>1, <1>4, <1>11, OnlyAdded
<1> HIDE DEF s4, b4, d4, m4
<1>13. Begun(s5, im, b, d, m)
  BY <1>4, <1>12, PartsAdded
<1> HIDE DEF s5, b, d, m
<1>14. \A x \in models : NewCall(x, b)
  <2>1. NewCall(ModelCall("BedrockModel", "_get_agent", "constructor"), b)
    BY <1>4, Calls
  <2>2. \A x \in Only(K, JudgeCalls(c)) : NewCall(x, b)
    BY JudgeCallsNew DEF Only
  <2> QED BY <2>1, <2>2
<1> HIDE DEF models, has
<1>15. \A a \in agents : NewAgent(a, b) /\ a.has = has
  BY <1>7, Agents
<1>16. AnAgent("agent", has) \in agents
  OBVIOUS
<1> HIDE DEF agents
<1>17. Retrieves(c) => \A a \in agents : RetrievalTool(c) \in a.has
  BY <1>15 DEF Retrieves, has, MemoryTools, Only
<1>18. "discovery" \in m =>
         \E a \in agents : a.has \cap {"_discover_gateway_tools", "_get_gateway_tools"} # {}
  BY <1>6, <1>15, <1>16 DEF has, MemoryTools, Only, G
<1>19. HostMade(Text(s5 \o Closing(k), models, agents), c)
  <2>1. /\ "os" \in im /\ "Agent" \in im /\ {"app", "SYSTEM_PROMPT"} \subseteq b
        /\ m \cap {"entrypoint", "main"} = {}
    BY <1>2, <1>4, <1>6
  <2>2. \A a \in agents : NewAgent(a, b)
    BY <1>15
  <2> QED BY <1>5, <1>13, <1>14, <1>17, <1>18, <2>1, <2>2, HostCloses
<1> QED BY <1>3, <1>19

LEMMA ToolsHost ==
  ASSUME NEW c
  PROVE  HostMade(ToolsText(c), c)
<1> DEFINE K == WithKb(c)
           P == HasPython(c)
           B == HasBrowser(c)
           im == Basics \cup {"Agent", "tool", "BedrockModel"}
                   \cup Only(P, {"code_session"}) \cup Only(B, {"browser_session"})
                   \cup Only(K, {"boto3"})
           none == {}
           s1 == Opening(im) \o Settings
           mk == {"rag", "kb"}
           lt == {"tool"}
           s2 == s1 \o OnlyParts(K, RetrievalParts(c))
           bp == {"execute_python"}
           dp == {"code_session", "REGION", "json"}
           mp == {"python"}
           s3 == s2 \o OnlyParts(P, <<PythonPart>>)
           bb == {"browse_web"}
           db == {"browser_session", "REGION", "json"}
           mb == {"browser"}
           s4 == s3 \o OnlyParts(B, <<BrowserPart>>)
           ba == {"_get_agent", "_final_text"}
           da == {"Agent", "MODEL_ID", "REGION"}
           s5 == s4 \o <<Part("agent", ba, none, da)>>
           bf == {"_ci_boto3", "_forced_execute"}
           df == {"_ci_boto3", "REGION", "MODEL_ID", "execute_python"}
           mf == {"forced"}
           s6 == s5 \o OnlyParts(P, <<ForcedPart>>)
           k == ba \cup Only(P, {"_forced_execute"})
           has == BuiltIn(c)
           models == {ModelCall("BedrockModel", "_get_agent", "constructor")}
                       \cup Only(K, JudgeCalls(c))
                       \cup Only(P, {ModelCall("converse", "_forced_execute", "none")})
           agents == {AnAgent("agent", has)}
<1>1. PICK bk : /\ RetrievalTool(c) \in bk
                /\ Piece(RetrievalParts(c), bk, bk \cup KbCalls, mk, lt)
  BY RetrievalPiece
<1>2. /\ {"BedrockAgentCoreApp", "os", "json", "Agent", "tool", "BedrockModel"} \subseteq im
      /\ P => "code_session" \in im
      /\ B => "browser_session" \in im
      /\ K => "boto3" \in im
  BY DEF Basics, Only
<1>3. ToolsText(c) = Text(s6 \o Closing(k), models, agents)
  BY DEF ToolsText
<1>4. /\ Piece(<<PythonPart>>, bp, dp, mp, lt)
      /\ Piece(<<BrowserPart>>, bb, db, mb, lt)
      /\ Piece(<<ForcedPart>>, bf, df, mf, none)
  BY OnePart DEF PythonPart, BrowserPart, ForcedPart
<1> DEFINE b1 == SetUp(im)
           b2 == b1 \cup Only(K, bk)
           b3 == b2 \cup Only(P, bp)
           b4 == b3 \cup Only(B, bb)
           b5 == b4 \cup ba
           b == b5 \cup Only(P, bf)
           d2 == none \cup Only(K, bk \cup KbCalls)
           d3 == d2 \cup Only(P, dp)
           d4 == d3 \cup Only(B, db)
           d5 == d4 \cup da
           d == d5 \cup Only(P, df)
           m2 == SetUpMarks \cup Only(K, mk)
           m3 == m2 \cup Only(P, mp)
           m4 == m3 \cup Only(B, mb)
           m5 == m4 \cup {"agent"}
           m == m5 \cup Only(P, mf)
<1> HIDE DEF K, P, B, im
<1>5. /\ {"app", "SYSTEM_PROMPT", "BedrockModel"} \subseteq b
      /\ lt \subseteq b1 /\ lt \subseteq b2 /\ lt \subseteq b3
      /\ none \subseteq b4 /\ none \subseteq b5
  BY <1>2 DEF SetUp
<1>6. d \cup k \subseteq b
  <2>1. {"json", "REGION", "MODEL_ID", "Agent"} \cup ba \subseteq b
    BY <1>2 DEF SetUp
  <2>2. P => dp \cup df \cup {"_forced_execute"} \subseteq b
    BY <1>2 DEF SetUp, Only
  <2>3. B => db \subseteq b
    BY <1>2 DEF SetUp, Only
  <2>4. K => bk \cup KbCalls \subseteq b
    BY <1>2 DEF SetUp, KbCalls, Only
  <2> HIDE DEF b, dp, df, db
  <2> QED BY <2>1, <2>2, <2>3, <2>4 DEF Only
<1>7. m \cap {"entrypoint", "main"} = {} /\ "discovery" \notin m
  BY DEF SetUpMarks, Only
<1>8. has \subseteq b
  BY <1>1 DEF BuiltIn, Only, K, P, B
<1> HIDE DEF s1, none, mk, lt, bp, dp, mp, bb, db, mb, ba, da, bf, df, mf, k, b1
<1>9. Begun(s1, im, b1, none, SetUpMarks)
  BY <1>2, SettingsBegun DEF b1, s1, none
<1>10. Begun(s2, im, b2, d2, m2)
  BY <1>1, <1>5, <1>9, OnlyAdded
<1> HIDE DEF s2, b2, d2, m2
<1>11. Begun(s3, im, b3, d3, m3)
  BY <1>4, <1>5, <1>10, OnlyAdded
<1> HIDE DEF s3, b3, d3, m3
<1>12. Begun(s4, im, b4, d4, m4)
  BY <1>4, <1>5, <1>11, OnlyAdded
<1> HIDE DEF s4, b4, d4, m4
<1>13. Begun(s5, im, b5, d5, m5)
  BY <1>5, <1>12, PartAdded
<1> HIDE DEF s5, b5, d5, m5
<1>14. Begun(s6, im, b, d, m)
  BY <1>4, <1>5, <1>13, OnlyAdded
<1> HIDE DEF s6, b, d, m
<1>15. \A x \in models : NewCall(x, b)
  <2>1. NewCall(ModelCall("BedrockModel", "_get_agent", "constructor"), b)
    BY <1>5, Calls
  <2>2. \A x \in Only(K, JudgeCalls(c)) : NewCall(x, b)
    BY JudgeCallsNew DEF Only
  <2>3. NewCall(ModelCall("converse", "_forced_execute", "none"), b)
    BY Calls DEF Unreached
  <2> QED BY <2>1, <2>2, <2>3 DEF Only
<1> HIDE DEF models, has
<1>16. \A a \in agents : NewAgent(a, b) /\ a.has = has
  BY <1>8, Agents
<1> HIDE DEF agents
<1>17. Retrieves(c) => \A a \in agents : RetrievalTool(c) \in a.has
  BY <1>16 DEF Retrieves, has, BuiltIn, Only
<1>18. HostMade(Text(s6 \o Closing(k), models, agents), c)
  <2>1. /\ "os" \in im /\ "Agent" \in im /\ {"app", "SYSTEM_PROMPT"} \subseteq b
        /\ m \cap {"entrypoint", "main"} = {}
    BY <1>2, <1>5, <1>7
  <2>2. \A a \in agents : NewAgent(a, b)
    BY <1>16
  <2> QED BY <1>6, <1>7, <1>14, <1>15, <1>17, <2>1, <2>2, HostCloses
<1> QED BY <1>3, <1>18

\* Whatever is connected, the host that fits writes such a program.
LEMMA HostWrites ==
  ASSUME NEW c
  PROVE  HostMade(HostText(c), c)
<1>1. CASE IsA2A(c) \/ c.template # "none" \/ c.pattern # "none"
  <2>1. ~Retrieves(c)
    BY <1>1 DEF Retrieves
  <2>2. /\ HostMade(A2AText, c) /\ HostMade(GatewayText, c)
        /\ HostMade(WebSearchText, c) /\ HostMade(McpServerText, c)
        /\ HostMade(StrandsText(c), c) /\ HostMade(GraphText(c), c)
        /\ HostMade(SwarmText(c), c) /\ HostMade(WorkflowText(c), c)
    BY <2>1, A2AHost, GatewayHost, ConverseHost, StrandsHost, MultiAgentHost
       DEF WebSearchText, McpServerText, GraphText, SwarmText, WorkflowText
  <2>3. HostMade(MemoryText(c), c) /\ HostMade(ToolsText(c), c)
    BY MemoryHost, ToolsHost
  <2> QED BY <2>2, <2>3 DEF HostText
<1>2. CASE ~IsA2A(c) /\ c.template = "none" /\ c.pattern = "none"
  <2>1. HostMade(MemoryText(c), c) /\ HostMade(ToolsText(c), c)
    BY MemoryHost, ToolsHost
  <2>2. "memory" \notin c.tools /\ WithGateway(c) => HostMade(GatewayText, c)
    BY GatewayHost DEF Retrieves
  <2>3. {"browser", "code_interpreter", "knowledge_base"} \cap c.tools = {}
          => HostMade(StrandsText(c), c)
    BY StrandsHost DEF Retrieves, WithKb
  <2> QED BY <1>2, <2>1, <2>2, <2>3 DEF HostText, GatewayTemplate
<1> QED BY <1>1, <1>2

-----------------------------------------------------------------------------
(* The program in the hands of the pipeline.                               *)

\* The phases of a program that has been loaded.
Loaded == {"serving", "answered", "denied", "raised"}

\* What is written is a program that loads, answers and carries what is connected
\* (so neither loading nor the first call can crash), the environment is the
\* canvas's, and what is bound is everything the parts bind.
GeneratedInv ==
  /\ canvas \in CanvasOf
  /\ phase \in {"drawn", "shipped", "configured"} \cup Loaded
  /\ phase = "raised" => "hitl" \in canvas.tools /\ canvas.policies
  /\ phase = "drawn" => text = Text(<< >>, {}, {})
  /\ phase # "drawn" => Delivered(text, canvas)
  /\ phase \notin {"drawn", "shipped"} => environ = RuntimeEnv(canvas)
  /\ bound = IF phase \in Loaded THEN BindsOf(text.parts) ELSE {}

LEMMA GeneratedInit == AgentInit => GeneratedInv
  BY DEF AgentInit, GeneratedInv, Loaded

LEMMA GeneratedWrites ==
  ASSUME GeneratedInv, WriteAgent
  PROVE  GeneratedInv'
<1>1. Delivered(text', canvas)
  BY HostWrites, ProcessedDelivers DEF WriteAgent
<1>2. /\ phase = "drawn" /\ phase' = "shipped" /\ canvas' = canvas /\ bound' = bound
  BY DEF WriteAgent
<1>3. bound = {}
  BY <1>2 DEF GeneratedInv, Loaded
<1>4. Delivered(text, canvas)'
  BY <1>1, <1>2
<1> QED BY <1>2, <1>3, <1>4 DEF GeneratedInv, Loaded

LEMMA GeneratedLoads ==
  ASSUME GeneratedInv, LoadModule
  PROVE  GeneratedInv'
<1> DEFINE s == text.parts
           last == First(text, "main")
<1>1. /\ phase = "configured" /\ UNCHANGED <<canvas, text, environ>>
  BY DEF LoadModule
<1>2. Delivered(text, canvas)
  BY <1>1 DEF GeneratedInv
<1>3. PICK im : Program(text, im)
  BY <1>2 DEF Delivered
<1>4. /\ last = Len(s) /\ s \in Seq(Range(s)) /\ Fits(s, {})
  BY <1>3, Places DEF Program, Ordered
<1>5. DOMAIN s = 1..last
  BY <1>4, SequenceIs
<1>6. \A i \in 1..last : s[i].loads \subseteq BoundBy(text, i - 1)
  BY <1>4, <1>5 DEF Fits, BoundBy, Before
<1>7. BoundBy(text, last) = BindsOf(s)
  BY <1>5 DEF BoundBy, BindsOf
<1>8. phase' = "serving" /\ bound' = BindsOf(s)
  BY <1>6, <1>7 DEF LoadModule
<1>9. Delivered(text, canvas)' /\ (BindsOf(text.parts))' = BindsOf(s) /\ RuntimeEnv(canvas)' = RuntimeEnv(canvas)
  BY <1>1, <1>2
<1> QED BY <1>1, <1>8, <1>9 DEF GeneratedInv, Loaded

LEMMA GeneratedAnswers ==
  ASSUME GeneratedInv, FirstCall
  PROVE  GeneratedInv'
<1>1. /\ phase = "serving" /\ UNCHANGED <<canvas, text, bound, environ>>
  BY DEF FirstCall
<1>2. Delivered(text, canvas) /\ bound = BindsOf(text.parts)
  BY <1>1 DEF GeneratedInv, Loaded
<1>3. PICK im : Program(text, im)
  BY <1>2 DEF Delivered
<1>4. Wanted(text) \subseteq bound
  BY <1>2, <1>3 DEF Program
<1>5. LookedUp = Wanted(text)
  <2>1. UNION {part.calls : part \in Range(text.parts)} = CallsOf(text.parts)
    BY DEF CallsOf, Range
  <2> QED BY <2>1 DEF LookedUp, Wanted
<1>6. phase' = "answered"
  BY <1>4, <1>5 DEF FirstCall
<1>7. Delivered(text, canvas)' /\ (BindsOf(text.parts))' = BindsOf(text.parts)
      /\ RuntimeEnv(canvas)' = RuntimeEnv(canvas)
  BY <1>1, <1>2
<1> QED BY <1>1, <1>2, <1>6, <1>7 DEF GeneratedInv, Loaded

\* Only a canvas with policies has them in its environment.
LEMMA PoliciesOnly ==
  ASSUME NEW c, "LOOM_APPROVAL_POLICIES" \in RuntimeEnv(c)
  PROVE  c.policies
<1> DEFINE loom == "LOOM_APPROVAL_POLICIES"
           Of(t) == CASE t = "guardrails" -> {"GUARDRAIL_ID"}
                      [] t = "memory" -> {"MEMORY_ID"}
                      [] t = "knowledge_base" -> {"KB_ID"}
                      [] t = "observability" -> {"OTEL_EXPORTER_OTLP_ENDPOINT"}
                      [] t = "hitl" -> {"HITL_REQUESTS_TABLE_NAME", "HITL_RUNTIME_ID"}
                      [] OTHER -> {}
<1>1. loom \notin GatewayEnv(c)
  BY DEF GatewayEnv
<1>2. \A t : loom \notin Of(t)
  OBVIOUS
<1>3. loom \notin UNION {Of(t) : t \in c.tools}
  <2> HIDE DEF Of
  <2> QED BY <1>2
<1> QED BY <1>1, <1>3 DEF RuntimeEnv

LEMMA GeneratedDenies ==
  ASSUME GeneratedInv, DenyTool
  PROVE  GeneratedInv'
<1>1. /\ phase = "answered" /\ phase' \in {"denied", "raised"}
      /\ "LOOM_APPROVAL_POLICIES" \in environ /\ \E a \in text.agents : a.hooked
      /\ UNCHANGED <<canvas, text, bound, environ>>
  BY DEF DenyTool
<1>2. Delivered(text, canvas) /\ environ = RuntimeEnv(canvas)
  BY <1>1 DEF GeneratedInv
<1>3. "hitl" \in canvas.tools
  BY <1>1, <1>2 DEF Delivered
<1>4. canvas.policies
  BY <1>1, <1>2, PoliciesOnly
<1>5. /\ Delivered(text, canvas)' /\ (BindsOf(text.parts))' = BindsOf(text.parts)
      /\ RuntimeEnv(canvas)' = RuntimeEnv(canvas)
  BY <1>1, <1>2
<1> QED BY <1>1, <1>2, <1>3, <1>4, <1>5 DEF GeneratedInv, Loaded

LEMMA GeneratedStep == GeneratedInv /\ [NextAgent]_agentVars => GeneratedInv'
<1> SUFFICES ASSUME GeneratedInv, [NextAgent]_agentVars PROVE GeneratedInv'
  OBVIOUS
<1>1. CASE UNCHANGED agentVars
  <2>1. UNCHANGED <<canvas, text, phase, bound, environ>>
    BY <1>1 DEF agentVars
  <2>2. Delivered(text, canvas)' = Delivered(text, canvas)
        /\ (BindsOf(text.parts))' = BindsOf(text.parts)
        /\ RuntimeEnv(canvas)' = RuntimeEnv(canvas)
        /\ Text(<< >>, {}, {})' = Text(<< >>, {}, {})
    BY <2>1
  <2> QED BY <2>1, <2>2 DEF GeneratedInv
<1>2. CASE Configure
  <2>1. /\ phase = "shipped" /\ phase' = "configured" /\ environ' = RuntimeEnv(canvas)
        /\ UNCHANGED <<canvas, text, bound>>
    BY <1>2 DEF Configure
  <2>2. Delivered(text, canvas)' = Delivered(text, canvas) /\ RuntimeEnv(canvas)' = RuntimeEnv(canvas)
    BY <2>1
  <2> QED BY <2>1, <2>2 DEF GeneratedInv, Loaded
<1> QED BY <1>1, <1>2, GeneratedWrites, GeneratedLoads, GeneratedAnswers, GeneratedDenies
       DEF NextAgent

\* From any canvas, every step of the pipeline and of the runtime keeps it: every
\* host of generate_agent_code and every combination of its post-processors.
THEOREM GeneratedInvariant == AgentSpec => []GeneratedInv
  BY GeneratedInit, GeneratedStep, PTL DEF AgentSpec

\* The canvas, the phase and the names of the module have their types.
THEOREM GeneratedTypes == AgentSpec => []AgentTypeOK
<1>1. GeneratedInv => AgentTypeOK
  <2> SUFFICES ASSUME GeneratedInv PROVE AgentTypeOK
    OBVIOUS
  <2>1. BindsOf(text.parts) \subseteq UNION {part.binds : part \in Range(text.parts)}
    BY DEF BindsOf, Range
  <2> QED BY <2>1, CanvasAssumption DEF GeneratedInv, Loaded, AgentTypeOK
<1> QED BY <1>1, GeneratedInvariant, PTL

\* Whatever is connected, the written program loads and answers: no name is
\* looked up before the part that binds it (code_generator.py's hosts and the
\* text its post-processors insert).  A denied tool call raises for want of a
\* name with human approval and a policy alone.
THEOREM ProgramsRun == AgentSpec => []GeneratedRuns
<1>1. GeneratedInv => GeneratedRuns
  BY DEF GeneratedInv, GeneratedRuns, Loaded
<1> QED BY <1>1, GeneratedInvariant, PTL

LEMMA EnvironmentHas ==
  ASSUME NEW c
  PROVE  /\ "hitl" \in c.tools => "HITL_RUNTIME_ID" \in RuntimeEnv(c)
         /\ "knowledge_base" \in c.tools => "KB_ID" \in RuntimeEnv(c)
         /\ c.gateway_made =>
              /\ "GATEWAY_URL" \in RuntimeEnv(c)
              /\ RuntimeEnv(c) \cap {"GATEWAY_API_KEY", "COGNITO_CLIENT_ID", "OAUTH_CLIENT_ID"} # {}
<1>1. GatewayEnv(c) \subseteq RuntimeEnv(c)
  BY DEF RuntimeEnv
<1>2. c.gateway_made =>
        /\ "GATEWAY_URL" \in GatewayEnv(c)
        /\ GatewayEnv(c) \cap {"GATEWAY_API_KEY", "COGNITO_CLIENT_ID", "OAUTH_CLIENT_ID"} # {}
  BY DEF GatewayEnv
<1>3. "hitl" \in c.tools => "HITL_RUNTIME_ID" \in RuntimeEnv(c)
  BY DEF RuntimeEnv
<1>4. "knowledge_base" \in c.tools => "KB_ID" \in RuntimeEnv(c)
  BY DEF RuntimeEnv
<1> QED BY <1>1, <1>2, <1>3, <1>4

\* What the canvas connects is in effect in the program that serves: guardrail
\* arguments, approval hooks, the retrieval tool and the gateway's tools, in the
\* text and in the environment.
THEOREM ConnectedHolds == AgentSpec => []ConnectedIsInEffect
<1>1. GeneratedInv => ConnectedIsInEffect
  <2> SUFFICES ASSUME GeneratedInv, phase = "answered" PROVE ConnectedIsInEffect
    BY DEF ConnectedIsInEffect, CallsGuarded, EveryAgentIsWired
  <2>1. Delivered(text, canvas) /\ environ = RuntimeEnv(canvas)
    BY DEF GeneratedInv
  <2>2. CallsGuarded
    BY <2>1 DEF Delivered, CallsGuarded, Unreached
  <2>3. HasMark(text, "discovery") => "discovery" \in MarksOf(text.parts)
    BY DEF HasMark, MarksOf
  <2>4. Retrieves(canvas) => "knowledge_base" \in canvas.tools
    BY DEF Retrieves, WithKb
  <2>5. EveryAgentIsWired
    BY <2>1, <2>3, <2>4, EnvironmentHas DEF Delivered, EveryAgentIsWired
  <2> QED BY <2>2, <2>5 DEF ConnectedIsInEffect
<1> QED BY <1>1, GeneratedInvariant, PTL
=============================================================================
