-------------------------- MODULE ClockChip_proofs --------------------------
(***************************************************************************)
(* ClockChip for any files, any chip and any number of failures: the       *)
(* parser hands over settings that the file gives, and all of them, in     *)
(* order, when the file is well made; no write lands on another page than  *)
(* that of its setting; and a configuration that reported nothing has      *)
(* written all settings, to a chip that was reset unless that failed.      *)
(***************************************************************************)
EXTENDS ClockChip, FiniteSetTheorems, WellFoundedInduction, TLAPS

(* Each set of numbers has a least one, and induction over Nat follows.    *)
LEMMA Least ==
  ASSUME NEW S \in SUBSET Nat, S # {}
  PROVE  \E m \in S : \A k \in S : m <= k
<1> DEFINE R == OpToRel(<, Nat)
<1>1. IsWellFoundedOn(R, Nat)
  BY NatLessThanWellFounded
<1> HIDE DEF R
<1>2. PICK m \in S : \A k \in S : ~ (<<k, m>> \in R)
  BY <1>1, WFMin
<1>3. \A k \in Nat : k < m => <<k, m>> \in R
  BY DEF OpToRel, R
<1>4. \A k \in S : ~ (k < m)
  BY <1>2, <1>3
<1> QED
  BY <1>4

LEMMA Induction ==
  ASSUME NEW S, 0 \in S, \A n \in Nat : n \in S => n + 1 \in S
  PROVE  Nat \subseteq S
<1> SUFFICES ASSUME NEW n \in Nat, n \notin S PROVE FALSE
  OBVIOUS
<1>1. PICK m \in Nat \ S : \A k \in Nat \ S : m <= k
  BY Least
<1> QED
  BY <1>1, m # 0, m - 1 \in Nat, m - 1 \in S

(* A finite set of numbers has a greatest one.                             *)
LEMMA Greatest ==
  ASSUME NEW n \in Nat, NEW D \in SUBSET (1 .. n), D # {}
  PROVE  \E m \in D : \A k \in D : k <= m
<1> DEFINE U == {u \in Nat : \A k \in D : k <= u}
<1>1. n \in U
  OBVIOUS
<1>2. PICK u \in U : \A v \in U : u <= v
  BY <1>1, Least
<1>3. u \in D
  <2> SUFFICES ASSUME u \notin D PROVE FALSE
    OBVIOUS
  <2>1. \A k \in D : k <= u - 1 /\ k >= 1
    <3> SUFFICES ASSUME NEW k \in D PROVE k <= u - 1 /\ k >= 1
      OBVIOUS
    <3>1. k <= u /\ k # u /\ k \in 1 .. n /\ u \in Nat
      BY <1>2
    <3> QED
      BY <3>1
  <2>2. u - 1 \in Nat
    <3>1. PICK k \in D : TRUE
      OBVIOUS
    <3>2. 1 <= k /\ k <= u - 1 /\ k \in Nat /\ u \in Nat
      BY <2>1, <3>1, <1>2
    <3> QED
      BY <3>2
  <2>3. u - 1 \in U
    BY <2>1, <2>2
  <2> QED
    BY <2>3, <1>2
<1> QED
  BY <1>2, <1>3

LEMMA LinesCounted ==
  ASSUME NEW n \in Nat, NEW D \in SUBSET (1 .. n)
  PROVE  IsFiniteSet(D) /\ Cardinality(D) \in Nat
<1>1. \A d \in D : d <= n
  OBVIOUS
<1> QED
  BY <1>1, FS_BoundedSetOfNaturals, FS_CardinalityType

---------------------------------------------------------------------------
(* A set of numbers of lines can be put in order.                          *)
Ordered(g, n, D) ==
  g \in [1 .. n -> D] /\ \A i, j \in 1 .. n : i < j => g[i] < g[j]

LEMMA CanBeOrdered ==
  ASSUME NEW n \in Nat, NEW D \in SUBSET (1 .. n)
  PROVE  \E g : Ordered(g, Cardinality(D), D)
<1> DEFINE S == {k \in Nat : \A E \in SUBSET (1 .. n) : Cardinality(E) = k => \E g : Ordered(g, k, E)}
<1>0. \A E \in SUBSET (1 .. n) : IsFiniteSet(E) /\ Cardinality(E) \in Nat
  BY LinesCounted
<1>1. 0 \in S
  <2> SUFFICES ASSUME NEW E \in SUBSET (1 .. n) PROVE \E g : Ordered(g, 0, E)
    OBVIOUS
  <2>1. Ordered([i \in 1 .. 0 |-> 0], 0, E)
    BY DEF Ordered
  <2> QED
    BY <2>1
<1>2. ASSUME NEW k \in Nat, k \in S PROVE k + 1 \in S
  <2> SUFFICES ASSUME NEW E \in SUBSET (1 .. n), Cardinality(E) = k + 1
               PROVE  \E g : Ordered(g, k + 1, E)
    OBVIOUS
  <2>1. E # {}
    BY FS_EmptySet
  <2>2. PICK m \in E : \A e \in E : e <= m
    BY <2>1, Greatest
  <2>3. Cardinality(E \ {m}) = k
    BY <1>0, <2>2, FS_RemoveElement
  <2>4. PICK g : Ordered(g, k, E \ {m})
    BY <1>2, <2>3
  <2> DEFINE h == [i \in 1 .. k + 1 |-> IF i = k + 1 THEN m ELSE g[i]]
  <2>5. h \in [1 .. k + 1 -> E]
    BY <2>2, <2>4 DEF Ordered
  <2>6. ASSUME NEW i \in 1 .. k + 1, NEW j \in 1 .. k + 1, i < j PROVE h[i] < h[j]
    <3>1. i \in 1 .. k /\ g[i] \in E \ {m} /\ h[i] = g[i]
      BY <2>4, <2>6 DEF Ordered
    <3>2. CASE j = k + 1
      <4>1. h[j] = m
        BY <3>2
      <4>2. \A e \in E \ {m} : e # m /\ e <= m /\ e \in Nat /\ m \in Nat
        BY <2>2
      <4> QED
        <5>1. g[i] \in E \ {m}
          BY <3>1
        <5>2. g[i] # m /\ g[i] <= m /\ g[i] \in Nat /\ m \in Nat
          BY <4>2, <5>1
        <5>3. g[i] < m
          BY <5>2
        <5> QED
          BY <3>1, <4>1, <5>3
    <3>3. CASE j # k + 1
      BY <2>4, <2>6, <3>1, <3>3 DEF Ordered
    <3> QED
      BY <3>2, <3>3
  <2>7. Ordered(h, k + 1, E)
    BY <2>5, <2>6 DEF Ordered
  <2> QED
    BY <2>7
<1>3. Nat \subseteq S
  <2> HIDE DEF S
  <2> QED
    BY <1>1, <1>2, Induction
<1> QED
  BY <1>0, <1>3

(* What is listed is the settings of the lines, each of them from D.       *)
LEMMA SettingsListed ==
  ASSUME NEW lines, NEW n \in Nat, NEW D \in SUBSET (1 .. n)
  PROVE  SettingsOf(lines, D) \in Seq({lines[i].setting : i \in D})
<1> DEFINE c == Cardinality(D)
<1>1. c \in Nat
  BY LinesCounted
<1>2. Ordered(InOrder(D), c, D)
  <2>1. \E g \in [1 .. c -> D] : \A i, j \in DOMAIN g : i < j => g[i] < g[j]
    BY CanBeOrdered DEF Ordered
  <2>2. /\ InOrder(D) \in [1 .. c -> D]
        /\ \A i, j \in DOMAIN InOrder(D) : i < j => InOrder(D)[i] < InOrder(D)[j]
    BY <2>1 DEF InOrder
  <2> QED
    BY <2>2 DEF Ordered
<1> HIDE DEF c
<1>3. SettingsOf(lines, D) = [k \in 1 .. c |-> lines[InOrder(D)[k]].setting]
  BY DEF SettingsOf, c
<1>4. \A k \in 1 .. c : InOrder(D)[k] \in D
  BY <1>2 DEF Ordered
<1>5. SettingsOf(lines, D) \in [1 .. c -> {lines[i].setting : i \in D}]
  BY <1>3, <1>4
<1> QED
  BY <1>1, <1>5

---------------------------------------------------------------------------
(* What the parser reads: from any line after the header on, settings of   *)
(* data lines, and it goes on after the header.                            *)
FileSettings(f) == {f.lines[i].setting : i \in DataLines(f.lines)}

LEMMA FileLines ==
  ASSUME NEW f \in Files
  PROVE  /\ f.lines \in Seq(Line) /\ Len(f.lines) \in Nat /\ DOMAIN f.lines = 1 .. Len(f.lines)
         /\ \A i \in 1 .. Len(f.lines) : f.lines[i].kind \in Kinds
         /\ \A i, j \in Headers(f) : i = j
<1>1. f.lines \in Seq(Line) /\ \A i, j \in Headers(f) : i = j
  BY ChipAssumption
<1>2. \A i \in 1 .. Len(f.lines) : f.lines[i] \in Line
  BY <1>1
<1>3. \A l \in Line : l.kind \in Kinds
  BY DEF Line
<1> QED
  BY <1>1, <1>2, <1>3

LEMMA LongerList ==
  ASSUME NEW A, NEW B, A \subseteq B, NEW s \in Seq(A)
  PROVE  s \in Seq(B)
OBVIOUS

Behind(f, n) == n \in Nat \ {0} /\ \A i \in Headers(f) : i < n

LEMMA SectionReads ==
  ASSUME NEW f \in Files, NEW tag, NEW from, Behind(f, from)
  PROVE  /\ Section(f, tag, from).settings \in Seq(FileSettings(f))
         /\ Behind(f, Section(f, tag, from).next)
<1> DEFINE n == Len(f.lines)
           stops == {i \in from .. n : Stops(f, tag, from, i)}
           stop == IF stops = {} THEN n + 1 ELSE CHOOSE i \in stops : \A j \in stops : i <= j
           given == {i \in from .. stop - 1 : ~IsComment(f.lines[i]) /\ f.lines[i].kind # "blank"}
<1>1. Section(f, tag, from).settings = SettingsOf(f.lines, given) /\ Section(f, tag, from).next = stop + 1
  BY DEF Section
<1>2. from \in Nat \ {0} /\ n \in Nat /\ \A i \in Headers(f) : i \in 1 .. n /\ i < from
  BY FileLines DEF Behind, Headers
<1> HIDE DEF n
<1>3. stops # {} => stop \in stops
  <2> SUFFICES ASSUME stops # {} PROVE stop \in stops
    OBVIOUS
  <2>1. stops \in SUBSET Nat
    BY <1>2
  <2>2. \E i \in stops : \A j \in stops : i <= j
    <3> HIDE DEF stops
    <3> QED
      BY <2>1, Least
  <2>3. stop = CHOOSE i \in stops : \A j \in stops : i <= j
    OBVIOUS
  <2> HIDE DEF stops, stop
  <2> QED
    BY <2>2, <2>3
<1>4. stop \in Nat /\ (stop = n + 1 \/ stop \in from .. n)
  <2>1. stops = {} => stop = n + 1
    OBVIOUS
  <2>2. stops \subseteq from .. n
    OBVIOUS
  <2>3. \A i \in from .. n : i \in Nat
    BY <1>2
  <2> HIDE DEF stops, stop
  <2>4. CASE stops = {}
    BY <1>2, <2>1, <2>4
  <2>5. CASE stops # {}
    BY <1>3, <2>2, <2>3, <2>5
  <2> QED
    BY <2>4, <2>5
<1> HIDE DEF stop
<1>5. Behind(f, stop + 1)
  BY <1>2, <1>4 DEF Behind
<1>6. given \in SUBSET (1 .. n) /\ given \subseteq from .. n
  BY <1>2, <1>4
<1>7. given \subseteq DataLines(f.lines)
  <2> SUFFICES ASSUME NEW i \in given PROVE i \in DOMAIN f.lines /\ f.lines[i].kind = "data"
    BY DEF DataLines
  <2>1. i \in 1 .. n /\ i >= from /\ ~IsComment(f.lines[i]) /\ f.lines[i].kind # "blank"
    BY <1>2, <1>6
  <2>2. i \in DOMAIN f.lines /\ f.lines[i].kind \in Kinds
    BY <2>1, FileLines DEF n
  <2>3. f.lines[i].kind # "header"
    BY <1>2, <2>1, <2>2 DEF Headers
  <2> QED
    BY <2>1, <2>2, <2>3 DEF IsComment, Kinds
<1> HIDE DEF given
<1>8. SettingsOf(f.lines, given) \in Seq({f.lines[i].setting : i \in given})
  BY <1>2, <1>6, SettingsListed
<1>9. {f.lines[i].setting : i \in given} \subseteq FileSettings(f)
  BY <1>7 DEF FileSettings
<1> QED
  BY <1>1, <1>5, <1>8, <1>9, LongerList

LEMMA SeeksBehind ==
  ASSUME NEW f \in Files
  PROVE  Behind(f, SeekHeader(f).next)
<1>1. /\ Len(f.lines) \in Nat /\ Headers(f) \subseteq 1 .. Len(f.lines)
      /\ \A i, j \in Headers(f) : i = j
  BY FileLines DEF Headers
<1>2. CASE Headers(f) = {}
  BY <1>1, <1>2 DEF SeekHeader, Behind
<1>3. CASE Headers(f) # {}
  <2>1. PICK h : h \in Headers(f)
    BY <1>3
  <2>2. (CHOOSE i \in Headers(f) : \A j \in Headers(f) : i <= j) = h
    <3>1. h <= h
      BY <1>1, <2>1
    <3> QED
      BY <1>1, <2>1, <3>1
  <2>3. SeekHeader(f).next = 1 + h
    BY <1>3, <2>2 DEF SeekHeader
  <2> QED
    BY <1>1, <2>1, <2>3 DEF Behind
<1> QED
  BY <1>2, <1>3

LEMMA ConfigReads ==
  ASSUME NEW f \in Files
  PROVE  ReadConfig(f) \in [accepted : BOOLEAN, preamble : Seq(FileSettings(f)),
                            rest : Seq(FileSettings(f))]
<1> DEFINE head == SeekHeader(f)
           pre == Section(f, "preamble", head.next)
           regis == Section(f, "registers", pre.next)
           post == Section(f, "postamble", regis.next)
           whole == Section(f, NoTag, head.next)
<1>1. Behind(f, head.next)
  BY SeeksBehind
<1>2. pre.settings \in Seq(FileSettings(f)) /\ Behind(f, pre.next)
  BY <1>1, SectionReads
<1>3. regis.settings \in Seq(FileSettings(f)) /\ Behind(f, regis.next)
  BY <1>2, SectionReads
<1>4. post.settings \in Seq(FileSettings(f))
  BY <1>3, SectionReads
<1>5. whole.settings \in Seq(FileSettings(f))
  BY <1>1, SectionReads
<1>6. regis.settings \o post.settings \in Seq(FileSettings(f)) /\ <<>> \in Seq(FileSettings(f))
  BY <1>3, <1>4
<1>7. ReadConfig(f) \in {Refused,
                         [accepted |-> TRUE, preamble |-> <<>>, rest |-> whole.settings],
                         [accepted |-> TRUE, preamble |-> pre.settings,
                          rest |-> regis.settings \o post.settings]}
  BY DEF ReadConfig, Untagged
<1> HIDE DEF head, pre, regis, post, whole
<1> DEFINE A == Seq(FileSettings(f))
<1>8. <<>> \in A /\ whole.settings \in A /\ pre.settings \in A /\ regis.settings \o post.settings \in A
  BY <1>2, <1>5, <1>6
<1> HIDE DEF A
<1>9. ReadConfig(f) \in [accepted : BOOLEAN, preamble : A, rest : A]
  <2>1. CASE ReadConfig(f) = Refused
    BY <1>8, <2>1 DEF Refused
  <2>2. CASE ReadConfig(f) = [accepted |-> TRUE, preamble |-> <<>>, rest |-> whole.settings]
    BY <1>8, <2>2
  <2>3. CASE ReadConfig(f) = [accepted |-> TRUE, preamble |-> pre.settings,
                              rest |-> regis.settings \o post.settings]
    BY <1>8, <2>3
  <2> QED
    BY <1>7, <2>1, <2>2, <2>3
<1> QED
  BY <1>9 DEF A

---------------------------------------------------------------------------
(* The invariant.  The first k settings leave v in register r of page p;   *)
(* one they do not name is as the reset left it, if there was one.         *)
Leaves(k, p, r, v) ==
  LET at == {i \in 1 .. k : Uploads[i].page = p /\ Uploads[i].reg = r}
  IN  \/ at = {} /\ (swallowed \/ v = 0)
      \/ \E i \in at : v = Uploads[i].val /\ \A j \in at : j <= i

Configured(k) == \A p \in Pages, r \in Regs : Leaves(k, p, r, regs[p][r])

PlanInv ==
  plan \in [accepted : BOOLEAN, preamble : Seq(GivenByFiles), rest : Seq(GivenByFiles)]

(* While nothing has been reported, the registers are as the settings      *)
(* before the one at hand leave them; the page register is right whenever  *)
(* a register is accessed.                                                 *)
UploadInv ==
  /\ pc = "file" => job = 0
  /\ pc # "idle" => out = "none"
  /\ pc = "access" => page = Target.page
  /\ pc \in {"page", "switch", "access"} /\ job >= 1 /\ ~reported => Configured(job - 1)
  /\ out = "ok" /\ ~reported => Configured(Len(Uploads))

IInv == TypeOK /\ PlanInv /\ NoStrayWrite /\ UploadInv

LEMMA GivenAreSettings == GivenByFiles \subseteq Setting
<1> SUFFICES ASSUME NEW f \in Files, NEW i \in DataLines(f.lines)
             PROVE  f.lines[i].setting \in Setting
  BY DEF GivenByFiles
<1>1. f.lines \in Seq(Line) /\ i \in DOMAIN f.lines
  BY FileLines DEF DataLines
<1>2. f.lines[i] \in Line
  BY <1>1
<1> QED
  BY <1>2 DEF Line

LEMMA PlansAreGiven ==
  ASSUME NEW f \in Files
  PROVE  ReadConfig(f) \in [accepted : BOOLEAN, preamble : Seq(GivenByFiles), rest : Seq(GivenByFiles)]
<1>1. FileSettings(f) \subseteq GivenByFiles
  BY DEF FileSettings, GivenByFiles
<1>2. \A s \in Seq(FileSettings(f)) : s \in Seq(GivenByFiles)
  BY <1>1, LongerList
<1> DEFINE A == Seq(FileSettings(f))
           B == Seq(GivenByFiles)
<1>3. A \subseteq B /\ ReadConfig(f) \in [accepted : BOOLEAN, preamble : A, rest : A]
  BY <1>2, ConfigReads
<1> HIDE DEF A, B
<1>4. ReadConfig(f) \in [accepted : BOOLEAN, preamble : B, rest : B]
  BY <1>3
<1> QED
  BY <1>4 DEF B

LEMMA PlanUploads ==
  ASSUME NEW x \in [accepted : BOOLEAN, preamble : Seq(GivenByFiles), rest : Seq(GivenByFiles)]
  PROVE  x.preamble \o x.rest \in Seq(GivenByFiles)
<1> DEFINE B == Seq(GivenByFiles)
<1>1. x.preamble \in B /\ x.rest \in B
  <2>1. x \in [accepted : BOOLEAN, preamble : B, rest : B]
    OBVIOUS
  <2> HIDE DEF B
  <2> QED
    BY <2>1
<1> QED
  BY <1>1

LEMMA UploadsAreGiven ==
  ASSUME PlanInv
  PROVE  /\ Uploads \in Seq(GivenByFiles) /\ Len(Uploads) \in Nat /\ IdJob = Len(Uploads) + 1
         /\ \A i \in 1 .. Len(Uploads) : Uploads[i] \in GivenByFiles /\ Uploads[i] \in Setting
<1>1. Uploads \in Seq(GivenByFiles)
  BY PlanUploads DEF PlanInv, Uploads
<1> QED
  BY <1>1, GivenAreSettings DEF IdJob

(* What a write does, when it reaches the chip.                            *)
LEMMA WriteLands ==
  ASSUME IInv, pc = "access", job # IdJob, Written, plan' = plan
  PROVE  /\ page' \in Pages /\ regs' \in [Pages -> [Regs -> Values]] /\ NoStrayWrite'
         /\ swallowed' = swallowed =>
              \A k \in Nat : k = job /\ (job = 0 \/ Configured(job - 1)) => Configured(k)'
<1>1. /\ job \in 0 .. IdJob /\ page \in Pages /\ regs \in [Pages -> [Regs -> Values]]
      /\ page = Target.page
  BY DEF IInv, TypeOK, UploadInv
<1>2. /\ IdJob = Len(Uploads) + 1 /\ Len(Uploads) \in Nat
      /\ \A i \in 1 .. Len(Uploads) : Uploads[i] \in GivenByFiles /\ Uploads[i] \in Setting
  BY UploadsAreGiven DEF IInv
<1>3. Uploads' = Uploads /\ GivenByFiles' = GivenByFiles
  BY DEF Uploads
<1>4. CASE job = 0
  <2>1. regs' = Defaults /\ page' = 0
    BY <1>4 DEF Written
  <2>2. regs' \in [Pages -> [Regs -> Values]] /\ page' \in Pages
    BY <2>1, ChipAssumption DEF Defaults
  <2>3. \A p \in Pages, r \in Regs : regs'[p][r] = 0
    BY <2>1 DEF Defaults
  <2>4. Configured(0)'
    BY <2>3 DEF Configured, Leaves
  <2>5. NoStrayWrite'
    BY <2>3 DEF NoStrayWrite
  <2> QED
    BY <1>4, <2>2, <2>4, <2>5
<1>5. CASE job # 0
  <2> DEFINE u == Uploads[job]
  <2>1. job \in 1 .. Len(Uploads) /\ job \in Nat
    BY <1>1, <1>2, <1>5
  <2>2. u \in GivenByFiles /\ u.page \in Pages /\ u.reg \in Regs /\ u.val \in Values
        /\ u = [page |-> u.page, reg |-> u.reg, val |-> u.val]
    BY <1>2, <2>1 DEF Setting
  <2>3. Target = [page |-> u.page, reg |-> u.reg]
    BY <1>5, <1>2, <2>1 DEF Target
  <2>4. regs' = [regs EXCEPT ![u.page][u.reg] = u.val] /\ page' = page
    BY <1>1, <1>5, <2>3 DEF Written
  <2> HIDE DEF u
  <2>5. regs' \in [Pages -> [Regs -> Values]]
    BY <1>1, <2>2, <2>4
  <2>6. \A p \in Pages, r \in Regs :
          regs'[p][r] = IF p = u.page /\ r = u.reg THEN u.val ELSE regs[p][r]
    BY <1>1, <2>2, <2>4
  <2>7. NoStrayWrite'
    BY <2>2, <2>6 DEF NoStrayWrite, IInv
  <2>8. ASSUME Configured(job - 1), NEW p \in Pages, NEW r \in Regs
        PROVE  Leaves(job, p, r, regs'[p][r])
    <3> DEFINE before == {i \in 1 .. job - 1 : Uploads[i].page = p /\ Uploads[i].reg = r}
               now == {i \in 1 .. job : Uploads[i].page = p /\ Uploads[i].reg = r}
    <3>1. 1 .. job = (1 .. job - 1) \cup {job}
      BY <2>1
    <3>2. CASE p = u.page /\ r = u.reg
      <4>1. job \in now /\ regs'[p][r] = Uploads[job].val /\ \A j \in now : j <= job
        BY <2>1, <2>6, <3>2 DEF u
      <4> QED
        BY <4>1 DEF Leaves
    <3>3. CASE ~(p = u.page /\ r = u.reg)
      <4>1. now = before /\ regs'[p][r] = regs[p][r]
        BY <2>6, <3>1, <3>3 DEF u
      <4>2. Leaves(job - 1, p, r, regs[p][r])
        BY <2>8 DEF Configured
      <4> QED
        BY <4>1, <4>2 DEF Leaves
    <3> QED
      BY <3>2, <3>3
  <2>9. Configured(job - 1) => \A p \in Pages, r \in Regs : Leaves(job, p, r, regs'[p][r])
    BY <2>8
  <2>10. ASSUME swallowed' = swallowed, NEW k \in Nat, k = job, Configured(job - 1)
         PROVE  Configured(k)'
    <3>1. \A p \in Pages, r \in Regs : Leaves(k, p, r, regs'[p][r])
      BY <2>9, <2>10
    <3> QED
      BY <1>3, <2>10, <3>1 DEF Configured, Leaves
  <2> QED
    BY <1>1, <1>5, <2>4, <2>5, <2>7, <2>10
<1> QED
  BY <1>4, <1>5

(* Nothing else touches the registers, or what is uploaded to them.        *)
LEMMA SameUploads ==
  ASSUME plan' = plan
  PROVE  /\ Uploads' = Uploads /\ IdJob' = IdJob
         /\ job' = job => Target' = Target
         /\ PlanInv => PlanInv'
BY DEF Uploads, IdJob, Target, PlanInv

LEMMA SameRegisters ==
  ASSUME plan' = plan, regs' = regs
  PROVE  /\ swallowed' = swallowed => \A k : Configured(k)' <=> Configured(k)
         /\ NoStrayWrite => NoStrayWrite'
<1>1. Uploads' = Uploads
  BY SameUploads
<1> QED
  BY <1>1 DEF Configured, Leaves, NoStrayWrite

LEMMA TargetTyped ==
  ASSUME PlanInv, job \in 0 .. IdJob
  PROVE  Target.page \in Pages
<1>1. /\ IdJob = Len(Uploads) + 1 /\ Len(Uploads) \in Nat
      /\ \A i \in 1 .. Len(Uploads) : Uploads[i] \in Setting
  BY UploadsAreGiven
<1>2. 0 \in Pages /\ IdAt.page \in Pages
  BY ChipAssumption
<1>3. job # 0 /\ job # IdJob => job \in 1 .. Len(Uploads) /\ Uploads[job].page \in Pages
  BY <1>1 DEF Setting
<1> QED
  BY <1>2, <1>3 DEF Target

LEMMA CallKeeps ==
  ASSUME IInv, NEW f \in Files, Call(f)
  PROVE  IInv'
<1>1. /\ pc' = "file" /\ file' = f /\ job' = 0 /\ attempt' = 0 /\ reported' = FALSE /\ out' = "none"
      /\ plan' = plan /\ seen' = seen /\ page' = page /\ regs' = regs /\ failures' = failures
  BY DEF Call
<1>2. PlanInv' /\ NoStrayWrite' /\ IdJob' \in Nat
  BY <1>1, SameUploads, SameRegisters, UploadsAreGiven DEF IInv
<1>3. UploadInv'
  BY <1>1 DEF UploadInv
<1>4. TypeOK'
  BY <1>1, <1>2 DEF IInv, TypeOK, MaxAttempts
<1> QED
  BY <1>2, <1>3, <1>4 DEF IInv

LEMMA ReadFileKeeps ==
  ASSUME IInv, ReadFile
  PROVE  IInv'
<1>1. /\ pc = "file" /\ plan' = ReadConfig(file) /\ file' = file /\ job' = job /\ attempt' = attempt
      /\ seen' = seen /\ reported' = reported /\ page' = page /\ regs' = regs /\ failures' = failures
      /\ job = 0 /\ out = "none" /\ file \in Files
      /\ \/ pc' = "page" /\ out' = out
         \/ pc' = "idle" /\ out' = "incomplete"
  BY DEF ReadFile, IInv, UploadInv, TypeOK
<1>2. PlanInv'
  BY <1>1, PlansAreGiven DEF PlanInv
<1>3. IdJob' \in Nat
  <2>1. Uploads' \in Seq(GivenByFiles)
    BY <1>2, PlanUploads DEF PlanInv, Uploads
  <2> QED
    BY <2>1 DEF IdJob
<1>4. NoStrayWrite'
  BY <1>1 DEF IInv, NoStrayWrite
<1>5. UploadInv'
  BY <1>1 DEF UploadInv
<1>6. TypeOK'
  BY <1>1, <1>3 DEF IInv, TypeOK
<1> QED
  BY <1>2, <1>4, <1>5, <1>6 DEF IInv

(* A step of an access that does not write the register.                   *)
LEMMA PageKeeps ==
  ASSUME IInv, ReadPage \/ SwitchPage
  PROVE  IInv'
<1>1. /\ file' = file /\ plan' = plan /\ job' = job /\ attempt' = attempt /\ reported' = reported
      /\ swallowed' = swallowed
      /\ out' = out /\ regs' = regs /\ failures' = failures /\ pc \in {"page", "switch"}
      /\ pc' \in {"access", "switch"}
      /\ pc' = "access" => page' = Target.page
      /\ page' \in {page, Target.page} /\ seen' \in {seen, page}
  BY DEF ReadPage, SwitchPage
<1>2. /\ PlanInv' /\ NoStrayWrite' /\ IdJob' = IdJob /\ Uploads' = Uploads /\ Target' = Target
      /\ \A k : Configured(k)' <=> Configured(k)
  BY <1>1, SameUploads, SameRegisters DEF IInv
<1>3. Target.page \in Pages
  BY TargetTyped DEF IInv, TypeOK
<1>4. UploadInv'
  <2>1. pc' # "file" /\ out' = "none" /\ (pc' = "access" => page' = Target'.page)
    BY <1>1, <1>2 DEF IInv, UploadInv
  <2>2. job' >= 1 /\ ~reported' => Configured(job - 1)'
    BY <1>1, <1>2 DEF IInv, UploadInv
  <2> QED
    BY <2>1, <2>2 DEF UploadInv
<1>5. TypeOK'
  BY <1>1, <1>2, <1>3 DEF IInv, TypeOK
<1> QED
  BY <1>2, <1>4, <1>5 DEF IInv

LEMMA WriteKeeps ==
  ASSUME IInv, Write
  PROVE  IInv'
<1>1. /\ pc = "access" /\ job # IdJob /\ Written /\ job' = job + 1 /\ attempt' = 0 /\ pc' = "page"
      /\ file' = file /\ plan' = plan /\ seen' = seen /\ reported' = reported /\ out' = out
      /\ failures' = failures /\ swallowed' = swallowed
  BY DEF Write, NextJob
<1>2. /\ page' \in Pages /\ regs' \in [Pages -> [Regs -> Values]] /\ NoStrayWrite'
      /\ \A k \in Nat : k = job /\ (job = 0 \/ Configured(job - 1)) => Configured(k)'
  BY <1>1, WriteLands
<1>3. PlanInv' /\ IdJob' = IdJob /\ IdJob \in Nat
  BY <1>1, SameUploads, UploadsAreGiven DEF IInv
<1>4. job \in Nat /\ job' \in 0 .. IdJob /\ job' - 1 = job
  BY <1>1, <1>3 DEF IInv, TypeOK
<1>5. UploadInv'
  <2>1. pc' # "file" /\ out' = "none"
    BY <1>1 DEF IInv, UploadInv
  <2>2. ~reported' => job = 0 \/ Configured(job - 1)
    BY <1>1, <1>4 DEF IInv, UploadInv
  <2>3. ~reported' => Configured(job - 1)'
    BY <1>2, <1>4, <2>2
  <2> QED
    BY <1>1, <2>1, <2>3 DEF UploadInv
<1>6. TypeOK'
  BY <1>1, <1>2, <1>3, <1>4 DEF IInv, TypeOK, MaxAttempts
<1> QED
  BY <1>2, <1>3, <1>5, <1>6 DEF IInv

LEMMA CheckIdKeeps ==
  ASSUME IInv, CheckId
  PROVE  IInv'
<1>1. /\ pc = "access" /\ job = IdJob /\ pc' = "idle" /\ out' = "ok" /\ (~reported' => ~reported)
      /\ file' = file /\ plan' = plan /\ job' = job /\ attempt' = attempt /\ seen' = seen
      /\ page' = page /\ regs' = regs /\ failures' = failures /\ swallowed' = swallowed
  BY DEF CheckId
<1>2. /\ PlanInv' /\ NoStrayWrite' /\ IdJob' = IdJob /\ Uploads' = Uploads
      /\ \A k : Configured(k)' <=> Configured(k)
  BY <1>1, SameUploads, SameRegisters DEF IInv
<1>3. IdJob = Len(Uploads) + 1 /\ Len(Uploads) \in Nat
  BY UploadsAreGiven DEF IInv
<1>4. ~reported => Configured(Len(Uploads))
  BY <1>1, <1>3 DEF IInv, UploadInv
<1>5. ~reported' => Configured(Len(Uploads))'
  BY <1>1, <1>2, <1>4
<1>6. UploadInv'
  BY <1>1, <1>5 DEF UploadInv
<1>7. TypeOK'
  BY <1>1, <1>2 DEF IInv, TypeOK
<1> QED
  BY <1>2, <1>6, <1>7 DEF IInv

(* Once an access has failed, an error is reported, or the call ends, or   *)
(* it was the reset.                                                       *)
LEMMA FailKeeps ==
  ASSUME IInv, Fail
  PROVE  IInv'
<1>1. /\ pc \in {"page", "switch", "access"} /\ failures < MaxFailures /\ failures' = failures + 1
      /\ file' = file /\ plan' = plan /\ seen' = seen
  BY DEF Fail
<1>2. /\ job \in Nat /\ job \in 0 .. IdJob /\ attempt \in 0 .. 1 /\ out = "none"
      /\ IdJob = Len(Uploads) + 1 /\ Len(Uploads) \in Nat
  BY <1>1, UploadsAreGiven DEF IInv, TypeOK, UploadInv, MaxAttempts
<1>3. PlanInv' /\ IdJob' = IdJob
  BY <1>1, SameUploads DEF IInv
<1>4. page' \in Pages /\ regs' \in [Pages -> [Regs -> Values]] /\ NoStrayWrite'
  <2>1. CASE UNCHANGED <<page, regs>>
    BY <1>1, <2>1, SameRegisters DEF IInv, TypeOK
  <2>2. CASE page' = Target.page /\ regs' = regs
    BY <1>1, <2>2, TargetTyped, SameRegisters DEF IInv, TypeOK
  <2>3. CASE pc = "access" /\ job # IdJob /\ Written
    BY <1>1, <2>3, WriteLands
  <2> QED
    BY <2>1, <2>2, <2>3 DEF Fail
<1>5. \/ /\ pc' = "page" /\ out' = "none" /\ reported' = TRUE
         /\ job' \in {job, job + 1} /\ job' \in 0 .. IdJob /\ attempt' \in 0 .. 1
      \/ pc' = "page" /\ out' = "none" /\ swallowed' = TRUE /\ job' = 1 /\ attempt' = 0
      \/ pc' = "idle" /\ out' = "failed" /\ job' = job /\ attempt' = attempt
  BY <1>2 DEF Fail, TryAgain, NextJob, MaxAttempts
<1>6. UploadInv'
  <2>1. swallowed' => Configured(0)'
    BY DEF Configured, Leaves
  <2>2. swallowed' /\ job' = 1 => (Configured(job - 1))'
    BY <2>1
  <2> QED
    BY <1>5, <2>2 DEF UploadInv
<1>7. failures' \in 0 .. MaxFailures
  BY <1>1, ChipAssumption DEF IInv, TypeOK
<1>8. TypeOK'
  BY <1>1, <1>2, <1>3, <1>4, <1>5, <1>7 DEF IInv, TypeOK, MaxAttempts
<1> QED
  BY <1>3, <1>4, <1>6, <1>8 DEF IInv

LEMMA StepKeeps ==
  ASSUME IInv, [Next]_vars
  PROVE  IInv'
<1>1. CASE UNCHANGED vars
  <2>1. /\ PlanInv' /\ NoStrayWrite' /\ IdJob' = IdJob /\ Uploads' = Uploads /\ Target' = Target
        /\ \A k : Configured(k)' <=> Configured(k)
    BY <1>1, SameUploads, SameRegisters DEF IInv, vars
  <2>2. (Configured(job - 1))' <=> Configured(job - 1)
    BY <1>1, <2>1 DEF vars
  <2>3. (Configured(Len(Uploads)))' <=> Configured(Len(Uploads))
    BY <2>1
  <2>4. UploadInv'
    BY <1>1, <2>1, <2>2, <2>3 DEF vars, IInv, UploadInv
  <2>5. TypeOK'
    BY <1>1, <2>1 DEF vars, IInv, TypeOK
  <2> QED
    BY <2>1, <2>4, <2>5 DEF IInv
<1> QED
  BY <1>1, CallKeeps, ReadFileKeeps, PageKeeps, WriteKeeps, CheckIdKeeps, FailKeeps DEF Next, Step

(* The inductive invariant: no setting is lost as long as nothing is       *)
(* reported.                                                               *)
THEOREM ChipInductive == Spec => []IInv
<1>1. Init => IInv
  <2> SUFFICES ASSUME Init PROVE IInv
    OBVIOUS
  <2>1. PlanInv
    <3> DEFINE B == Seq(GivenByFiles)
    <3>1. plan = Refused /\ <<>> \in B
      BY DEF Init
    <3> HIDE DEF B
    <3>2. plan \in [accepted : BOOLEAN, preamble : B, rest : B]
      BY <3>1 DEF Refused
    <3> QED
      BY <3>2 DEF PlanInv, B
  <2>2. IdJob \in Nat
    BY <2>1, UploadsAreGiven
  <2>3. regs \in [Pages -> [Regs -> Values]] /\ NoStrayWrite
    BY ChipAssumption DEF Init, Defaults, NoStrayWrite
  <2>4. UploadInv
    BY DEF Init, UploadInv
  <2>5. TypeOK
    BY <2>2, <2>3, ChipAssumption DEF Init, TypeOK, MaxAttempts
  <2> QED
    BY <2>1, <2>3, <2>4, <2>5 DEF IInv
<1>2. IInv /\ [Next]_vars => IInv'
  BY StepKeeps
<1> QED
  BY <1>1, <1>2, PTL DEF Spec

---------------------------------------------------------------------------
(* The last setting of a register is what Given finds.                     *)
LEMMA LeavesTheLast ==
  ASSUME PlanInv, NEW p, NEW r, NEW v, Leaves(Len(Uploads), p, r, v)
  PROVE  IF Given(Uploads, p, r) # {} THEN v \in Given(Uploads, p, r) ELSE swallowed \/ v = 0
<1> DEFINE D == DOMAIN Uploads
           M(i) == Uploads[i].page = p /\ Uploads[i].reg = r
<1>1. D = 1 .. Len(Uploads) /\ Len(Uploads) \in Nat
  BY UploadsAreGiven
<1>2. CASE {i \in D : M(i)} = {} /\ (swallowed \/ v = 0)
  BY <1>2 DEF Given
<1>3. ASSUME NEW i \in D, M(i), v = Uploads[i].val, \A j \in D : M(j) => j <= i
      PROVE  Given(Uploads, p, r) = {v}
  <2>1. \A j \in D : j > i => ~M(j)
    BY <1>1, <1>3
  <2>2. ASSUME NEW k \in D, M(k), \A j \in D : j > k => ~M(j) PROVE k = i
    BY <1>1, <1>3, <2>2
  <2> QED
    BY <1>3, <2>1, <2>2 DEF Given
<1>4. CASE \E i \in D : M(i) /\ v = Uploads[i].val /\ \A j \in D : M(j) => j <= i
  <2>1. Given(Uploads, p, r) = {v}
    BY <1>3, <1>4
  <2> QED
    BY <2>1
<1> QED
  BY <1>1, <1>2, <1>4 DEF Leaves

(* Whatever files are asked for and whatever fails in between: when a      *)
(* configuration returns and has reported nothing, every register has the  *)
(* last value its file gives it; or, where the file gives none, its reset  *)
(* value, if the reset has not failed unseen.                              *)
THEOREM UnreportedMeansConfigured == Spec => []UnreportedIsConfigured
<1>1. IInv => UnreportedIsConfigured
  BY LeavesTheLast DEF IInv, UploadInv, Configured, UnreportedIsConfigured
<1> QED
  BY <1>1, ChipInductive, PTL

(* However accesses fail and calls end half-way, a register has the value  *)
(* that some file gives it, or its reset value: the page is the right one  *)
(* at every write.                                                         *)
THEOREM WritesAreOnTheirPage == Spec => []NoStrayWrite
<1>1. IInv => NoStrayWrite
  BY DEF IInv
<1> QED
  BY <1>1, ChipInductive, PTL

(* The job at hand is one of the plan, the page selected one of the chip.  *)
THEOREM ChipTypeCorrect == Spec => []TypeOK
<1>1. IInv => TypeOK
  BY DEF IInv
<1> QED
  BY <1>1, ChipInductive, PTL

---------------------------------------------------------------------------
(* There is only one way to put a set of numbers in order.                 *)
Among(D, n) == D \in SUBSET (1 .. n)

LEMMA OrderReachesAll ==
  ASSUME NEW n \in Nat, NEW D \in SUBSET (1 .. n), NEW c, c = Cardinality(D), NEW g, Ordered(g, c, D)
  PROVE  \A d \in D : \E k \in 1 .. c : g[k] = d
<1> SUFFICES ASSUME NEW d \in D PROVE \E k \in 1 .. c : g[k] = d
  OBVIOUS
<1>1. IsFiniteSet(D) /\ c \in Nat
  BY LinesCounted
<1>2. g \in [1 .. c -> D] /\ \A i, j \in 1 .. c : i < j => g[i] < g[j]
  BY DEF Ordered
<1>3. IsFiniteSet(D \ {d}) /\ Cardinality(D \ {d}) = c - 1
  BY <1>1, FS_RemoveElement
<1>4. IsFiniteSet(1 .. c) /\ Cardinality(1 .. c) = c
  BY <1>1, FS_Interval
<1> SUFFICES ASSUME \A k \in 1 .. c : g[k] # d PROVE FALSE
  OBVIOUS
<1>5. g \in [1 .. c -> D \ {d}]
  BY <1>2
<1>6. PICK x, y \in 1 .. c : x # y /\ g[x] = g[y]
  BY <1>1, <1>3, <1>4, <1>5, FS_PigeonHole
<1>7. g[x] \in D /\ x \in Nat /\ y \in Nat
  BY <1>1, <1>2
<1>8. g[x] \in Nat
  <2>1. \A e \in D : e \in Nat
    OBVIOUS
  <2> QED
    BY <1>7, <2>1
<1>9. x < y \/ y < x
  BY <1>6, <1>7
<1> QED
  BY <1>2, <1>6, <1>8, <1>9

LEMMA OrderNotBelow ==
  ASSUME NEW n \in Nat, NEW D \in SUBSET (1 .. n), NEW c \in Nat, c = Cardinality(D),
         NEW g, Ordered(g, c, D), NEW h, Ordered(h, c, D),
         NEW k \in 1 .. c, \A j \in 1 .. c : j < k => g[j] = h[j]
  PROVE  ~ (g[k] < h[k])
<1>1. /\ \A i \in 1 .. c : g[i] \in Nat /\ h[i] \in Nat /\ g[i] \in D
      /\ \A i, j \in 1 .. c : i < j => g[i] < g[j] /\ h[i] < h[j]
  <2>1. g \in [1 .. c -> D] /\ h \in [1 .. c -> D] /\ \A d \in D : d \in Nat
    BY DEF Ordered
  <2>2. \A i \in 1 .. c : g[i] \in D /\ h[i] \in D
    BY <2>1
  <2> QED
    BY <2>1, <2>2 DEF Ordered
<1> SUFFICES ASSUME g[k] < h[k] PROVE FALSE
  OBVIOUS
<1>2. PICK j \in 1 .. c : h[j] = g[k]
  <2>1. g[k] \in D
    BY <1>1
  <2>2. \A d \in D : \E j \in 1 .. c : h[j] = d
    BY ONLY n \in Nat, D \in SUBSET (1 .. n), c = Cardinality(D), Ordered(h, c, D), OrderReachesAll
  <2> QED
    BY <2>1, <2>2
<1>3. CASE j < k
  BY <1>1, <1>2, <1>3
<1>4. CASE j = k
  BY <1>1, <1>2, <1>4
<1>5. CASE j > k
  BY <1>1, <1>2, <1>5
<1> QED
  BY <1>3, <1>4, <1>5

LEMMA OneOrder ==
  ASSUME NEW n \in Nat, NEW D, Among(D, n), NEW c \in Nat, c = Cardinality(D),
         NEW g, Ordered(g, c, D), NEW h, Ordered(h, c, D)
  PROVE  \A k \in 1 .. c : g[k] = h[k]
<1>0. D \in SUBSET (1 .. n)
  BY DEF Among
<1> DEFINE S == {k \in 1 .. c : g[k] # h[k]}
<1> SUFFICES ASSUME S # {} PROVE FALSE
  OBVIOUS
<1>1. S \in SUBSET Nat
  OBVIOUS
<1>2. PICK k \in S : \A j \in S : k <= j
  <2> HIDE DEF S
  <2> QED
    BY <1>1, Least
<1>3. k \in 1 .. c /\ g[k] # h[k] /\ \A j \in 1 .. c : j < k => g[j] = h[j]
  BY <1>2
<1>4. g[k] \in Nat /\ h[k] \in Nat
  <2>1. g[k] \in D /\ h[k] \in D /\ \A d \in D : d \in Nat
    BY <1>0, <1>3 DEF Ordered
  <2> QED
    BY <2>1
<1>5. ~ (g[k] < h[k])
  BY <1>0, <1>3, OrderNotBelow
<1>6. ~ (h[k] < g[k])
  BY <1>0, <1>3, OrderNotBelow
<1> QED
  BY <1>3, <1>4, <1>5, <1>6

(* Lines in order are given in order: a set of lines that all precede      *)
(* another one, and then the other one.                                    *)
LEMMA InOrderIs ==
  ASSUME NEW n \in Nat, NEW D \in SUBSET (1 .. n)
  PROVE  Ordered(InOrder(D), Cardinality(D), D)
<1>1. \E g \in [1 .. Cardinality(D) -> D] : \A i, j \in DOMAIN g : i < j => g[i] < g[j]
  BY CanBeOrdered DEF Ordered
<1>2. /\ InOrder(D) \in [1 .. Cardinality(D) -> D]
      /\ \A i, j \in DOMAIN InOrder(D) : i < j => InOrder(D)[i] < InOrder(D)[j]
  BY <1>1 DEF InOrder
<1> QED
  BY <1>2 DEF Ordered

Precede(D, E) == \A d \in D, e \in E : d < e
Joined(s, t) == s \o t

LEMMA SettingsJoin ==
  ASSUME NEW lines, NEW n \in Nat, NEW D, NEW E, Among(D, n), Among(E, n), Precede(D, E)
  PROVE  Joined(SettingsOf(lines, D), SettingsOf(lines, E)) = SettingsOf(lines, D \cup E)
<1>0. D \in SUBSET (1 .. n) /\ E \in SUBSET (1 .. n) /\ \A d \in D, e \in E : d < e
  BY DEF Among, Precede
<1> USE <1>0
<1> DEFINE c == Cardinality(D)
           b == Cardinality(E)
           g == InOrder(D)
           h == InOrder(E)
           gh == [k \in 1 .. c + b |-> IF k <= c THEN g[k] ELSE h[k - c]]
           u == InOrder(D \cup E)
<1>1. /\ IsFiniteSet(D) /\ c \in Nat /\ IsFiniteSet(E) /\ b \in Nat
      /\ Ordered(g, c, D) /\ Ordered(h, b, E) /\ Ordered(u, Cardinality(D \cup E), D \cup E)
  BY LinesCounted, InOrderIs
<1>2. D \cap E = {}
  <2>1. \A d \in D : d \in Nat
    OBVIOUS
  <2> QED
    BY <2>1
<1>3. Cardinality(D \cup E) = c + b
  <2>1. Cardinality(D \cup E) = c + b - Cardinality(D \cap E)
    BY <1>1, FS_Union
  <2>2. Cardinality(D \cap E) = 0
    BY <1>2, FS_EmptySet
  <2> HIDE DEF c, b
  <2> QED
    BY <1>1, <2>1, <2>2
<1>4. /\ SettingsOf(lines, D) = [k \in 1 .. c |-> lines[g[k]].setting]
      /\ SettingsOf(lines, E) = [k \in 1 .. b |-> lines[h[k]].setting]
      /\ SettingsOf(lines, D \cup E) = [k \in 1 .. c + b |-> lines[u[k]].setting]
  BY <1>3 DEF SettingsOf
<1>5. \A d \in D, e \in E : d \in Nat /\ e \in Nat
  OBVIOUS
<1> HIDE DEF c, b, g, h, u
<1>6. Ordered(gh, c + b, D \cup E)
  <2>1. \A k \in 1 .. c + b : IF k <= c THEN gh[k] = g[k] /\ gh[k] \in D /\ k \in 1 .. c
                              ELSE gh[k] = h[k - c] /\ gh[k] \in E /\ k - c \in 1 .. b
    BY <1>1 DEF Ordered
  <2>2. gh \in [1 .. c + b -> D \cup E]
    BY <2>1
  <2>3. ASSUME NEW i \in 1 .. c + b, NEW j \in 1 .. c + b, i < j PROVE gh[i] < gh[j]
    <3>1. CASE j <= c
      BY <1>1, <2>1, <2>3, <3>1 DEF Ordered
    <3>2. CASE i <= c /\ j > c
      <4>1. gh[i] \in D
        BY <2>1, <3>2
      <4>2. gh[j] \in E
        <5>1. ~ (j <= c)
          BY <1>1, <3>2
        <5> QED
          BY <2>1, <5>1
      <4> HIDE DEF gh
      <4> QED
        BY <4>1, <4>2
    <3>3. CASE i > c
      <4>1. gh[i] = h[i - c] /\ gh[j] = h[j - c] /\ i - c \in 1 .. b /\ j - c \in 1 .. b /\ i - c < j - c
        BY <1>1, <2>1, <2>3, <3>3
      <4> HIDE DEF gh
      <4> QED
        BY <1>1, <4>1 DEF Ordered
    <3> QED
      BY <1>1, <2>3, <3>1, <3>2, <3>3
  <2> HIDE DEF gh
  <2> QED
    BY <2>2, <2>3 DEF Ordered
<1>7. \A k \in 1 .. c + b : u[k] = gh[k]
  <2>1. c + b \in Nat /\ Among(D \cup E, n) /\ Ordered(u, c + b, D \cup E)
    BY <1>1, <1>3 DEF Among
  <2> HIDE DEF gh
  <2> QED
    BY <1>3, <1>6, <2>1, OneOrder
<1>8. \A x, y : x = [k \in 1 .. c |-> lines[g[k]].setting] /\ y = [k \in 1 .. b |-> lines[h[k]].setting]
        => x \o y = [k \in 1 .. c + b |-> lines[gh[k]].setting]
  <2> SUFFICES ASSUME NEW x, NEW y, x = [k \in 1 .. c |-> lines[g[k]].setting],
                      y = [k \in 1 .. b |-> lines[h[k]].setting]
               PROVE  x \o y = [k \in 1 .. c + b |-> lines[gh[k]].setting]
    OBVIOUS
  <2> DEFINE A == {lines[g[k]].setting : k \in 1 .. c} \cup {lines[h[k]].setting : k \in 1 .. b}
  <2>1. x \in Seq(A) /\ y \in Seq(A) /\ Len(x) = c /\ Len(y) = b
    BY <1>1
  <2>2. /\ x \o y \in Seq(A) /\ Len(x \o y) = c + b
        /\ \A k \in 1 .. c + b : (x \o y)[k] = IF k <= c THEN x[k] ELSE y[k - c]
    <3> HIDE DEF A
    <3> QED
      BY <1>1, <2>1
  <2>3. \A k \in 1 .. c + b : (x \o y)[k] = lines[gh[k]].setting
    <3> SUFFICES ASSUME NEW k \in 1 .. c + b PROVE (x \o y)[k] = lines[gh[k]].setting
      OBVIOUS
    <3>1. CASE k <= c
      <4>1. k \in 1 .. c /\ gh[k] = g[k]
        BY <1>1, <3>1
      <4> HIDE DEF gh
      <4> QED
        BY <2>2, <3>1, <4>1
    <3>2. CASE ~(k <= c)
      <4>1. k - c \in 1 .. b /\ gh[k] = h[k - c]
        BY <1>1, <3>2
      <4> HIDE DEF gh
      <4> QED
        BY <2>2, <3>2, <4>1
    <3> QED
      BY <3>1, <3>2
  <2>4. DOMAIN (x \o y) = 1 .. c + b /\ x \o y = [k \in DOMAIN (x \o y) |-> (x \o y)[k]]
    <3>1. ASSUME NEW B, NEW z \in Seq(B), NEW m, Len(z) = m
          PROVE  DOMAIN z = 1 .. m /\ z = [k \in DOMAIN z |-> z[k]]
      BY <3>1
    <3> HIDE DEF A
    <3> QED
      BY <2>2, <3>1
  <2> HIDE DEF gh
  <2> QED
    BY <2>3, <2>4
<1> HIDE DEF gh
<1>9. [k \in 1 .. c + b |-> lines[gh[k]].setting] = [k \in 1 .. c + b |-> lines[u[k]].setting]
  BY <1>7
<1> QED
  BY <1>4, <1>8, <1>9 DEF Joined

---------------------------------------------------------------------------
(* Sections of a well made file: between them they give all its data.      *)
DataWithin(f, a, b) == {i \in DataLines(f.lines) : a <= i /\ i < b}

LEMMA SectionGives ==
  ASSUME NEW f \in Files, WellMade(f), NEW tag \in Tags \cup {NoTag},
         NEW from, Behind(f, from), from <= Len(f.lines) + 2,
         NEW s, s = Section(f, tag, from)
  PROVE  /\ s.status \in {"ok", "missing"}
         /\ s.next \in Nat /\ from <= s.next /\ s.next <= Len(f.lines) + 2
         /\ s.status = "ok" => s.settings = SettingsOf(f.lines, DataWithin(f, from, s.next))
         /\ tag = NoTag => s.status = "ok" /\ s.next = Len(f.lines) + 2
         /\ s.status = "ok" => \/ s.next = Len(f.lines) + 2
                               \/ s.next - 1 \in DOMAIN f.lines /\ Closes(f.lines[s.next - 1], tag)
<1> DEFINE n == Len(f.lines)
           stops == {i \in from .. n : Stops(f, tag, from, i)}
           stop == IF stops = {} THEN n + 1 ELSE CHOOSE i \in stops : \A j \in stops : i <= j
           given == {i \in from .. stop - 1 : ~IsComment(f.lines[i]) /\ f.lines[i].kind # "blank"}
<1>1. s.settings = SettingsOf(f.lines, given) /\ s.next = stop + 1
      /\ s.status = IF stops = {} THEN "ok" ELSE StatusAt(f, tag, stop)
  BY DEF Section
<1>2. /\ from \in Nat \ {0} /\ n \in Nat /\ from <= n + 2 /\ DOMAIN f.lines = 1 .. n
      /\ \A i \in Headers(f) : i \in 1 .. n /\ i < from
      /\ \A i \in 1 .. n : f.lines[i].kind \in Kinds
  BY FileLines DEF Behind, Headers
<1> HIDE DEF n
<1>3. stops # {} => stop \in stops
  <2> SUFFICES ASSUME stops # {} PROVE stop \in stops
    OBVIOUS
  <2>1. stops \in SUBSET Nat
    BY <1>2
  <2>2. \E i \in stops : \A j \in stops : i <= j
    <3> HIDE DEF stops
    <3> QED
      BY <2>1, Least
  <2>3. stop = CHOOSE i \in stops : \A j \in stops : i <= j
    OBVIOUS
  <2> HIDE DEF stops, stop
  <2> QED
    BY <2>2, <2>3
<1>4. /\ stops = {} => stop = n + 1
      /\ stops # {} => stop \in from .. n /\ Stops(f, tag, from, stop)
  <2>1. stops = {} => stop = n + 1
    OBVIOUS
  <2>2. \A i \in stops : i \in from .. n /\ Stops(f, tag, from, i)
    OBVIOUS
  <2> HIDE DEF stops, stop
  <2> QED
    BY <1>3, <2>1, <2>2
<1> HIDE DEF stops, stop
<1>5. /\ stop \in Nat /\ stop <= n + 1
      /\ from <= s.next /\ s.next \in Nat /\ s.next <= n + 2
  <2>1. CASE stops # {}
    <3>1. stop \in Nat /\ from <= stop /\ stop <= n
      BY <1>2, <1>4, <2>1
    <3> QED
      BY <1>1, <1>2, <3>1
  <2>2. CASE stops = {}
    BY <1>1, <1>2, <1>4, <2>2
  <2> QED
    BY <2>1, <2>2
<1>6. stops # {} => \/ IsComment(f.lines[stop]) /\ tag # NoTag /\ Closes(f.lines[stop], tag)
                       /\ s.status = "ok"
                    \/ ~IsComment(f.lines[stop]) /\ tag # NoTag /\ s.status = "missing"
  <2>1. stops # {} => (SeesEnd(f, stop) => IsComment(f.lines[stop]))
    BY <1>2, <1>4 DEF WellMade
  <2> QED
    BY <1>1, <1>4, <2>1 DEF Stops, StatusAt
<1>7. s.status = "ok" => given = DataWithin(f, from, s.next)
  <2> SUFFICES ASSUME s.status = "ok" PROVE given = DataWithin(f, from, s.next)
    OBVIOUS
  <2>1. stop = n + 1 \/ (stop \in 1 .. n /\ IsComment(f.lines[stop]))
    BY <1>2, <1>4, <1>6
  <2>2. ASSUME NEW i \in given PROVE i \in DataWithin(f, from, s.next)
    <3>1. i \in 1 .. n /\ from <= i /\ i < s.next
      BY <1>1, <1>2, <1>5
    <3>2. ~IsComment(f.lines[i]) /\ f.lines[i].kind # "blank" /\ f.lines[i].kind \in Kinds
      BY <1>2, <3>1
    <3>3. f.lines[i].kind # "header"
      BY <1>2, <3>1 DEF Headers
    <3>4. f.lines[i].kind = "data"
      BY <3>2, <3>3 DEF IsComment, Kinds
    <3> QED
      BY <1>2, <3>1, <3>4 DEF DataWithin, DataLines
  <2>3. ASSUME NEW i \in DataWithin(f, from, s.next) PROVE i \in given
    <3>1. i \in 1 .. n /\ from <= i /\ i < s.next /\ f.lines[i].kind = "data"
      BY <1>2 DEF DataWithin, DataLines
    <3>2. i # stop
      BY <1>2, <2>1, <3>1 DEF IsComment
    <3>3. i \in from .. stop - 1
      BY <1>1, <1>2, <1>5, <3>1, <3>2
    <3> QED
      BY <3>1, <3>3 DEF IsComment
  <2> HIDE DEF given
  <2> QED
    BY <2>2, <2>3
<1> HIDE DEF given
<1>8. stops = {} => s.status = "ok" /\ s.next = n + 2
  BY <1>1, <1>2, <1>4
<1>9. stops # {} => tag # NoTag /\ s.status \in {"ok", "missing"} /\ s.next - 1 = stop
                    /\ (s.status = "ok" => stop \in DOMAIN f.lines /\ Closes(f.lines[stop], tag))
  BY <1>1, <1>2, <1>4, <1>5, <1>6
<1> QED
  BY <1>1, <1>5, <1>7, <1>8, <1>9 DEF n

LEMMA DataJoin ==
  ASSUME NEW f \in Files, NEW a \in Nat, NEW b \in Nat, NEW c \in Nat, a <= b, b <= c
  PROVE  Joined(SettingsOf(f.lines, DataWithin(f, a, b)), SettingsOf(f.lines, DataWithin(f, b, c)))
           = SettingsOf(f.lines, DataWithin(f, a, c))
<1> DEFINE D == DataWithin(f, a, b)
           E == DataWithin(f, b, c)
<1>1. Len(f.lines) \in Nat /\ \A i \in DataLines(f.lines) : i \in 1 .. Len(f.lines)
  BY FileLines DEF DataLines
<1>2. D \in SUBSET (1 .. Len(f.lines)) /\ E \in SUBSET (1 .. Len(f.lines))
  BY <1>1 DEF DataWithin
<1>3. \A d \in D, e \in E : d < e
  BY <1>1 DEF DataWithin
<1>4. D \cup E = DataWithin(f, a, c)
  BY <1>1 DEF DataWithin
<1> HIDE DEF D, E
<1>5. Joined(SettingsOf(f.lines, D), SettingsOf(f.lines, E)) = SettingsOf(f.lines, D \cup E)
  <2>1. Among(D, Len(f.lines)) /\ Among(E, Len(f.lines)) /\ Precede(D, E)
    BY <1>2, <1>3 DEF Among, Precede
  <2> QED
    BY <1>1, <2>1, SettingsJoin
<1> QED
  BY <1>4, <1>5 DEF D, E

LEMMA SeeksHeader ==
  ASSUME NEW f \in Files, WellMade(f)
  PROVE  /\ SeekHeader(f).status = "ok" /\ SeekHeader(f).next <= Len(f.lines) + 2
         /\ \A i \in DataLines(f.lines) : SeekHeader(f).next <= i
<1>1. /\ Len(f.lines) \in Nat /\ Headers(f) \subseteq 1 .. Len(f.lines)
      /\ \A i, j \in Headers(f) : i = j
      /\ \A i \in DataLines(f.lines) : i \in 1 .. Len(f.lines) /\ f.lines[i].kind = "data"
  BY FileLines DEF Headers, DataLines
<1>2. \A i \in DataLines(f.lines) : \E h \in Headers(f) : h < i
  BY DEF WellMade
<1>3. CASE Headers(f) = {}
  <2>1. ~ (Len(f.lines) > 0 /\ f.lines[Len(f.lines)].kind = "data")
    BY <1>1, <1>2, <1>3, FileLines DEF DataLines
  <2> QED
    BY <1>1, <1>2, <1>3, <2>1 DEF SeekHeader
<1>4. CASE Headers(f) # {}
  <2>1. PICK h : h \in Headers(f)
    BY <1>4
  <2>2. (CHOOSE i \in Headers(f) : \A j \in Headers(f) : i <= j) = h
    <3>1. h <= h
      BY <1>1, <2>1
    <3> QED
      BY <1>1, <2>1, <3>1
  <2>3. SeekHeader(f).status = "ok" /\ SeekHeader(f).next = 1 + h
    BY <1>4, <2>2 DEF SeekHeader
  <2>4. \A i \in DataLines(f.lines) : h < i
    BY <1>1, <1>2, <2>1
  <2> QED
    BY <1>1, <2>1, <2>3, <2>4
<1> QED
  BY <1>3, <1>4

(* The parser accepts a well made file, and hands over all its settings in *)
(* their order.                                                            *)
LEMMA ReadsAll ==
  ASSUME NEW f \in Files, WellMade(f), NEW x, x = ReadConfig(f)
  PROVE  x.accepted /\ x.preamble \o x.rest = Settings(f.lines)
<1> DEFINE head == SeekHeader(f)
           pre == Section(f, "preamble", head.next)
           regis == Section(f, "registers", pre.next)
           post == Section(f, "postamble", regis.next)
           whole == Section(f, NoTag, head.next)
           n == Len(f.lines)
           S(a, b) == SettingsOf(f.lines, DataWithin(f, a, b))
<1>0. /\ n \in Nat /\ \A i \in DataLines(f.lines) : i \in 1 .. n
      /\ \A i \in DataLines(f.lines) : head.next <= i
      /\ head.status = "ok" /\ Behind(f, head.next) /\ head.next <= n + 2
      /\ {"preamble", "registers", "postamble", NoTag} \subseteq Tags \cup {NoTag}
  BY FileLines, SeeksHeader, SeeksBehind DEF DataLines, Tags
<1> HIDE DEF n
<1>1. /\ pre.status \in {"ok", "missing"} /\ head.next \in Nat /\ pre.next \in Nat
      /\ head.next <= pre.next /\ pre.next <= n + 2 /\ Behind(f, pre.next)
      /\ pre.status = "ok" => pre.settings = S(head.next, pre.next)
  <2>1. Behind(f, pre.next)
    BY <1>0, SectionReads
  <2>2. head.next \in Nat
    BY <1>0 DEF Behind
  <2> QED
    BY <1>0, <2>1, <2>2, SectionGives DEF n
<1>2. /\ regis.status \in {"ok", "missing"} /\ regis.next \in Nat
      /\ pre.next <= regis.next /\ regis.next <= n + 2 /\ Behind(f, regis.next)
      /\ regis.status = "ok" => regis.settings = S(pre.next, regis.next)
  BY <1>0, <1>1, SectionGives, SectionReads DEF n
<1>3. /\ post.status \in {"ok", "missing"} /\ post.next \in Nat /\ regis.next <= post.next
      /\ post.status = "ok" => post.settings = S(regis.next, post.next)
      /\ post.status = "ok" => \/ post.next = n + 2
                               \/ post.next - 1 \in DOMAIN f.lines /\ Closes(f.lines[post.next - 1], "postamble")
  BY <1>0, <1>2, SectionGives DEF n
<1>4. whole.status = "ok" /\ whole.next = n + 2 /\ whole.settings = S(head.next, whole.next)
  BY <1>0, SectionGives DEF n
<1>5. \/ x = [accepted |-> TRUE, preamble |-> <<>>, rest |-> whole.settings]
      \/ /\ pre.status = "ok" /\ regis.status = "ok" /\ post.status = "ok"
         /\ x = [accepted |-> TRUE, preamble |-> pre.settings, rest |-> regis.settings \o post.settings]
  BY <1>0, <1>1, <1>2, <1>3 DEF ReadConfig, Untagged
<1>6. \A b \in Nat : (\A i \in DataLines(f.lines) : i < b) => S(head.next, b) = Settings(f.lines)
  <2> SUFFICES ASSUME NEW b \in Nat, \A i \in DataLines(f.lines) : i < b
               PROVE  S(head.next, b) = Settings(f.lines)
    OBVIOUS
  <2>1. DataWithin(f, head.next, b) = DataLines(f.lines)
    BY <1>0 DEF DataWithin
  <2> QED
    BY <2>1 DEF Settings
<1>9. \A p, q, r : x = [accepted |-> TRUE, preamble |-> p, rest |-> q \o r]
        => x.accepted /\ x.preamble = p /\ x.rest = Joined(q, r)
  BY DEF Joined
<1>10. \A a, b, c \in Nat : a <= b /\ b <= c => Joined(S(a, b), S(b, c)) = S(a, c)
  BY DataJoin
<1> HIDE DEF head, pre, regis, post, whole, S
<1>7. CASE x = [accepted |-> TRUE, preamble |-> <<>>, rest |-> whole.settings]
  <2>1. whole.settings = Settings(f.lines)
    BY <1>0, <1>4, <1>6
  <2>2. Settings(f.lines) \in Seq(FileSettings(f))
    BY <1>0, SettingsListed DEF Settings, FileSettings
  <2> QED
    BY <1>7, <2>1, <2>2
<1>8. CASE /\ pre.status = "ok" /\ regis.status = "ok" /\ post.status = "ok"
           /\ x = [accepted |-> TRUE, preamble |-> pre.settings, rest |-> regis.settings \o post.settings]
  <2>1. /\ head.next \in Nat /\ pre.next \in Nat /\ regis.next \in Nat /\ post.next \in Nat
        /\ head.next <= pre.next /\ pre.next <= regis.next /\ regis.next <= post.next
        /\ pre.next <= post.next
    BY <1>1, <1>2, <1>3
  <2>2. Joined(S(pre.next, regis.next), S(regis.next, post.next)) = S(pre.next, post.next)
    BY <1>10, <2>1
  <2>3. Joined(S(head.next, pre.next), S(pre.next, post.next)) = S(head.next, post.next)
    BY <1>10, <2>1
  <2>4. \A i \in DataLines(f.lines) : i < post.next
    <3>1. post.next = n + 2 => \A i \in DataLines(f.lines) : i < post.next
      BY <1>0
    <3>2. post.next - 1 \in DOMAIN f.lines /\ Closes(f.lines[post.next - 1], "postamble")
            => \A i \in DataLines(f.lines) : i < post.next - 1
      BY DEF WellMade
    <3> QED
      BY <1>0, <1>3, <1>8, <3>1, <3>2
  <2> QED
    <3>1. x.preamble \o x.rest = S(head.next, post.next)
      <4>1. /\ pre.settings = S(head.next, pre.next) /\ regis.settings = S(pre.next, regis.next)
            /\ post.settings = S(regis.next, post.next)
        BY <1>1, <1>2, <1>3, <1>8
      <4>2. x.rest = Joined(regis.settings, post.settings) /\ x.preamble = pre.settings
        BY <1>8, <1>9
      <4>3. x.rest = S(pre.next, post.next)
        BY <2>2, <4>1, <4>2
      <4> QED
        BY <2>3, <4>1, <4>2, <4>3, Zenon DEF Joined
    <3> QED
      BY <1>6, <1>8, <1>9, <2>1, <2>4, <3>1
<1> QED
  BY <1>5, <1>7, <1>8

---------------------------------------------------------------------------
(* While it is uploaded, and after, the plan is that of the file; a call   *)
(* ends as incomplete only when the file was refused.                      *)
Uploading == pc \in {"page", "switch", "access"}

PlanOfFile ==
  /\ Uploading \/ out = "ok" => plan = ReadConfig(file)
  /\ out = "incomplete" => ~ReadConfig(file).accepted

LEMMA PlanOfFileKeeps ==
  ASSUME IInv, PlanOfFile, [Next]_vars
  PROVE  PlanOfFile'
<1>1. CASE UNCHANGED vars
  BY <1>1 DEF vars, PlanOfFile, Uploading
<1>2. ASSUME NEW f \in Files, Call(f) PROVE PlanOfFile'
  BY <1>2 DEF Call, PlanOfFile, Uploading
<1>3. CASE ReadFile
  <2>1. /\ plan' = ReadConfig(file) /\ file' = file /\ out = "none"
        /\ IF plan'.accepted THEN pc' = "page" /\ out' = out ELSE pc' = "idle" /\ out' = "incomplete"
    BY <1>3 DEF ReadFile, IInv, UploadInv
  <2>2. CASE plan'.accepted
    BY <2>1, <2>2 DEF PlanOfFile, Uploading
  <2>3. CASE ~plan'.accepted
    BY <2>1, <2>3 DEF PlanOfFile, Uploading
  <2> QED
    BY <2>2, <2>3
<1>4. CASE ReadPage \/ SwitchPage \/ Write \/ CheckId \/ Fail
  <2>1. plan' = plan /\ file' = file /\ Uploading
    BY <1>4 DEF ReadPage, SwitchPage, Write, CheckId, Fail, Uploading
  <2>2. out' \in {out, "ok", "failed"} /\ out = "none"
    <3>1. out = "none"
      BY <2>1 DEF Uploading, IInv, UploadInv
    <3> QED
      BY <1>4, <3>1 DEF ReadPage, SwitchPage, Write, CheckId, Fail, TryAgain
  <2> QED
    BY <2>1, <2>2 DEF PlanOfFile
<1> QED
  BY <1>1, <1>2, <1>3, <1>4 DEF Next, Step

(* Whatever file is asked for, and whatever its lines: if its data come    *)
(* after a header and before the end of the postamble, it is accepted, and *)
(* what is written to the chip is all it says, in its order, whichever     *)
(* marks of sections it has.                                               *)
THEOREM NoLineIsDropped == Spec => []NothingDropped
<1>1. Init => PlanOfFile
  BY DEF Init, PlanOfFile, Uploading
<1>2. IInv /\ PlanOfFile /\ [Next]_vars => PlanOfFile'
  BY PlanOfFileKeeps
<1>3. IInv /\ PlanOfFile => NothingDropped
  <2> SUFFICES ASSUME IInv, PlanOfFile, WellMade(file)
               PROVE  /\ out # "incomplete"
                      /\ Uploading \/ out = "ok" => Uploads = Settings(file.lines)
    BY DEF NothingDropped, Uploading
  <2>1. file \in Files
    BY DEF IInv, TypeOK
  <2>2. /\ ReadConfig(file).accepted
        /\ \A x : x = ReadConfig(file) => x.preamble \o x.rest = Settings(file.lines)
    BY <2>1, ReadsAll
  <2> QED
    BY <2>2 DEF PlanOfFile, Uploads
<1> QED
  BY <1>1, <1>2, <1>3, ChipInductive, PTL DEF Spec
=============================================================================
