---------------------------- MODULE Image_proofs ----------------------------
(***************************************************************************)
(* Proofs about the images of virtances: what the daemon writes into one   *)
(* (GuestConfig), and the files of templates it makes one from             *)
(* (TemplateCache).  The inductive invariants are GInv of the first, IInv  *)
(* and JInv of the second.                                                 *)
(***************************************************************************)
EXTENDS GuestConfig, TemplateCache, Integers, WellFoundedInduction, TLAPS

-----------------------------------------------------------------------------
(* The largest of a finite set of numbers: Taken is such a maximum.        *)
LEMMA MaxIs ==
  ASSUME NEW S, NEW m \in S, S \subseteq Nat, \A y \in S : y <= m
  PROVE  Max(S) = m
<1>1. m >= m /\ \A y \in S : m >= y
  OBVIOUS
<1>2. \A x \in S : (\A y \in S : x >= y) => x = m
  OBVIOUS
<1> QED
  BY <1>1, <1>2 DEF Max

LEMMA MaxIn ==
  ASSUME NEW S, S # {}, NEW b \in Nat, S \subseteq 0..b
  PROVE  Max(S) \in S /\ \A y \in S : y <= Max(S)
<1> DEFINE U == {u \in Nat : \A y \in S : y <= u}
           R == OpToRel(<, Nat)
<1>1. b \in U /\ U \subseteq Nat
  OBVIOUS
<1>2. PICK u \in U : \A v \in U : <<v, u>> \notin R
  <2> HIDE DEF U, R
  <2> QED
    BY <1>1, WFMin, NatLessThanWellFounded DEF R
<1>3. \A v \in U : ~(v < u)
  BY <1>1, <1>2 DEF OpToRel
<1>4. u \in S
  <2>1. SUFFICES ASSUME u \notin S PROVE FALSE
    OBVIOUS
  <2>2. \A y \in S : y \in Nat /\ y <= u - 1
    BY <2>1
  <2>3. u - 1 \in U
    <3>1. PICK y \in S : TRUE
      OBVIOUS
    <3>2. u - 1 \in Nat
      BY <3>1, <2>2
    <3> QED
      BY <3>2, <2>2
  <2> QED
    BY <2>3, <1>3
<1>5. S \subseteq Nat /\ \A y \in S : y <= u
  OBVIOUS
<1>6. Max(S) = u
  <2> HIDE DEF U
  <2> QED
    BY MaxIs, <1>4, <1>5
<1> QED
  BY <1>4, <1>5, <1>6

-----------------------------------------------------------------------------
(* The script of Windows. A command is a setting or one of the three that  *)
(* set nothing; a line is never empty.                                     *)
Settings == Items \X Nat
Others == {Shutdown, Clean, <<"diskpart", 0>>}
Commands == Settings \cup Others
Lines == [cmds : Seq(Commands) \ {<<>>}, ended : BOOLEAN]
Ended(s) == s[Len(s)].ended = TRUE

(* The two things Add may do with a command: it begins a line, or joins    *)
(* the last one, which has not ended.                                      *)
NewLine(s, t, cmd, e) ==
  /\ Len(t) = Len(s) + 1
  /\ \A k \in 1..Len(s) : t[k] = s[k]
  /\ t[Len(t)] = [cmds |-> <<cmd>>, ended |-> e]
Joined(s, t, cmd, e) ==
  /\ Len(t) = Len(s) /\ Len(t) > 0
  /\ \A k \in 1..Len(s) - 1 : t[k] = s[k]
  /\ t[Len(t)] = [cmds |-> Append(s[Len(s)].cmds, cmd), ended |-> e]

LEMMA AddNew ==
  ASSUME NEW s \in Seq(Lines), NEW cmd \in Commands, NEW e \in BOOLEAN,
         s = <<>> \/ Ended(s)
  PROVE  Add(s, cmd, e) \in Seq(Lines) /\ NewLine(s, Add(s, cmd, e), cmd, e)
<1>1. PICK l : l = [cmds |-> <<cmd>>, ended |-> e]
  OBVIOUS
<1>2. l \in Lines
  <2>1. <<cmd>> \in Seq(Commands) /\ <<cmd>> # <<>>
    OBVIOUS
  <2> QED
    BY <1>1, <2>1 DEF Lines
<1>3. Add(s, cmd, e) = Append(s, l)
  BY <1>1 DEF Add, Ended
<1>4. /\ Append(s, l) \in Seq(Lines) /\ Len(Append(s, l)) = Len(s) + 1
      /\ \A k \in 1..Len(s) : Append(s, l)[k] = s[k]
      /\ Append(s, l)[Len(s) + 1] = l
  BY <1>2
<1> QED
  BY <1>1, <1>3, <1>4 DEF NewLine

LEMMA AddJoins ==
  ASSUME NEW s \in Seq(Lines), NEW cmd \in Commands, NEW e \in BOOLEAN,
         s # <<>>, ~Ended(s)
  PROVE  Add(s, cmd, e) \in Seq(Lines) /\ Joined(s, Add(s, cmd, e), cmd, e)
<1>1. PICK last : last = s[Len(s)]
  OBVIOUS
<1>2. Len(s) \in 1..Len(s) /\ last \in Lines
  BY <1>1
<1>3. last.cmds \in Seq(Commands) /\ last.ended = FALSE
  BY <1>1, <1>2 DEF Ended, Lines
<1>4. PICK l : l = [cmds |-> Append(last.cmds, cmd), ended |-> e]
  OBVIOUS
<1>5. l \in Lines
  <2>1. PICK a : a = Append(last.cmds, cmd)
    OBVIOUS
  <2>2. a \in Seq(Commands) /\ a # <<>>
    BY <1>3, <2>1
  <2> QED
    BY <1>4, <2>1, <2>2 DEF Lines
<1>6. Add(s, cmd, e) = [s EXCEPT ![Len(s)] = l]
  BY <1>1, <1>3, <1>4 DEF Add
<1>7. PICK t : t = [s EXCEPT ![Len(s)] = l]
  OBVIOUS
<1>8. t \in Seq(Lines) /\ Len(t) = Len(s) /\ t[Len(s)] = l
      /\ \A k \in 1..Len(s) - 1 : t[k] = s[k]
  BY <1>2, <1>5, <1>7
<1>9. t[Len(t)] = [cmds |-> Append(s[Len(s)].cmds, cmd), ended |-> e]
  BY <1>1, <1>4, <1>8
<1>10. Joined(s, t, cmd, e)
  BY <1>2, <1>8, <1>9 DEF Joined
<1> QED
  BY <1>6, <1>7, <1>8, <1>10

(* Every command of script s is in E or sets nothing.                      *)
CommandsIn(s, E) ==
  \A k \in 1..Len(s) : \A m \in 1..Len(s[k].cmds) : s[k].cmds[m] \in E \cup Others

(* No line of script s is cmd alone.                                       *)
NoLine(s, cmd) == \A k \in 1..Len(s) : s[k].cmds # <<cmd>>

(* A script is whole if its last line has ended and one of its lines       *)
(* empties it; it is ready for a start if it is whole or empty.            *)
Whole(s) == s # <<>> /\ Ended(s) /\ ~NoLine(s, Clean)
Ready(s) == s = <<>> \/ Whole(s)

LEMMA LineOf ==
  ASSUME NEW s \in Seq(Lines), NEW k \in 1..Len(s)
  PROVE  /\ s[k] \in Lines /\ s[k].cmds \in Seq(Commands) /\ Len(s[k].cmds) \in Nat \ {0}
         /\ s[k].ended \in BOOLEAN
<1>1. s[k] \in Lines
  OBVIOUS
<1>2. s[k].cmds \in Seq(Commands) /\ s[k].cmds # <<>> /\ s[k].ended \in BOOLEAN
  BY <1>1 DEF Lines
<1>3. PICK c : c = s[k].cmds
  OBVIOUS
<1>4. Len(c) \in Nat \ {0}
  BY <1>2, <1>3
<1> QED
  BY <1>1, <1>2, <1>3, <1>4

LEMMA Tacked ==
  ASSUME NEW q \in Seq(Commands), Len(q) # 0, NEW cmd \in Commands
  PROVE  /\ Len(Append(q, cmd)) = Len(q) + 1 /\ Append(q, cmd) \in Seq(Commands)
         /\ \A m \in 1..Len(q) : Append(q, cmd)[m] = q[m]
         /\ Append(q, cmd)[Len(q) + 1] = cmd
         /\ \A c : Append(q, cmd) # <<c>>
<1>1. \A c : Len(<<c>>) = 1
  OBVIOUS
<1>2. Len(Append(q, cmd)) = Len(q) + 1 /\ Append(q, cmd) \in Seq(Commands)
      /\ Len(q) \in Nat
  OBVIOUS
<1>3. \A m \in 1..Len(q) : Append(q, cmd)[m] = q[m]
  OBVIOUS
<1>4. Append(q, cmd)[Len(q) + 1] = cmd
  OBVIOUS
<1>5. \A c : Append(q, cmd) # <<c>>
  BY <1>1, <1>2
<1> QED
  BY <1>2, <1>3, <1>4, <1>5

LEMMA AddIn ==
  ASSUME NEW s \in Seq(Lines), NEW cmd \in Commands, NEW e \in BOOLEAN,
         NEW E, CommandsIn(s, E), cmd \in E \cup Others
  PROVE  CommandsIn(Add(s, cmd, e), E)
<1>1. PICK t : t = Add(s, cmd, e)
  OBVIOUS
<1>2. SUFFICES ASSUME NEW k \in 1..Len(t), NEW m \in 1..Len(t[k].cmds)
               PROVE  t[k].cmds[m] \in E \cup Others
  BY <1>1 DEF CommandsIn
<1>3. Len(s) \in Nat
  OBVIOUS
<1>4. CASE s = <<>> \/ Ended(s)
  <2>1. NewLine(s, t, cmd, e)
    BY <1>1, <1>4, AddNew
  <2>2. CASE k \in 1..Len(s)
    BY <2>1, <2>2 DEF NewLine, CommandsIn
  <2>3. CASE k \notin 1..Len(s)
    <3>1. k = Len(t)
      BY <1>3, <2>1, <2>3 DEF NewLine
    <3>2. t[k].cmds = <<cmd>>
      BY <2>1, <3>1 DEF NewLine
    <3> QED
      BY <3>2
  <2> QED
    BY <2>2, <2>3
<1>5. CASE ~(s = <<>> \/ Ended(s))
  <2>1. Joined(s, t, cmd, e)
    BY <1>1, <1>5, AddJoins
  <2>2. CASE k \in 1..Len(s) - 1
    BY <1>3, <2>1, <2>2 DEF Joined, CommandsIn
  <2>3. CASE k \notin 1..Len(s) - 1
    <3>1. k = Len(t) /\ Len(s) \in 1..Len(s)
      BY <1>3, <2>1, <2>3 DEF Joined
    <3>2. PICK q : q = s[Len(s)].cmds
      OBVIOUS
    <3>3. q \in Seq(Commands) /\ Len(q) \in Nat \ {0}
      BY <3>1, <3>2, LineOf
    <3>4. t[k].cmds = Append(q, cmd)
      BY <2>1, <3>1, <3>2 DEF Joined
    <3>5. m \in 1..Len(q) \/ m = Len(q) + 1
      BY <3>3, <3>4, Tacked
    <3>6. CASE m \in 1..Len(q)
      <4>1. t[k].cmds[m] = q[m]
        BY <3>3, <3>4, <3>6, Tacked
      <4> QED
        BY <3>1, <3>2, <3>6, <4>1 DEF CommandsIn
    <3>7. CASE m = Len(q) + 1
      BY <3>3, <3>4, <3>7, Tacked
    <3> QED
      BY <3>5, <3>6, <3>7
  <2> QED
    BY <2>2, <2>3
<1> QED
  BY <1>4, <1>5

LEMMA AddNone ==
  ASSUME NEW s \in Seq(Lines), NEW cmd \in Commands, NEW e \in BOOLEAN,
         NEW c, NoLine(s, c), cmd # c \/ ~(s = <<>> \/ Ended(s))
  PROVE  NoLine(Add(s, cmd, e), c)
<1>1. PICK t : t = Add(s, cmd, e)
  OBVIOUS
<1>2. SUFFICES ASSUME NEW k \in 1..Len(t)
               PROVE  t[k].cmds # <<c>>
  BY <1>1 DEF NoLine
<1>3. Len(s) \in Nat
  OBVIOUS
<1>4. CASE s = <<>> \/ Ended(s)
  <2>1. NewLine(s, t, cmd, e)
    BY <1>1, <1>4, AddNew
  <2>2. CASE k \in 1..Len(s)
    BY <2>1, <2>2 DEF NewLine, NoLine
  <2>3. CASE k \notin 1..Len(s)
    <3>1. k = Len(t)
      BY <1>3, <2>1, <2>3 DEF NewLine
    <3>2. t[k].cmds = <<cmd>>
      BY <2>1, <3>1 DEF NewLine
    <3> QED
      BY <3>2, <1>4
  <2> QED
    BY <2>2, <2>3
<1>5. CASE ~(s = <<>> \/ Ended(s))
  <2>1. Joined(s, t, cmd, e)
    BY <1>1, <1>5, AddJoins
  <2>2. CASE k \in 1..Len(s) - 1
    BY <1>3, <2>1, <2>2 DEF Joined, NoLine
  <2>3. CASE k \notin 1..Len(s) - 1
    <3>1. k = Len(t) /\ Len(s) \in 1..Len(s)
      BY <1>3, <2>1, <2>3 DEF Joined
    <3>2. PICK q : q = s[Len(s)].cmds
      OBVIOUS
    <3>3. q \in Seq(Commands) /\ Len(q) \in Nat \ {0}
      BY <3>1, <3>2, LineOf
    <3>4. t[k].cmds = Append(q, cmd)
      BY <2>1, <3>1, <3>2 DEF Joined
    <3> QED
      BY <3>3, <3>4, Tacked
  <2> QED
    BY <2>2, <2>3
<1> QED
  BY <1>4, <1>5

LEMMA AddTyped ==
  ASSUME NEW s \in Seq(Lines), NEW cmd \in Commands, NEW e \in BOOLEAN
  PROVE  /\ Add(s, cmd, e) \in Seq(Lines) /\ Add(s, cmd, e) # <<>>
         /\ Len(Add(s, cmd, e)) \in Nat \ {0}
         /\ Add(s, cmd, e)[Len(Add(s, cmd, e))].ended = e
<1>1. PICK t : t = Add(s, cmd, e)
  OBVIOUS
<1>2. Len(s) \in Nat
  OBVIOUS
<1>3. t \in Seq(Lines) /\ (NewLine(s, t, cmd, e) \/ Joined(s, t, cmd, e))
  BY <1>1, AddNew, AddJoins
<1>4. Len(t) \in Nat \ {0} /\ t # <<>>
  BY <1>2, <1>3 DEF NewLine, Joined
<1>5. t[Len(t)].ended = e
  BY <1>3 DEF NewLine, Joined
<1> QED
  BY <1>1, <1>3, <1>4, <1>5

LEMMA AddClean ==
  ASSUME NEW s \in Seq(Lines), s = <<>> \/ Ended(s)
  PROVE  Whole(Add(s, Clean, TRUE))
<1>1. PICK t : t = Add(s, Clean, TRUE)
  OBVIOUS
<1>2. Clean \in Commands
  BY DEF Commands, Others
<1>3. NewLine(s, t, Clean, TRUE) /\ t # <<>> /\ Ended(t) /\ Len(t) \in Nat \ {0}
  BY <1>1, <1>2, AddNew, AddTyped DEF Ended
<1>4. Len(t) \in 1..Len(t) /\ t[Len(t)].cmds = <<Clean>>
  BY <1>3 DEF NewLine
<1> QED
  BY <1>1, <1>3, <1>4 DEF Whole, NoLine

LEMMA AddFirst ==
  ASSUME NEW s \in Seq(Lines), NEW cmd \in Commands, NEW e \in BOOLEAN,
         s # <<>>, s[1].ended = TRUE
  PROVE  Add(s, cmd, e)[1] = s[1]
<1>1. PICK t : t = Add(s, cmd, e)
  OBVIOUS
<1>2. Len(s) \in Nat \ {0}
  OBVIOUS
<1>3. CASE Ended(s)
  <2>1. NewLine(s, t, cmd, e)
    BY <1>1, <1>3, AddNew
  <2> QED
    BY <1>1, <1>2, <2>1 DEF NewLine
<1>4. CASE ~Ended(s)
  <2>1. Joined(s, t, cmd, e)
    BY <1>1, <1>4, AddJoins
  <2>2. 1 \in 1..Len(s) - 1
    BY <1>2, <1>4 DEF Ended
  <2> QED
    BY <1>1, <2>1, <2>2 DEF Joined
<1> QED
  BY <1>3, <1>4

(* Windows gets to line k: no line before it empties the script.           *)
Reaches(s, k) == \A c \in 1..k - 1 : s[c].cmds # <<Clean>>

LEMMA ExecutedIs ==
  ASSUME NEW s \in Seq(Lines), NEW x
  PROVE  x \in Executed(s) <=>
           \E k \in 1..Len(s) : Len(s[k].cmds) = 1 /\ x = s[k].cmds[1] /\ Reaches(s, k)
<1>1. DOMAIN s = 1..Len(s)
  OBVIOUS
<1> QED
  BY <1>1 DEF Executed, Reaches

(* A line behind the one that empties the script is never run: the         *)
(* password of an early reset_password.                                    *)
LEMMA AddBehind ==
  ASSUME NEW s \in Seq(Lines), NEW cmd \in Commands, Whole(s)
  PROVE  Whole(Add(s, cmd, TRUE)) /\ Executed(Add(s, cmd, TRUE)) = Executed(s)
<1>1. PICK t : t = Add(s, cmd, TRUE)
  OBVIOUS
<1>2. NewLine(s, t, cmd, TRUE) /\ t \in Seq(Lines)
  <2>1. s = <<>> \/ Ended(s)
    BY DEF Whole
  <2> QED
    BY <1>1, <2>1, AddNew
<1>3. Len(s) \in Nat /\ t # <<>> /\ Ended(t)
  <2>1. Len(s) \in Nat
    OBVIOUS
  <2>2. t # <<>> /\ t[Len(t)].ended = TRUE
    BY <1>1, AddTyped
  <2> QED
    BY <2>1, <2>2 DEF Ended
<1>4. PICK z \in 1..Len(s) : s[z].cmds = <<Clean>>
  BY DEF Whole, NoLine
<1>5. /\ Len(t) = Len(s) + 1
      /\ \A k \in 1..Len(s) : k \in 1..Len(t) /\ t[k] = s[k]
  BY <1>2, <1>3 DEF NewLine
<1>6. z \in 1..Len(t) /\ t[z].cmds = <<Clean>>
  BY <1>4, <1>5
<1>7. \A k \in 1..Len(t) : Reaches(t, k) => k \in 1..Len(s)
  BY <1>3, <1>4, <1>5 DEF Reaches
<1>8. \A k \in 1..Len(s) : Reaches(t, k) <=> Reaches(s, k)
  BY <1>3, <1>5 DEF Reaches
<1>9. ASSUME NEW x PROVE x \in Executed(t) <=> x \in Executed(s)
  <2>1. ASSUME x \in Executed(t) PROVE x \in Executed(s)
    <3>1. PICK k \in 1..Len(t) : Len(t[k].cmds) = 1 /\ x = t[k].cmds[1] /\ Reaches(t, k)
      BY <1>2, <2>1, ExecutedIs
    <3>2. k \in 1..Len(s) /\ t[k] = s[k] /\ Reaches(s, k)
      BY <1>5, <1>7, <1>8, <3>1
    <3> QED
      BY <3>1, <3>2, ExecutedIs
  <2>2. ASSUME x \in Executed(s) PROVE x \in Executed(t)
    <3>1. PICK k \in 1..Len(s) : Len(s[k].cmds) = 1 /\ x = s[k].cmds[1] /\ Reaches(s, k)
      BY <2>2, ExecutedIs
    <3>2. k \in 1..Len(t) /\ t[k] = s[k] /\ Reaches(t, k)
      BY <1>5, <1>8, <3>1
    <3> QED
      BY <1>2, <3>1, <3>2, ExecutedIs
  <2> QED
    BY <2>1, <2>2
<1>10. Executed(t) = Executed(s)
  BY <1>9
<1> QED
  BY <1>1, <1>3, <1>6, <1>10 DEF Whole, NoLine

LEMMA MinIn ==
  ASSUME NEW S, S # {}, S \subseteq Nat
  PROVE  \E m \in S : \A y \in S : ~(y < m)
<1> DEFINE R == OpToRel(<, Nat)
<1>1. PICK u \in S : \A v \in S : <<v, u>> \notin R
  <2> HIDE DEF R
  <2> QED
    BY WFMin, NatLessThanWellFounded DEF R
<1>2. \A v \in S : ~(v < u)
  BY <1>1 DEF OpToRel
<1> QED
  BY <1>2

(* A whole script is emptied at the start that runs it.                    *)
LEMMA WholeCleans ==
  ASSUME NEW s \in Seq(Lines), Whole(s)
  PROVE  Clean \in Executed(s)
<1> DEFINE S == {k \in 1..Len(s) : s[k].cmds = <<Clean>>}
<1>1. S # {} /\ S \subseteq Nat
  BY DEF Whole, NoLine
<1>2. PICK m \in S : \A y \in S : ~(y < m)
  <2> HIDE DEF S
  <2> QED
    BY <1>1, MinIn
<1>3. m \in 1..Len(s) /\ s[m].cmds = <<Clean>> /\ Len(s) \in Nat
  OBVIOUS
<1>4. Reaches(s, m)
  BY <1>2, <1>3 DEF Reaches
<1>5. Len(<<Clean>>) = 1 /\ <<Clean>>[1] = Clean
  OBVIOUS
<1> QED
  BY <1>3, <1>4, <1>5, ExecutedIs

-----------------------------------------------------------------------------
(* What each call of GuestFSUtil does to the image it configures: which    *)
(* file, or which lines of the script, it changes.                         *)

(* An image; what is in it is of E.                                        *)
Contents == [file : [Files -> SUBSET Settings], script : Seq(Lines),
             taken : [Items -> Nat]]
Holds(c, E) ==
  /\ \A f \in Files : c.file[f] \subseteq E
  /\ CommandsIn(c.script, E)
AskedFor == {Setting(i) : i \in job.items}
JobOK == job.items \subseteq Items /\ Always \subseteq job.items /\ job.n \in Nat

(* Image d is c with one file written, or with another script.             *)
Wrote(c, d, f, settings) ==
  /\ d \in Contents /\ d.script = c.script /\ d.taken = c.taken
  /\ d.file[f] = settings
  /\ \A g \in Files \ {f} : d.file[g] = c.file[g]
Scripted(c, d, script) ==
  /\ d \in Contents /\ d.file = c.file /\ d.taken = c.taken
  /\ d.script = script

LEMMA WriteWrote ==
  ASSUME NEW c \in Contents, NEW f \in Files, NEW settings \in SUBSET Settings
  PROVE  Wrote(c, [c EXCEPT !.file[f] = settings], f, settings)
<1>1. c.file \in [Files -> SUBSET Settings]
  BY DEF Contents
<1>2. PICK h : h = [c.file EXCEPT ![f] = settings]
  OBVIOUS
<1>3. h \in [Files -> SUBSET Settings] /\ h[f] = settings
      /\ \A g \in Files \ {f} : h[g] = c.file[g]
  BY <1>1, <1>2
<1>4. PICK d : d = [c EXCEPT !.file = h]
  OBVIOUS
<1>5. d = [c EXCEPT !.file[f] = settings]
  BY <1>2, <1>4
<1>6. d \in Contents /\ d.script = c.script /\ d.taken = c.taken /\ d.file = h
  BY <1>3, <1>4 DEF Contents
<1>7. Wrote(c, d, f, settings)
  BY <1>3, <1>6 DEF Wrote
<1> QED
  BY <1>5, <1>7

LEMMA ScriptScripted ==
  ASSUME NEW c \in Contents, NEW s \in Seq(Lines)
  PROVE  Scripted(c, [c EXCEPT !.script = s], s)
BY DEF Contents, Scripted

LEMMA AskedSettings ==
  ASSUME JobOK
  PROVE  /\ AskedFor \subseteq Settings
         /\ \A i \in job.items : Setting(i) \in AskedFor /\ Setting(i) \in Settings
                                  /\ Setting(i) \in Commands
         /\ \A i \in Always : i \in job.items
         /\ {Shutdown, Clean, <<"diskpart", 0>>} \subseteq Commands
BY DEF JobOK, AskedFor, Setting, Settings, Commands, Others

LEMMA UnixPublic ==
  ASSUME JobOK, Old \in Contents, ~Win
  PROVE  /\ ~Known => After("public_nic_setup") = Old
         /\ Known => Wrote(Old, After("public_nic_setup"), "nic0",
                           {Setting(i) : i \in job.items \cap {"public", "v6"}})
<1> DEFINE given == {Setting(i) : i \in job.items \cap {"public", "v6"}}
<1>1. given \in SUBSET Settings /\ "nic0" \in Files
  BY AskedSettings DEF AskedFor, Files
<1>2. After("public_nic_setup") = IF Known THEN Write("nic0", given) ELSE Old
  BY DEF After, public_nic_setup
<1> HIDE DEF given
<1>3. Wrote(Old, Write("nic0", given), "nic0", given)
  BY <1>1, WriteWrote DEF Write
<1>4. /\ ~Known => After("public_nic_setup") = Old
      /\ Known => Wrote(Old, After("public_nic_setup"), "nic0", given)
  BY <1>2, <1>3
<1> QED
  BY <1>4 DEF given

LEMMA UnixPrivate ==
  ASSUME JobOK, Old \in Contents, ~Win
  PROVE  /\ ~Known \/ ~Asked("private") => After("private_nic_setup") = Old
         /\ Known /\ Asked("private") =>
              IF Family \in {"rhl", "fed"}
              THEN Wrote(Old, After("private_nic_setup"), "nic1", {Setting("private")})
              ELSE Wrote(Old, After("private_nic_setup"), "nic0",
                         Old.file["nic0"] \cup {Setting("private")})
<1>1. CASE Known /\ Asked("private")
  <2>1. {Setting("private")} \in SUBSET Settings
        /\ Old.file["nic0"] \cup {Setting("private")} \in SUBSET Settings
        /\ "nic0" \in Files /\ "nic1" \in Files
    BY <1>1, AskedSettings DEF Asked, Files, Contents
  <2>2. /\ Wrote(Old, Write("nic1", {Setting("private")}), "nic1", {Setting("private")})
        /\ Wrote(Old, AddTo("nic0", {Setting("private")}), "nic0",
                 Old.file["nic0"] \cup {Setting("private")})
    BY <2>1, WriteWrote DEF Write, AddTo
  <2>3. After("private_nic_setup") =
          IF Family \in {"rhl", "fed"} THEN Write("nic1", {Setting("private")})
          ELSE AddTo("nic0", {Setting("private")})
    BY <1>1 DEF After, private_nic_setup
  <2> QED
    BY <1>1, <2>2, <2>3
<1>2. CASE ~(Known /\ Asked("private"))
  BY <1>2 DEF After, private_nic_setup
<1> QED
  BY <1>1, <1>2

LEMMA UnixVpc ==
  ASSUME JobOK, Old \in Contents, ~Win
  PROVE  /\ ~(Asked("vpc") /\ Family = "deb") => After("vpc_gw_nic_setup") = Old
         /\ Asked("vpc") /\ Family = "deb" =>
              Wrote(Old, After("vpc_gw_nic_setup"), "nic0",
                    Old.file["nic0"] \cup {Setting("vpc")})
<1>1. CASE Asked("vpc") /\ Family = "deb"
  <2>1. Old.file["nic0"] \cup {Setting("vpc")} \in SUBSET Settings /\ "nic0" \in Files
    BY <1>1, AskedSettings DEF Asked, Files, Contents
  <2>2. Wrote(Old, AddTo("nic0", {Setting("vpc")}), "nic0",
              Old.file["nic0"] \cup {Setting("vpc")})
    BY <2>1, WriteWrote DEF AddTo
  <2>3. After("vpc_gw_nic_setup") = AddTo("nic0", {Setting("vpc")})
    BY <1>1 DEF After, vpc_gw_nic_setup
  <2> QED
    BY <1>1, <2>2, <2>3
<1>2. CASE ~(Asked("vpc") /\ Family = "deb")
  BY <1>2 DEF After, vpc_gw_nic_setup
<1> QED
  BY <1>1, <1>2

LEMMA UnixKeys ==
  ASSUME JobOK, Old \in Contents, ~Win
  PROVE  /\ ~Asked("keys") => After("set_pubic_keys") = Old
         /\ Asked("keys") => Wrote(Old, After("set_pubic_keys"), "authorized_keys",
                                   {Setting("keys")})
<1>1. CASE Asked("keys")
  <2>1. {Setting("keys")} \in SUBSET Settings /\ "authorized_keys" \in Files
    BY <1>1, AskedSettings DEF Asked, Files
  <2>2. Wrote(Old, Write("authorized_keys", {Setting("keys")}), "authorized_keys",
              {Setting("keys")})
    BY <2>1, WriteWrote DEF Write
  <2>3. After("set_pubic_keys") = Write("authorized_keys", {Setting("keys")})
    BY <1>1 DEF After, set_pubic_keys
  <2> QED
    BY <1>1, <2>2, <2>3
<1>2. CASE ~Asked("keys")
  BY <1>2 DEF After, set_pubic_keys
<1> QED
  BY <1>1, <1>2

LEMMA UnixHost ==
  ASSUME JobOK, Old \in Contents, ~Win
  PROVE  Wrote(Old, After("set_hostname"), "hostname", {Setting("host")})
<1>1. {Setting("host")} \in SUBSET Settings /\ "hostname" \in Files
  BY AskedSettings DEF Always, Files
<1>2. Wrote(Old, Write("hostname", {Setting("host")}), "hostname", {Setting("host")})
  BY <1>1, WriteWrote DEF Write
<1>3. After("set_hostname") = Write("hostname", {Setting("host")})
  BY DEF After, set_hostname
<1> QED
  BY <1>2, <1>3

LEMMA UnixPassword ==
  ASSUME JobOK, Old \in Contents, ~Win
  PROVE  Wrote(Old, After("reset_root_passwd"), "shadow", {Setting("password")})
<1>1. {Setting("password")} \in SUBSET Settings /\ "shadow" \in Files
  BY AskedSettings DEF Always, Files
<1>2. Wrote(Old, Write("shadow", {Setting("password")}), "shadow", {Setting("password")})
  BY <1>1, WriteWrote DEF Write
<1>3. After("reset_root_passwd") = Write("shadow", {Setting("password")})
  BY DEF After, reset_root_passwd
<1> QED
  BY <1>2, <1>3

Idle == {"launch", "mount_root"}

LEMMA UnixOther ==
  ASSUME ~Win, NEW call \in Idle \cup {"resize_fs", "clearfix", "clearfix_again"}
  PROVE  After(call) = Old
BY DEF Idle, After, resize_fs, clearfix

LEMMA WinIs == Win => Known /\ Family = "win"
BY DEF Win, Known

LEMMA WinPublic ==
  ASSUME JobOK, Old \in Contents, Win
  PROVE  Scripted(Old, After("public_nic_setup"), Add(<<>>, Setting("public"), TRUE))
<1>1. Add(<<>>, Setting("public"), TRUE) \in Seq(Lines)
  <2>1. Setting("public") \in Commands /\ <<>> \in Seq(Lines)
    BY AskedSettings DEF Always
  <2> QED
    BY <2>1, AddTyped
<1>2. After("public_nic_setup") = [Old EXCEPT !.script = Add(<<>>, Setting("public"), TRUE)]
  BY DEF After, public_nic_setup
<1> QED
  BY <1>1, <1>2, ScriptScripted

LEMMA WinScript ==
  ASSUME Old \in Contents, NEW cmd \in Commands, NEW ended \in BOOLEAN
  PROVE  Scripted(Old, Script(cmd, ended), Add(Old.script, cmd, ended))
<1>1. Old.script \in Seq(Lines)
  BY DEF Contents
<1>2. Add(Old.script, cmd, ended) \in Seq(Lines)
  BY <1>1, AddTyped
<1>3. Script(cmd, ended) = [Old EXCEPT !.script = Add(Old.script, cmd, ended)]
  BY DEF Script
<1> QED
  BY <1>2, <1>3, ScriptScripted

LEMMA WinPrivate ==
  ASSUME JobOK, Old \in Contents, Win
  PROVE  /\ ~Asked("private") => After("private_nic_setup") = Old
         /\ Asked("private") => Scripted(Old, After("private_nic_setup"),
                                         Add(Old.script, Setting("private"), FALSE))
<1>1. Asked("private") => Setting("private") \in Commands
  BY AskedSettings DEF Asked
<1>2. After("private_nic_setup") =
        IF ~Asked("private") THEN Old ELSE Script(Setting("private"), FALSE)
  BY WinIs DEF After, private_nic_setup
<1> QED
  BY <1>1, <1>2, WinScript

LEMMA WinHost ==
  ASSUME JobOK, Old \in Contents, Win
  PROVE  Scripted(Old, After("set_hostname"), Add(Old.script, Setting("host"), FALSE))
<1>1. Setting("host") \in Commands
  BY AskedSettings DEF Always
<1>2. After("set_hostname") = Script(Setting("host"), FALSE)
  BY DEF After, set_hostname
<1> QED
  BY <1>1, <1>2, WinScript

LEMMA WinPassword ==
  ASSUME JobOK, Old \in Contents, Win
  PROVE  Scripted(Old, After("reset_root_passwd"), Add(Old.script, Setting("password"), TRUE))
<1>1. Setting("password") \in Commands
  BY AskedSettings DEF Always
<1>2. After("reset_root_passwd") = Script(Setting("password"), TRUE)
  BY DEF After, reset_root_passwd
<1> QED
  BY <1>1, <1>2, WinScript

LEMMA WinResize ==
  ASSUME JobOK, Old \in Contents, Win
  PROVE  Scripted(Old, After("resize_fs"), Add(Old.script, <<"diskpart", 0>>, TRUE))
<1>1. <<"diskpart", 0>> \in Commands
  BY AskedSettings
<1>2. After("resize_fs") = Script(<<"diskpart", 0>>, TRUE)
  BY DEF After, resize_fs
<1> QED
  BY <1>1, <1>2, WinScript

LEMMA WinClearfix ==
  ASSUME JobOK, Old \in Contents, Win
  PROVE  Scripted(Old, After("clearfix"),
                  Add(Add(Old.script, Shutdown, TRUE), Clean, TRUE))
<1>1. Old.script \in Seq(Lines) /\ Shutdown \in Commands /\ Clean \in Commands
  BY AskedSettings DEF Contents
<1>2. Add(Old.script, Shutdown, TRUE) \in Seq(Lines)
  BY <1>1, AddTyped
<1>3. Add(Add(Old.script, Shutdown, TRUE), Clean, TRUE) \in Seq(Lines)
  BY <1>1, <1>2, AddTyped
<1>4. After("clearfix") = [Old EXCEPT !.script = Add(Add(Old.script, Shutdown, TRUE), Clean, TRUE)]
  BY DEF After, clearfix
<1> QED
  BY <1>3, <1>4, ScriptScripted

LEMMA WinClearfixAgain ==
  ASSUME JobOK, Old \in Contents, Win
  PROVE  Scripted(Old, After("clearfix_again"), Add(Old.script, Clean, TRUE))
<1>1. Old.script \in Seq(Lines) /\ Clean \in Commands
  BY AskedSettings DEF Contents
<1>2. Add(Old.script, Clean, TRUE) \in Seq(Lines)
  BY <1>1, AddTyped
<1>3. After("clearfix_again") = [Old EXCEPT !.script = Add(Old.script, Clean, TRUE)]
  BY DEF After, clearfix
<1> QED
  BY <1>2, <1>3, ScriptScripted

LEMMA WinOther ==
  ASSUME Win, NEW call \in Idle \cup {"vpc_gw_nic_setup", "set_pubic_keys"}
  PROVE  After(call) = Old
BY WinIs DEF Idle, After, vpc_gw_nic_setup, set_pubic_keys

-----------------------------------------------------------------------------
(* The order of the calls: what a handler has yet to do is the rest of its *)
(* list, and At is the call it is about to make.                           *)
Images == {"image", "snapshot"}
Kinds == {"deploy_template", "deploy_image", "reset_password"}
Steps(kind) == IF kind = "reset_password" THEN Reset ELSE Run
Resets == job.kind = "reset_password"

Calls == Idle \cup {"public_nic_setup", "private_nic_setup", "vpc_gw_nic_setup",
  "set_pubic_keys", "set_hostname", "reset_root_passwd", "resize_fs", "clearfix",
  "clearfix_again"}
Named == Calls \cup {"convert", "close"}

(* Every variable the proof speaks of keeps its type.                      *)
GuestTypeOK ==
  /\ fs \in [Images -> Contents]
  /\ told \in [Items -> Nat]
  /\ requests \in 0..MaxRequests /\ made \in 0..requests
  /\ DOMAIN answer = Images /\ locked \subseteq Images
  /\ early \in BOOLEAN

(* A handler has its job, the newest, and of its list of calls the last    *)
(* few yet to make; nobody serves a job between handlers.                  *)
Ordered ==
  IF todo = <<>> THEN job = NoJob
  ELSE /\ job.kind \in Kinds
       /\ Always \subseteq job.items /\ job.items \subseteq Items
       /\ job.n = requests /\ requests > 0
       /\ todo \in Seq(Named)
       /\ Len(todo) <= Len(Steps(job.kind))
       /\ \A k \in 1..Len(todo) :
            todo[k] = Steps(job.kind)[Len(Steps(job.kind)) - Len(todo) + k]
       /\ early = TRUE => Resets

At == IF todo = <<>> THEN "none" ELSE todo[1]

LEMMA StepsLen ==
  /\ Len(Run) = 12 /\ Len(Reset) = 5
  /\ Run[1] = "convert" /\ Run[2] = "launch" /\ Run[3] = "mount_root"
  /\ Run[4] = "public_nic_setup" /\ Run[5] = "private_nic_setup"
  /\ Run[6] = "vpc_gw_nic_setup" /\ Run[7] = "set_pubic_keys" /\ Run[8] = "set_hostname"
  /\ Run[9] = "reset_root_passwd" /\ Run[10] = "resize_fs" /\ Run[11] = "clearfix"
  /\ Run[12] = "close"
  /\ Reset[1] = "launch" /\ Reset[2] = "mount_root" /\ Reset[3] = "reset_root_passwd"
  /\ Reset[4] = "clearfix_again" /\ Reset[5] = "close"
BY DEF Run, Reset

(* Call b follows call a in run() and in reset_password().                 *)
RunNext(a, b) ==
  \/ a = "convert" /\ b = "launch"
  \/ a = "launch" /\ b = "mount_root"
  \/ a = "mount_root" /\ b = "public_nic_setup"
  \/ a = "public_nic_setup" /\ b = "private_nic_setup"
  \/ a = "private_nic_setup" /\ b = "vpc_gw_nic_setup"
  \/ a = "vpc_gw_nic_setup" /\ b = "set_pubic_keys"
  \/ a = "set_pubic_keys" /\ b = "set_hostname"
  \/ a = "set_hostname" /\ b = "reset_root_passwd"
  \/ a = "reset_root_passwd" /\ b = "resize_fs"
  \/ a = "resize_fs" /\ b = "clearfix"
  \/ a = "clearfix" /\ b = "close"
ResetNext(a, b) ==
  \/ a = "launch" /\ b = "mount_root"
  \/ a = "mount_root" /\ b = "reset_root_passwd"
  \/ a = "reset_root_passwd" /\ b = "clearfix_again"
  \/ a = "clearfix_again" /\ b = "close"
Goes(a, b) == IF Resets THEN ResetNext(a, b) ELSE RunNext(a, b)

LEMMA Lengths == /\ Len(Run) = 12 /\ Len(Reset) = 5
                 /\ Resets => Steps(job.kind) = Reset
                 /\ ~Resets => Steps(job.kind) = Run
BY StepsLen DEF Resets, Steps

LEMMA ResetAt ==
  ASSUME NEW n \in 1..5, NEW a, a = Reset[5 - n + 1]
  PROVE  /\ n = 5 => a = "launch"
         /\ n = 4 => a = "mount_root"
         /\ n = 3 => a = "reset_root_passwd"
         /\ n = 2 => a = "clearfix_again"
         /\ n = 1 => a = "close"
BY StepsLen

LEMMA RunAt ==
  ASSUME NEW n \in 1..12, NEW a, a = Run[12 - n + 1]
  PROVE  /\ n = 12 => a = "convert"
         /\ n = 11 => a = "launch"
         /\ n = 10 => a = "mount_root"
         /\ n = 9 => a = "public_nic_setup"
         /\ n = 8 => a = "private_nic_setup"
         /\ n = 7 => a = "vpc_gw_nic_setup"
         /\ n = 6 => a = "set_pubic_keys"
         /\ n = 5 => a = "set_hostname"
         /\ n = 4 => a = "reset_root_passwd"
         /\ n = 3 => a = "resize_fs"
         /\ n = 2 => a = "clearfix"
         /\ n = 1 => a = "close"
BY StepsLen

LEMMA AtLast ==
  ASSUME Ordered, todo # <<>>
  PROVE  /\ Len(todo) \in 1..Len(Steps(job.kind))
         /\ At = Steps(job.kind)[Len(Steps(job.kind)) - Len(todo) + 1]
         /\ At = Head(todo)
         /\ (At = "close" <=> Len(todo) = 1)
<1>1. Len(todo) \in Nat /\ Len(todo) > 0 /\ todo[1] = Head(todo)
  BY DEF Ordered
<1>2. /\ Len(todo) \in 1..Len(Steps(job.kind))
      /\ At = Steps(job.kind)[Len(Steps(job.kind)) - Len(todo) + 1]
  BY <1>1, Lengths DEF Ordered, At
<1>3. At = "close" <=> Len(todo) = 1
  <2>1. CASE Resets
    <3>1. Len(todo) \in 1..5 /\ At = Reset[5 - Len(todo) + 1]
      BY <1>2, <2>1, Lengths
    <3>2. Len(todo) \in {1, 2, 3, 4, 5}
      BY <3>1
    <3> QED
      BY <3>1, <3>2, ResetAt
  <2>2. CASE ~Resets
    <3>1. Len(todo) \in 1..12 /\ At = Run[12 - Len(todo) + 1]
      BY <1>2, <2>2, Lengths
    <3>2. Len(todo) \in {1, 2, 3, 4, 5, 6, 7, 8, 9, 10, 11, 12}
      BY <3>1
    <3> QED
      BY <3>1, <3>2, RunAt
  <2> QED
    BY <2>1, <2>2
<1> QED
  BY <1>1, <1>2, <1>3 DEF At

LEMMA NextCall ==
  ASSUME Ordered, todo # <<>>, At # "close", todo' = Tail(todo),
         UNCHANGED <<job, requests, early>>
  PROVE  todo' # <<>> /\ Ordered' /\ Goes(At, At')
<1>1. PICK n : n = Len(todo)
  OBVIOUS
<1>2. PICK steps : steps = Steps(job.kind)
  OBVIOUS
<1>3. /\ n \in 2..Len(steps) /\ Len(steps) \in {5, 12}
      /\ At = steps[Len(steps) - n + 1]
  BY <1>1, <1>2, AtLast, StepsLen DEF Steps
<1>4. PICK t : t = todo'
  OBVIOUS
<1>5. todo \in Seq(Named) /\ \A k \in 1..n : todo[k] = steps[Len(steps) - n + k]
  BY <1>1, <1>2 DEF Ordered
<1>6. /\ t \in Seq(Named) /\ Len(t) = n - 1
      /\ \A k \in 1..Len(t) : t[k] = todo[k + 1]
  BY <1>1, <1>3, <1>4, <1>5
<1>7. \A k \in 1..Len(t) : t[k] = steps[Len(steps) - Len(t) + k]
  <2>1. TAKE k \in 1..Len(t)
  <2>2. PICK j : j = k + 1
    OBVIOUS
  <2>3. j \in 1..n /\ Len(steps) - n + j = Len(steps) - Len(t) + k
    BY <1>3, <1>6, <2>2
  <2> QED
    BY <1>5, <1>6, <2>2, <2>3
<1>8. t # <<>> /\ t[1] = steps[Len(steps) - n + 2]
  BY <1>3, <1>6, <1>7
<1>9. Ordered'
  <2>1. job' = job /\ requests' = requests /\ early' = early
    OBVIOUS
  <2> QED
    BY <1>2, <1>3, <1>4, <1>6, <1>7, <1>8, <2>1 DEF Ordered, Resets, Steps
<1>10. At' = steps[Len(steps) - n + 2]
  BY <1>4, <1>8 DEF At
<1>11. Goes(At, At')
  <2>1. CASE Resets
    <3>1. Len(steps) = 5 /\ steps = Reset
      BY <1>2, <2>1, Lengths
    <3>2. n \in 2..5 /\ n - 1 \in 1..5 /\ 5 - (n - 1) + 1 = 5 - n + 2
      BY <1>3, <3>1
    <3>3. At = Reset[5 - n + 1] /\ At' = Reset[5 - (n - 1) + 1]
      BY <1>3, <1>10, <3>1, <3>2
    <3>4. n \in {2, 3, 4, 5}
      BY <3>2
    <3> QED
      BY <2>1, <3>2, <3>3, <3>4, ResetAt DEF Goes, ResetNext
  <2>2. CASE ~Resets
    <3>1. Len(steps) = 12 /\ steps = Run
      BY <1>2, <2>2, Lengths
    <3>2. n \in 2..12 /\ n - 1 \in 1..12 /\ 12 - (n - 1) + 1 = 12 - n + 2
      BY <1>3, <3>1
    <3>3. At = Run[12 - n + 1] /\ At' = Run[12 - (n - 1) + 1]
      BY <1>3, <1>10, <3>1, <3>2
    <3>4. n \in {2, 3, 4, 5, 6, 7, 8, 9, 10, 11, 12}
      BY <3>2
    <3> QED
      BY <2>2, <3>2, <3>3, <3>4, RunAt DEF Goes, RunNext
  <2> QED
    BY <2>1, <2>2
<1> QED
  BY <1>4, <1>8, <1>9, <1>11

-----------------------------------------------------------------------------
(* What every call keeps: the settings in the image are those of a set E,  *)
(* and those of other items stay where they are.                           *)
LEMMA WroteKeeps ==
  ASSUME NEW c \in Contents, NEW d, NEW f \in Files, NEW settings, NEW E,
         Wrote(c, d, f, settings), Holds(c, E), settings \subseteq E
  PROVE  Holds(d, E)
<1>1. d.script = c.script
  BY DEF Wrote
<1>2. \A g \in Files : d.file[g] \subseteq E
  BY DEF Wrote, Holds
<1> QED
  BY <1>1, <1>2 DEF Holds

LEMMA AddsKeep ==
  ASSUME NEW c \in Contents, NEW d, NEW cmd \in Commands, NEW e \in BOOLEAN, NEW E,
         Scripted(c, d, Add(c.script, cmd, e)), Holds(c, E), cmd \in E \cup Others
  PROVE  Holds(d, E)
<1>1. d.file = c.file /\ d.script = Add(c.script, cmd, e)
  BY DEF Scripted
<1>2. c.script \in Seq(Lines) /\ CommandsIn(c.script, E)
  BY DEF Contents, Holds
<1>3. CommandsIn(Add(c.script, cmd, e), E)
  BY <1>2, AddIn
<1> QED
  BY <1>1, <1>3 DEF Holds

LEMMA EmptyIn == ASSUME NEW E PROVE <<>> \in Seq(Lines) /\ CommandsIn(<<>>, E)
BY DEF CommandsIn

LEMMA UnixHolds ==
  ASSUME JobOK, Old \in Contents, ~Win, NEW call \in Calls, NEW E,
         Holds(Old, E), AskedFor \subseteq E
  PROVE  Holds(After(call), E)
<1>1. PICK c : c = Old
  OBVIOUS
<1>2. /\ c \in Contents /\ Holds(c, E)
      /\ "nic0" \in Files /\ "nic1" \in Files /\ "authorized_keys" \in Files
      /\ "hostname" \in Files /\ "shadow" \in Files
  BY <1>1 DEF Files
<1>3. \A i \in job.items : Setting(i) \in E
  BY AskedSettings
<1>4. c.file["nic0"] \subseteq E
  BY <1>2 DEF Holds
<1>5. CASE call = "public_nic_setup"
  <2>1. {Setting(i) : i \in job.items \cap {"public", "v6"}} \subseteq E
    BY <1>3
  <2>2. CASE Known
    BY <1>1, <1>2, <1>5, <2>1, <2>2, UnixPublic, WroteKeeps
  <2>3. CASE ~Known
    BY <1>5, <2>3, UnixPublic
  <2> QED
    BY <2>2, <2>3
<1>6. CASE call = "private_nic_setup"
  <2>1. CASE Known /\ Asked("private")
    <3>1. {Setting("private")} \subseteq E
          /\ c.file["nic0"] \cup {Setting("private")} \subseteq E
      BY <1>3, <1>4, <2>1 DEF Asked
    <3>2. CASE Family \in {"rhl", "fed"}
      BY <1>1, <1>2, <1>6, <2>1, <3>1, <3>2, UnixPrivate, WroteKeeps
    <3>3. CASE Family \notin {"rhl", "fed"}
      BY <1>1, <1>2, <1>6, <2>1, <3>1, <3>3, UnixPrivate, WroteKeeps
    <3> QED
      BY <3>2, <3>3
  <2>2. CASE ~(Known /\ Asked("private"))
    BY <1>6, <2>2, UnixPrivate
  <2> QED
    BY <2>1, <2>2
<1>7. CASE call = "vpc_gw_nic_setup"
  <2>1. CASE Asked("vpc") /\ Family = "deb"
    <3>1. c.file["nic0"] \cup {Setting("vpc")} \subseteq E
      BY <1>3, <1>4, <2>1 DEF Asked
    <3> QED
      BY <1>1, <1>2, <1>7, <2>1, <3>1, UnixVpc, WroteKeeps
  <2>2. CASE ~(Asked("vpc") /\ Family = "deb")
    BY <1>7, <2>2, UnixVpc
  <2> QED
    BY <2>1, <2>2
<1>8. CASE call = "set_pubic_keys"
  <2>1. CASE Asked("keys")
    <3>1. {Setting("keys")} \subseteq E
      BY <1>3, <2>1 DEF Asked
    <3> QED
      BY <1>1, <1>2, <1>8, <2>1, <3>1, UnixKeys, WroteKeeps
  <2>2. CASE ~Asked("keys")
    BY <1>8, <2>2, UnixKeys
  <2> QED
    BY <2>1, <2>2
<1>9. CASE call = "set_hostname"
  <2>1. {Setting("host")} \subseteq E
    BY <1>3, AskedSettings DEF Always
  <2> QED
    BY <1>1, <1>2, <1>9, <2>1, UnixHost, WroteKeeps
<1>10. CASE call = "reset_root_passwd"
  <2>1. {Setting("password")} \subseteq E
    BY <1>3, AskedSettings DEF Always
  <2> QED
    BY <1>1, <1>2, <1>10, <2>1, UnixPassword, WroteKeeps
<1>11. CASE call \in Idle \cup {"resize_fs", "clearfix", "clearfix_again"}
  BY <1>11, UnixOther
<1> QED
  BY <1>5, <1>6, <1>7, <1>8, <1>9, <1>10, <1>11 DEF Calls

LEMMA WinHolds ==
  ASSUME JobOK, Old \in Contents, Win, NEW call \in Calls, NEW E,
         Holds(Old, E), AskedFor \subseteq E
  PROVE  Holds(After(call), E)
<1>1. PICK c : c = Old
  OBVIOUS
<1>2. c \in Contents /\ Holds(c, E) /\ c.script \in Seq(Lines) /\ CommandsIn(c.script, E)
  BY <1>1 DEF Contents, Holds
<1>3. \A i \in job.items : Setting(i) \in E \cup Others /\ Setting(i) \in Commands
  BY AskedSettings
<1>4. "public" \in job.items /\ "host" \in job.items /\ "password" \in job.items
  BY AskedSettings DEF Always
<1>5. \A cmd \in {Shutdown, Clean, <<"diskpart", 0>>} : cmd \in E \cup Others /\ cmd \in Commands
  BY AskedSettings DEF Others
<1>6. CASE call = "public_nic_setup"
  <2>1. PICK d : d = After(call)
    OBVIOUS
  <2>2. d.file = c.file /\ d.script = Add(<<>>, Setting("public"), TRUE)
    BY <1>1, <1>6, <2>1, WinPublic DEF Scripted
  <2>3. CommandsIn(Add(<<>>, Setting("public"), TRUE), E)
    BY <1>3, <1>4, AddIn, EmptyIn
  <2> QED
    BY <1>2, <2>1, <2>2, <2>3 DEF Holds
<1>7. CASE call = "private_nic_setup"
  <2>1. CASE Asked("private")
    BY <1>1, <1>2, <1>3, <1>7, <2>1, WinPrivate, AddsKeep DEF Asked
  <2>2. CASE ~Asked("private")
    BY <1>7, <2>2, WinPrivate
  <2> QED
    BY <2>1, <2>2
<1>8. CASE call = "set_hostname"
  BY <1>1, <1>2, <1>3, <1>4, <1>8, WinHost, AddsKeep
<1>9. CASE call = "reset_root_passwd"
  BY <1>1, <1>2, <1>3, <1>4, <1>9, WinPassword, AddsKeep
<1>10. CASE call = "resize_fs"
  BY <1>1, <1>2, <1>5, <1>10, WinResize, AddsKeep
<1>11. CASE call = "clearfix"
  <2>1. PICK d : d = After(call)
    OBVIOUS
  <2>2. d.file = c.file /\ d.script = Add(Add(c.script, Shutdown, TRUE), Clean, TRUE)
    BY <1>1, <1>11, <2>1, WinClearfix DEF Scripted
  <2>3. PICK s : s = Add(c.script, Shutdown, TRUE)
    OBVIOUS
  <2>4. s \in Seq(Lines) /\ CommandsIn(s, E)
    BY <1>2, <1>5, <2>3, AddIn, AddTyped
  <2>5. CommandsIn(Add(s, Clean, TRUE), E)
    BY <1>5, <2>4, AddIn
  <2> QED
    BY <1>2, <2>1, <2>2, <2>3, <2>5 DEF Holds
<1>12. CASE call = "clearfix_again"
  BY <1>1, <1>2, <1>5, <1>12, WinClearfixAgain, AddsKeep
<1>13. CASE call \in Idle \cup {"vpc_gw_nic_setup", "set_pubic_keys"}
  BY <1>13, WinOther
<1> QED
  BY <1>6, <1>7, <1>8, <1>9, <1>10, <1>11, <1>12, <1>13 DEF Calls

LEMMA CallHolds ==
  ASSUME JobOK, Old \in Contents, NEW call \in Calls, NEW E,
         Holds(Old, E), AskedFor \subseteq E
  PROVE  Holds(After(call), E)
BY UnixHolds, WinHolds

(* Image d has at least the settings of c, and what Windows took.          *)
Kept(c, d) ==
  /\ d \in Contents /\ d.taken = c.taken
  /\ Win => d.file = c.file
  /\ ~Win => d.script = c.script

LEMMA WroteKept ==
  ASSUME ~Win, NEW c, NEW d, NEW f, NEW settings, Wrote(c, d, f, settings)
  PROVE  Kept(c, d)
BY DEF Kept, Wrote

LEMMA ScriptedKept ==
  ASSUME Win, NEW c, NEW d, NEW s, Scripted(c, d, s)
  PROVE  Kept(c, d)
BY DEF Kept, Scripted

LEMMA CallKept ==
  ASSUME JobOK, Old \in Contents, NEW call \in Calls
  PROVE  Kept(Old, After(call))
<1>1. After(call) = Old => Kept(Old, After(call))
  BY DEF Kept
<1>2. CASE Win
  <2>1. CASE call = "public_nic_setup"
    BY <1>2, <2>1, WinPublic, ScriptedKept
  <2>2. CASE call = "private_nic_setup"
    BY <1>1, <1>2, <2>2, WinPrivate, ScriptedKept
  <2>3. CASE call = "set_hostname"
    BY <1>2, <2>3, WinHost, ScriptedKept
  <2>4. CASE call = "reset_root_passwd"
    BY <1>2, <2>4, WinPassword, ScriptedKept
  <2>5. CASE call = "resize_fs"
    BY <1>2, <2>5, WinResize, ScriptedKept
  <2>6. CASE call = "clearfix"
    BY <1>2, <2>6, WinClearfix, ScriptedKept
  <2>7. CASE call = "clearfix_again"
    BY <1>2, <2>7, WinClearfixAgain, ScriptedKept
  <2>8. CASE call \in Idle \cup {"vpc_gw_nic_setup", "set_pubic_keys"}
    BY <1>1, <1>2, <2>8, WinOther
  <2> QED
    BY <2>1, <2>2, <2>3, <2>4, <2>5, <2>6, <2>7, <2>8 DEF Calls
<1>3. CASE ~Win
  <2>1. CASE call = "public_nic_setup"
    BY <1>1, <1>3, <2>1, UnixPublic, WroteKept
  <2>2. CASE call = "private_nic_setup"
    BY <1>1, <1>3, <2>2, UnixPrivate, WroteKept
  <2>3. CASE call = "vpc_gw_nic_setup"
    BY <1>1, <1>3, <2>3, UnixVpc, WroteKept
  <2>4. CASE call = "set_pubic_keys"
    BY <1>1, <1>3, <2>4, UnixKeys, WroteKept
  <2>5. CASE call = "set_hostname"
    BY <1>3, <2>5, UnixHost, WroteKept
  <2>6. CASE call = "reset_root_passwd"
    BY <1>3, <2>6, UnixPassword, WroteKept
  <2>7. CASE call \in Idle \cup {"resize_fs", "clearfix", "clearfix_again"}
    BY <1>1, <1>3, <2>7, UnixOther
  <2> QED
    BY <2>1, <2>2, <2>3, <2>4, <2>5, <2>6, <2>7 DEF Calls
<1> QED
  BY <1>2, <1>3

-----------------------------------------------------------------------------
(* What the guest finds and takes at its start.                            *)

(* What Taken is of item i: what Windows has, or a setting that is found,  *)
(* and the greatest of them.                                               *)
Takes(i) ==
  /\ Taken[i] \in Nat /\ Has(i) \in Nat /\ Has(i) <= Taken[i]
  /\ Taken[i] = Has(i) \/ (Taken[i] \in 1..MaxRequests /\ <<i, Taken[i]>> \in Found)
  /\ \A n \in 1..MaxRequests : <<i, n>> \in Found => n <= Taken[i]

AllTake == \A i \in Items : Takes(i)

LEMMA TakenFacts == Image \in Contents => AllTake
<1> SUFFICES ASSUME Image \in Contents, NEW i \in Items PROVE Takes(i)
  BY DEF AllTake
<1>1. Has(i) \in Nat
  BY DEF Has, Contents
<1> DEFINE S == {Has(i)} \cup {n \in 1..MaxRequests : <<i, n>> \in Found}
<1>2. Taken[i] = Max(S)
  BY DEF Taken
<1>3. PICK h : h = Has(i)
  OBVIOUS
<1>4. S # {} /\ h + MaxRequests \in Nat /\ S \subseteq 0..h + MaxRequests
  BY <1>1, <1>3, BoundAssumption
<1>5. Max(S) \in S /\ \A y \in S : y <= Max(S)
  <2> HIDE DEF S
  <2> QED
    BY <1>4, MaxIn
<1>6. PICK m : m = Max(S)
  OBVIOUS
<1>7. m = h \/ (m \in 1..MaxRequests /\ <<i, m>> \in Found)
  BY <1>3, <1>5, <1>6
<1>8. h <= m /\ \A n \in 1..MaxRequests : <<i, n>> \in Found => n <= m
  BY <1>3, <1>5, <1>6
<1> QED
  BY <1>1, <1>2, <1>3, <1>6, <1>7, <1>8, BoundAssumption DEF Takes

LEMMA TakenNat ==
  ASSUME Image \in Contents
  PROVE  Taken \in [Items -> Nat]
<1>1. \A i \in Items : Taken[i] \in Nat
  BY TakenFacts DEF Takes, AllTake
<1>2. Taken = [i \in Items |-> Taken[i]]
  BY DEF Taken
<1> QED
  BY <1>1, <1>2

LEMMA ExecutedIn ==
  ASSUME NEW s \in Seq(Lines), NEW E, CommandsIn(s, E), NEW x \in Executed(s)
  PROVE  x \in E \cup Others
<1>1. PICK k \in 1..Len(s) : Len(s[k].cmds) = 1 /\ x = s[k].cmds[1]
  BY ExecutedIs
<1>2. 1 \in 1..Len(s[k].cmds)
  BY <1>1
<1> QED
  BY <1>1, <1>2 DEF CommandsIn

LEMMA NotExecuted ==
  ASSUME NEW s \in Seq(Lines), NEW c, NoLine(s, c)
  PROVE  c \notin Executed(s)
<1>1. SUFFICES ASSUME c \in Executed(s) PROVE FALSE
  OBVIOUS
<1>2. PICK k \in 1..Len(s) : Len(s[k].cmds) = 1 /\ c = s[k].cmds[1]
  BY <1>1, ExecutedIs
<1>3. PICK q : q = s[k].cmds
  OBVIOUS
<1>4. q \in Seq(Commands) /\ Len(q) = 1 /\ q[1] = c
  BY <1>2, <1>3, LineOf
<1>5. q = <<c>>
  BY <1>4
<1> QED
  BY <1>3, <1>5 DEF NoLine

LEMMA FirstExecuted ==
  ASSUME NEW s \in Seq(Lines), s # <<>>, NEW c, s[1].cmds = <<c>>
  PROVE  c \in Executed(s)
<1>1. 1 \in 1..Len(s) /\ Len(<<c>>) = 1 /\ <<c>>[1] = c
  OBVIOUS
<1>2. Reaches(s, 1)
  BY DEF Reaches
<1> QED
  BY <1>1, <1>2, ExecutedIs

LEMMA NothingExecuted == Executed(<<>>) = {}
BY DEF Executed

LEMMA ItemNot == ASSUME NEW i \in Items, NEW n PROVE <<i, n>> \notin Others
BY DEF Items, Others, Shutdown, Clean

LEMMA FoundIn ==
  ASSUME Image \in Contents, NEW E, Holds(Image, E), NEW i \in Items, NEW n,
         <<i, n>> \in Found
  PROVE  <<i, n>> \in E
<1>1. CASE Win
  <2>1. <<i, n>> \in Executed(Image.script) /\ Image.script \in Seq(Lines)
        /\ CommandsIn(Image.script, E)
    BY <1>1 DEF Found, Contents, Holds
  <2> QED
    BY <2>1, ExecutedIn, ItemNot
<1>2. CASE ~Win
  BY <1>2 DEF Found, Holds
<1> QED
  BY <1>1, <1>2

LEMMA HasIs ==
  /\ ~Win => \A i \in Items : Has(i) = 0
  /\ Win => \A i \in Items \ {"private"} : Has(i) = Image.taken[i]
  /\ Win /\ (\A n \in 1..MaxRequests : <<"public", n>> \notin Found) =>
       Has("private") = Image.taken["private"]
  /\ Win /\ (\E n \in 1..MaxRequests : <<"public", n>> \in Found) =>
       Has("private") = 0
BY DEF Has

-----------------------------------------------------------------------------
(* The inductive invariant.                                                *)

(* The calls yet to come once an item has been set, and the file of a Unix *)
(* it is set in.                                                           *)
AfterResize == {"clearfix", "close"}
AfterPassword == {"resize_fs"} \cup AfterResize
AfterHost == {"reset_root_passwd"} \cup AfterPassword
AfterKeys == {"set_hostname"} \cup AfterHost
AfterVpc == {"set_pubic_keys"} \cup AfterKeys
AfterPrivate == {"vpc_gw_nic_setup"} \cup AfterVpc
AfterPublic == {"private_nic_setup"} \cup AfterPrivate

Behind(i) == CASE i \in {"public", "v6"} -> AfterPublic
               [] i = "private" -> AfterPrivate
               [] i = "vpc" -> AfterVpc
               [] i = "keys" -> AfterKeys
               [] i = "host" -> AfterHost
               [] OTHER -> AfterPassword
Place(i) == CASE i \in {"public", "v6", "vpc"} -> "nic0"
              [] i = "private" -> (IF Family \in {"rhl", "fed"} THEN "nic1" ELSE "nic0")
              [] i = "host" -> "hostname"
              [] i = "password" -> "shadow"
              [] OTHER -> "authorized_keys"

(* The handler has not configured image x yet.                             *)
Untouched(x) ==
  \/ x # On
  \/ At \in {"convert", "launch", "mount_root", "public_nic_setup"}
  \/ Resets /\ At = "reset_root_passwd"
Idling == todo = <<>>

(* The newest request that is answered, and the newest that image x may    *)
(* have settings of.                                                       *)
Answered == IF Idling THEN requests ELSE requests - 1
Newest(x) == IF ~Idling /\ Untouched(x) THEN requests - 1 ELSE requests

(* Images, guests and answers know no request that has not come yet; an    *)
(* image knows the newest one only once its handler has written.           *)
Bounded ==
  /\ \A x \in Images : Holds(fs[x], Items \X (0..Newest(x)))
  /\ \A x \in Images : \A i \in Items : fs[x].taken[i] <= Answered
  /\ \A i \in Items : told[i] <= Answered

(* From the conversion on, nothing was answered for the image, and what    *)
(* made it is the request at hand or none.                                 *)
Configuring ==
  ~Idling /\ ~Resets /\ At # "convert" =>
    /\ told = NoSettings
    /\ made = IF On = "snapshot" THEN requests ELSE 0

OnTemplate == ~Idling /\ job.kind = "deploy_template" /\ At # "convert"

(* An image made from the template has settings of its own request only:   *)
(* NothingStale and TakesEffect of a create from a template rest on it.    *)
Fresh ==
  OnTemplate => Holds(Image, job.items \X {requests}) /\ Image.taken = NoSettings

(* A Unix has them in their files as soon as the call that writes them is  *)
(* past: no later call overwrites the file.                                *)
UnixFresh ==
  OnTemplate /\ ~Win => \A i \in Supported \cap job.items :
    At \in Behind(i) => <<i, requests>> \in Image.file[Place(i)]

(* On Windows the first line sets the public address, and the password is  *)
(* never alone in a line.                                                  *)
WinFresh ==
  OnTemplate /\ Win =>
    /\ At \in AfterPublic =>
         Image.script[1] = [cmds |-> <<<<"public", requests>>>>, ended |-> TRUE]
    /\ At \notin AfterPublic => Image.script = <<>>
    /\ NoLine(Image.script, <<"password", requests>>)

(* The script of run(): it is never empty, the host name does not end its  *)
(* line and the password does, and clearfix() makes it whole.              *)
WinRun ==
  Win /\ ~Idling /\ ~Resets =>
    /\ At \in AfterPublic => Old.script # <<>>
    /\ At \in AfterPublic \ {"close"} => NoLine(Old.script, Clean)
    /\ At = "reset_root_passwd" => ~Ended(Old.script)
    /\ At \in AfterPassword => Ended(Old.script)
    /\ At = "close" => Whole(Old.script)

(* On Windows an image that no failed handler has left empties its script  *)
(* at the next start, or has none.                                         *)
ReadyInv ==
  Win => \A x \in Images :
    x \notin spoilt /\ (Idling \/ Untouched(x)) => Ready(fs[x].script)

NewPassword == [cmds |-> <<<<"password", requests>>>>, ended |-> TRUE]
CleanLine == [cmds |-> <<Clean>>, ended |-> TRUE]

(* While a password is reset: early is what was found when it began; a     *)
(* Unix has the new password in its file; on Windows it is behind the line *)
(* that empties the script if it is early, and the only line before it if  *)
(* not.                                                                    *)
Resetting ==
  ~Idling /\ Resets =>
    /\ Untouched("image") => (early = TRUE <=> Image.script # <<>>)
    /\ ~Win /\ ~Untouched("image") => <<"password", requests>> \in Image.file["shadow"]
    /\ Win /\ ~Untouched("image") /\ "image" \notin spoilt =>
         /\ early = TRUE => /\ Whole(Image.script)
                            /\ <<"password", requests>> \notin Executed(Image.script)
         /\ early = FALSE /\ At = "clearfix_again" => Image.script = <<NewPassword>>
         /\ early = FALSE /\ At = "close" => Image.script = <<NewPassword, CleanLine>>

(* Of item i, the guest would take at its next start what it was told;     *)
(* anything else is older than the making of the image.                    *)
Settles(i) ==
  /\ i \in Supported /\ told[i] \notin {0, made} => Taken[i] = told[i]
  /\ Taken[i] \notin {0, told[i]} => Taken[i] < made
Settled ==
  "image" \notin spoilt /\ (Idling \/ Resets) =>
    \A i \in Items \ {"password"} : Settles(i)

(* The same of the password, for which Windows knows the two cases of      *)
(* TakesEffect; it holds when no handler is at work.                       *)
PasswordSettled ==
  "image" \notin spoilt /\ Idling =>
    /\ "password" \in Supported /\ told["password"] \notin {0, made} =>
         Taken["password"] = told["password"]
    /\ Win => (Taken["password"] = told["password"]
                 <=> (told["password"] > told["host"] /\ early = FALSE))
    /\ Taken["password"] \notin {0, told["password"]} =>
         Taken["password"] < made \/ (Win /\ early = TRUE)

(* A guest runs only between handlers; it has taken what its image offers, *)
(* and its script has been emptied.                                        *)
Live ==
  power = "running" =>
    /\ Idling
    /\ "image" \notin spoilt => guest = Taken /\ Image.script = <<>>

(* A Unix has no script, and its file of passwords has nothing else.       *)
UnixScript == ~Win => \A x \in Images : fs[x].script = <<>>
Shadow == \A x \in Images : \A e \in fs[x].file["shadow"] : e[1] = "password"

(* A session holds an image only if its last handler failed, or is at work *)
(* on it.                                                                  *)
Held ==
  /\ Idling => \A x \in locked : answer[x] = "error"
  /\ ~Idling => \A x \in locked : x = On \/ answer[x] = "error"

GInv ==
  /\ GuestTypeOK /\ Ordered /\ Bounded /\ Configuring /\ Fresh /\ UnixFresh /\ WinFresh
  /\ WinRun /\ ReadyInv /\ Resetting /\ Settled /\ PasswordSettled /\ Live
  /\ UnixScript /\ Shadow /\ Held

LEMMA SameSystem ==
  ASSUME UNCHANGED distro
  PROVE  (Win' <=> Win) /\ (Known' <=> Known) /\ Family' = Family /\ Supported' = Supported
<1>1. Family' = Family
  BY DEF Family
<1>2. (Win' <=> Win) /\ (Known' <=> Known)
  BY <1>1 DEF Win, Known
<1> QED
  BY <1>1, <1>2 DEF Supported

LEMMA HoldsMore ==
  ASSUME NEW c, NEW E, NEW F, Holds(c, E), E \subseteq F
  PROVE  Holds(c, F)
<1>1. \A f \in Files : c.file[f] \subseteq F
  BY DEF Holds
<1>2. CommandsIn(c.script, F)
  BY DEF Holds, CommandsIn
<1> QED
  BY <1>1, <1>2 DEF Holds

LEMMA SameTaken ==
  ASSUME Image \in Contents, Image' \in Contents, NEW i \in Items, Has(i)' = Has(i),
         \A n \in 1..MaxRequests : (<<i, n>> \in Found)' <=> <<i, n>> \in Found
  PROVE  Taken'[i] = Taken[i]
<1>1. Takes(i)
  BY TakenFacts DEF AllTake
<1>2. Takes(i)'
  <2>1. (Image \in Contents => AllTake)'
    BY TakenFacts, PTL
  <2> QED
    BY <2>1 DEF AllTake
<1>3. PICK a : a = Taken[i]
  OBVIOUS
<1>4. PICK b : b = Taken'[i]
  OBVIOUS
<1>5. PICK h : h = Has(i)
  OBVIOUS
<1>6. /\ a \in Nat /\ h \in Nat /\ h <= a
      /\ a = h \/ (a \in 1..MaxRequests /\ <<i, a>> \in Found)
      /\ \A n \in 1..MaxRequests : <<i, n>> \in Found => n <= a
  BY <1>1, <1>3, <1>5 DEF Takes
<1>7. /\ b \in Nat /\ h <= b
      /\ b = h \/ (b \in 1..MaxRequests /\ <<i, b>> \in Found')
      /\ \A n \in 1..MaxRequests : <<i, n>> \in Found' => n <= b
  BY <1>2, <1>4, <1>5 DEF Takes
<1>8. a <= b /\ b <= a
  BY <1>6, <1>7
<1> QED
  BY <1>3, <1>4, <1>6, <1>7, <1>8

-----------------------------------------------------------------------------
(* The initial states, and a new request.                                  *)

LEMMA StillTaken ==
  ASSUME UNCHANGED distro, Image' = Image, Image \in Contents
  PROVE  Taken' = Taken
<1>1. (Win' <=> Win)
  BY SameSystem
<1>2. Found' = Found
  BY <1>1 DEF Found
<1>3. ASSUME NEW i \in Items PROVE Has(i)' = Has(i)
  BY <1>1, <1>2 DEF Has
<1>4. ASSUME NEW i \in Items PROVE Taken'[i] = Taken[i]
  BY <1>2, <1>3, SameTaken
<1>5. Taken = [i \in Items |-> Taken[i]] /\ Taken' = [i \in Items |-> Taken'[i]]
  BY DEF Taken
<1> QED
  BY <1>4, <1>5

LEMMA EmptyHolds == ASSUME NEW E PROVE Holds(Template, E)
BY EmptyIn DEF Holds, Template

LEMMA TemplateIs ==
  Template \in Contents /\ Template.script = <<>> /\ Template.taken = NoSettings
  /\ NoSettings \in [Items -> Nat] /\ \A f \in Files : Template.file[f] = {}
BY EmptyIn DEF Template, Contents, NoSettings

LEMMA InitGInv == Init => GInv
<1> SUFFICES ASSUME Init PROVE GInv
  OBVIOUS
<1> USE TemplateIs, BoundAssumption DEF Init
<1>1. GuestTypeOK
  <2>1. fs \in [Images -> Contents] /\ DOMAIN fs = Images
    BY DEF Images
  <2>2. DOMAIN answer = Images /\ locked \subseteq Images
    BY <2>1
  <2>3. requests \in 0..MaxRequests
    <3>1. requests = 0
      OBVIOUS
    <3> HIDE TemplateIs DEF Init
    <3> QED
      BY <3>1, BoundAssumption
  <2>5. early = FALSE
    OBVIOUS
  <2>4. made \in 0..requests
    OBVIOUS
  <2> QED
    BY <2>1, <2>2, <2>3, <2>4, <2>5 DEF GuestTypeOK
<1>2. Ordered /\ Idling
  BY DEF Ordered, Idling
<1>3. \A x \in Images : fs[x] = Template
  BY DEF Images
<1>4. Bounded
  BY <1>2, <1>3, EmptyHolds DEF Bounded, Answered, NoSettings
<1>5. Configuring /\ Fresh /\ UnixFresh /\ WinFresh /\ WinRun /\ Resetting
  BY <1>2 DEF Configuring, Fresh, UnixFresh, WinFresh, OnTemplate, WinRun, Resetting
<1>6. ReadyInv
  BY <1>3 DEF ReadyInv, Ready
<1>7. Settled /\ PasswordSettled /\ Live
  BY DEF Settled, PasswordSettled, Live
<1>8. UnixScript /\ Shadow
  BY <1>3 DEF UnixScript, Shadow, Files
<1>9. Held
  BY DEF Held
<1> QED
  BY <1>1, <1>2, <1>4, <1>5, <1>6, <1>7, <1>8, <1>9 DEF GInv

LEMMA RequestStarts ==
  ASSUME GInv, NEW j \in Jobs, Request(j)
  PROVE  /\ Ordered' /\ todo' # <<>>
         /\ Resets' => At' = "launch"
         /\ ~Resets' => At' = "convert"
<1>1. PICK kind : kind = j.kind
  OBVIOUS
<1>2. kind \in Kinds
  BY <1>1, JobsAssumption DEF Kinds
<1>3. /\ todo' = Steps(kind) /\ job' = [kind |-> j.kind, items |-> j.items \cup Always, n |-> requests + 1]
      /\ requests' = requests + 1 /\ requests \in Nat
  BY <1>1, BoundAssumption DEF Request, Steps, GInv, GuestTypeOK
<1>12. early' = TRUE => kind = "reset_password"
  BY <1>1 DEF Request
<1>4. job'.kind = kind /\ job'.items = j.items \cup Always /\ job'.n = requests'
  BY <1>1, <1>3
<1>5. PICK t : t = Steps(kind)
  OBVIOUS
<1>6. t \in Seq(Named) /\ t # <<>> /\ Len(t) \in Nat
  <2>1. Run \in Seq(Named) /\ Run # <<>> /\ Len(Run) \in Nat
    BY DEF Run, Named, Calls, Idle
  <2>2. Reset \in Seq(Named) /\ Reset # <<>> /\ Len(Reset) \in Nat
    BY DEF Reset, Named, Calls, Idle
  <2> QED
    BY <1>5, <2>1, <2>2 DEF Steps
<1>7. \A k \in 1..Len(t) : t[k] = t[Len(t) - Len(t) + k]
  BY <1>6
<1>8. Always \subseteq job'.items /\ job'.items \subseteq Items
  BY <1>4, JobsAssumption DEF Always, Items
<1>9. Ordered'
  BY <1>2, <1>3, <1>4, <1>5, <1>6, <1>7, <1>8, <1>12 DEF Ordered, Resets
<1>10. Resets' <=> kind = "reset_password"
  BY <1>4 DEF Resets
<1>11. At' = t[1] /\ todo' # <<>>
  BY <1>3, <1>5, <1>6 DEF At
<1> QED
  BY <1>5, <1>9, <1>10, <1>11, StepsLen DEF Steps

LEMMA RequestGInv ==
  ASSUME GInv, NEW j \in Jobs, Request(j)
  PROVE  GInv'
<1>1. /\ Ordered' /\ ~Idling' /\ Idling
      /\ Resets' => At' = "launch"
      /\ ~Resets' => At' = "convert"
  BY RequestStarts DEF Idling, Request
<1>2. /\ UNCHANGED <<distro, fs, locked, guest, answer, told, made, spoilt>>
      /\ requests' = requests + 1 /\ requests < MaxRequests /\ power' = "off"
      /\ early' = (j.kind = "reset_password" /\ fs["image"].script # <<>>)
      /\ job'.kind = j.kind
  BY DEF Request
<1>3. GuestTypeOK /\ requests \in Nat /\ requests' \in Nat
  BY <1>2, BoundAssumption DEF GInv, GuestTypeOK
<1>4. GuestTypeOK'
  BY <1>2, <1>3, BoundAssumption DEF GuestTypeOK
<1>5. \A x \in Images : Untouched(x)'
  BY <1>1 DEF Untouched
<1>6. Bounded'
  <2>1. Answered' = Answered /\ \A x \in Images : Newest(x)' = Newest(x)
    BY <1>1, <1>2, <1>3, <1>5 DEF Answered, Newest
  <2>2. \A x \in Images : Holds(fs[x], Items \X (0..Newest(x)))'
    <3>1. TAKE x \in Images
    <3>2. Holds(fs[x], Items \X (0..Newest(x))) /\ fs' = fs /\ Newest(x)' = Newest(x)
      BY <1>2, <2>1 DEF GInv, Bounded
    <3> QED
      BY <3>2 DEF Holds
  <2> QED
    BY <1>2, <2>1, <2>2 DEF GInv, Bounded
<1>7. (Configuring /\ Fresh /\ UnixFresh /\ WinFresh)'
  <2>1. ~OnTemplate'
    BY <1>1 DEF OnTemplate, Resets
  <2> QED
    BY <1>1, <2>1 DEF Configuring, Fresh, UnixFresh, WinFresh
<1>8. WinRun'
  BY <1>1 DEF WinRun, AfterPublic, AfterPrivate, AfterVpc, AfterKeys, AfterHost,
              AfterPassword, AfterResize
<1>9. (Win' <=> Win)
  BY <1>2, SameSystem
<1>10. ReadyInv'
  BY <1>1, <1>2, <1>9 DEF GInv, ReadyInv
<1>11. Resetting'
  <2>1. Untouched("image")'
    BY <1>5 DEF Images
  <2> QED
    BY <1>2, <2>1 DEF Resetting, Image, Resets
<1>12. Settled'
  <2>1. Taken' = Taken
    BY <1>2, <1>3, StillTaken DEF Image, GuestTypeOK, Images
  <2>2. Supported' = Supported
    BY <1>2, SameSystem
  <2> QED
    BY <1>1, <1>2, <2>1, <2>2 DEF GInv, Settled, Settles
<1>13. (PasswordSettled /\ Live)'
  BY <1>1, <1>2 DEF PasswordSettled, Live
<1>14. (UnixScript /\ Shadow)'
  BY <1>2, <1>9 DEF GInv, UnixScript, Shadow
<1>15. Held'
  BY <1>1, <1>2 DEF GInv, Held
<1> QED
  BY <1>1, <1>4, <1>6, <1>7, <1>8, <1>10, <1>11, <1>12, <1>13, <1>14, <1>15 DEF GInv

-----------------------------------------------------------------------------
(* What ends or leaves alone: a handler that fails, a crash, sessions that *)
(* are collected, a guest that powers off, a snapshot.                     *)

(* The parts that speak of a handler at work.                              *)
InRun == Configuring /\ Fresh /\ UnixFresh /\ WinFresh /\ WinRun /\ Resetting

LEMMA NoCall == Idling => InRun
BY DEF InRun, Configuring, Fresh, UnixFresh, WinFresh, OnTemplate, WinRun, Resetting

LEMMA Idles ==
  ASSUME Idling'
  PROVE  (Configuring /\ Fresh /\ UnixFresh /\ WinFresh /\ WinRun /\ Resetting)'
<1>1. (Idling => InRun)'
  BY NoCall, PTL
<1> QED
  BY <1>1 DEF InRun

LEMMA EndOrdered ==
  ASSUME todo' = <<>>, job' = NoJob
  PROVE  Ordered' /\ Idling' /\ On' = "image"
BY DEF Ordered, Idling, On, NoJob

LEMMA StopsGInv ==
  ASSUME GInv, todo # <<>>, Ends(FALSE), spoilt' = spoilt \cup {"image", On},
         told' = told, locked' \subseteq locked
  PROVE  GInv'
<1>1. /\ todo' = <<>> /\ job' = NoJob /\ answer' = [answer EXCEPT ![On] = "error"]
      /\ UNCHANGED <<distro, fs, power, guest, requests, early, made>>
      /\ ~Idling
  BY DEF Ends, Idling
<1>2. Ordered' /\ Idling' /\ On' = "image"
  BY <1>1, EndOrdered
<1>3. GuestTypeOK /\ requests \in Nat
  BY BoundAssumption DEF GInv, GuestTypeOK
<1>4. GuestTypeOK'
  BY <1>1, <1>3 DEF GuestTypeOK
<1>5. Bounded'
  <2>1. Newest("image")' = requests /\ Newest("snapshot")' = requests /\ Answered' = requests
    BY <1>1, <1>2 DEF Newest, Answered
  <2>2. /\ Answered <= requests
        /\ \A x \in Images : Newest(x) <= requests /\ Newest(x) \in Int
    BY <1>3 DEF Newest, Answered
  <2>3. ASSUME NEW x \in Images PROVE Holds(fs'[x], Items \X (0..Newest(x)'))
    <3>1. Holds(fs[x], Items \X (0..Newest(x)))
      BY DEF GInv, Bounded
    <3>2. 0..Newest(x) \subseteq 0..requests
      BY <1>3, <2>2
    <3>3. Holds(fs[x], Items \X (0..requests))
      <4>1. Items \X (0..Newest(x)) \subseteq Items \X (0..requests)
        BY <3>2
      <4> QED
        BY <3>1, <4>1, HoldsMore
    <3> QED
      BY <1>1, <2>1, <3>3 DEF Images
  <2>6. PICK a : a = Answered
    OBVIOUS
  <2>7. a \in Int /\ a <= requests
    BY <1>3, <2>6 DEF Answered
  <2>4. ASSUME NEW x \in Images, NEW i \in Items PROVE fs[x].taken[i] <= requests
    <3>1. fs[x].taken[i] \in Nat
      BY <1>3 DEF GuestTypeOK, Contents
    <3>2. fs[x].taken[i] <= a
      BY <2>6 DEF GInv, Bounded
    <3> QED
      BY <1>3, <2>7, <3>1, <3>2
  <2>5. ASSUME NEW i \in Items PROVE told[i] <= requests
    <3>1. told[i] \in Nat
      BY <1>3 DEF GuestTypeOK
    <3>2. told[i] <= a
      BY <2>6 DEF GInv, Bounded
    <3> QED
      BY <1>3, <2>7, <3>1, <3>2
  <2> QED
    BY <1>1, <2>1, <2>3, <2>4, <2>5 DEF Bounded
<1>6. (Configuring /\ Fresh /\ UnixFresh /\ WinFresh /\ WinRun /\ Resetting)'
  BY <1>2, Idles
<1>7. (Win' <=> Win)
  BY <1>1, SameSystem
<1>8. ReadyInv'
  BY <1>1, <1>7 DEF GInv, ReadyInv, Untouched
<1>9. (Settled /\ PasswordSettled)'
  BY DEF Settled, PasswordSettled
<1>10. Live'
  BY <1>1 DEF GInv, Live
<1>11. (UnixScript /\ Shadow)'
  BY <1>1, <1>7 DEF GInv, UnixScript, Shadow
<1>12. Held'
  BY <1>1, <1>2, <1>3 DEF GInv, Held, GuestTypeOK
<1> QED
  BY <1>2, <1>4, <1>5, <1>6, <1>8, <1>9, <1>10, <1>11, <1>12 DEF GInv

LEMMA RestGInv ==
  ASSUME GInv, Idling, locked' \subseteq locked, power' \in {power, "off"},
         UNCHANGED <<distro, fs, job, todo, guest, requests, answer, told, early, made, spoilt>>
  PROVE  GInv'
<1>1. Ordered' /\ Idling'
  BY DEF GInv, Ordered, Idling
<1>2. GuestTypeOK /\ requests \in Nat
  BY BoundAssumption DEF GInv, GuestTypeOK
<1>3. GuestTypeOK'
  BY <1>2 DEF GuestTypeOK
<1>4. Bounded'
  <2>1. Answered' = Answered /\ \A x \in Images : Newest(x)' = Newest(x)
    BY <1>1 DEF Answered, Newest
  <2>2. \A x \in Images : Holds(fs[x], Items \X (0..Newest(x)))'
    <3>1. TAKE x \in Images
    <3>2. Holds(fs[x], Items \X (0..Newest(x))) /\ fs' = fs /\ Newest(x)' = Newest(x)
      BY <2>1 DEF GInv, Bounded
    <3> QED
      BY <3>2 DEF Holds
  <2> QED
    BY <2>1, <2>2 DEF GInv, Bounded
<1>5. (Configuring /\ Fresh /\ UnixFresh /\ WinFresh /\ WinRun /\ Resetting)'
  BY <1>1, Idles
<1>6. (Win' <=> Win) /\ Supported' = Supported
  BY SameSystem
<1>7. ReadyInv'
  BY <1>1, <1>6 DEF GInv, ReadyInv
<1>8. Image' = Image /\ Taken' = Taken
  BY <1>2, StillTaken DEF Image, GuestTypeOK, Images
<1>9. (Settled /\ PasswordSettled)'
  BY <1>1, <1>6, <1>8 DEF GInv, Settled, Settles, PasswordSettled
<1>10. Live'
  BY <1>1, <1>8 DEF GInv, Live
<1>11. (UnixScript /\ Shadow)'
  BY <1>6 DEF GInv, UnixScript, Shadow
<1>12. Held'
  BY <1>1 DEF GInv, Held
<1> QED
  BY <1>1, <1>3, <1>4, <1>5, <1>7, <1>9, <1>10, <1>11, <1>12 DEF GInv

LEMMA TakeSnapshotGInv ==
  ASSUME GInv, TakeSnapshot
  PROVE  GInv'
<1>1. /\ Idling
      /\ fs' = [fs EXCEPT !["snapshot"] = fs["image"]]
      /\ spoilt' = IF "image" \in spoilt THEN spoilt \cup {"snapshot"} ELSE spoilt \ {"snapshot"}
      /\ UNCHANGED <<distro, job, todo, locked, power, guest, requests, answer, told, early, made>>
  BY DEF TakeSnapshot, Idling
<1>2. GuestTypeOK /\ requests \in Nat
  BY BoundAssumption DEF GInv, GuestTypeOK
<1>3. fs'["image"] = fs["image"] /\ fs'["snapshot"] = fs["image"] /\ fs["image"] \in Contents
  BY <1>1, <1>2 DEF GuestTypeOK, Images
<1>4. Ordered' /\ Idling'
  BY <1>1 DEF GInv, Ordered, Idling
<1>5. GuestTypeOK'
  BY <1>1, <1>2, <1>3 DEF GuestTypeOK, Images
<1>6. Bounded'
  <2>1. /\ Answered = requests /\ Answered' = requests /\ Newest("image") = requests
        /\ Newest("image")' = requests /\ Newest("snapshot")' = requests
    BY <1>1, <1>4 DEF Answered, Newest
  <2>2. Holds(fs["image"], Items \X (0..requests))
    BY <2>1 DEF GInv, Bounded, Images
  <2>3. \A x \in Images : Holds(fs[x], Items \X (0..Newest(x)))'
    BY <1>3, <2>1, <2>2 DEF Images
  <2>4. \A i \in Items : fs["image"].taken[i] <= requests
    BY <2>1 DEF GInv, Bounded, Images
  <2>5. \A x \in Images : \A i \in Items : (fs[x].taken[i] <= Answered)'
    BY <1>3, <2>1, <2>4 DEF Images
  <2>6. \A i \in Items : (told[i] <= Answered)'
    BY <1>1, <2>1 DEF GInv, Bounded
  <2> QED
    BY <2>3, <2>5, <2>6 DEF Bounded
<1>7. (Configuring /\ Fresh /\ UnixFresh /\ WinFresh /\ WinRun /\ Resetting)'
  BY <1>4, Idles
<1>8. (Win' <=> Win) /\ Supported' = Supported
  BY <1>1, SameSystem
<1>9. ReadyInv'
  BY <1>1, <1>3, <1>8 DEF GInv, ReadyInv, Images
<1>10. Image' = Image /\ Taken' = Taken
  BY <1>1, <1>3, StillTaken DEF Image
<1>11. (Settled /\ PasswordSettled)'
  BY <1>1, <1>8, <1>10 DEF GInv, Settled, Settles, PasswordSettled
<1>12. Live'
  BY <1>1, <1>4, <1>10 DEF GInv, Live
<1>13. UnixScript'
  BY <1>3, <1>8 DEF GInv, UnixScript, Images
<1>14. Shadow'
  BY <1>3 DEF GInv, Shadow, Images
<1>15. Held'
  BY <1>1, <1>4 DEF GInv, Held
<1> QED
  BY <1>4, <1>5, <1>6, <1>7, <1>9, <1>11, <1>12, <1>13, <1>14, <1>15 DEF GInv

-----------------------------------------------------------------------------
(* The image is made; the guest starts.                                    *)

LEMMA Fits ==
  ASSUME GInv, ~Idling
  PROVE  /\ JobOK /\ Old \in Contents /\ On \in Images /\ requests \in Nat \ {0}
         /\ job.n = requests /\ At \in Named
         /\ (On = "image" <=> job.kind # "deploy_image")
         /\ requests \in 1..MaxRequests
<1>1. requests \in 0..MaxRequests /\ fs \in [Images -> Contents] /\ requests > 0
      /\ job.n = requests /\ job.items \subseteq Items /\ Always \subseteq job.items
      /\ todo \in Seq(Named) /\ todo # <<>>
  BY DEF GInv, GuestTypeOK, Ordered, Idling
<1>2. requests \in Nat \ {0} /\ requests \in 1..MaxRequests
  BY <1>1, BoundAssumption
<1>3. At \in Named
  BY <1>1 DEF At
<1>4. On \in Images /\ (On = "image" <=> job.kind # "deploy_image")
  BY DEF On, Images
<1> QED
  BY <1>1, <1>2, <1>3, <1>4 DEF JobOK, Old

LEMMA ConvertGInv ==
  ASSUME GInv, Convert
  PROVE  GInv'
<1>1. /\ todo # <<>> /\ Head(todo) = "convert" /\ todo' = Tail(todo)
      /\ fs' = [fs EXCEPT !["image"] = Source]
      /\ spoilt' = IF On = "snapshot" /\ "snapshot" \in spoilt
                   THEN spoilt \cup {"image"} ELSE spoilt \ {"image"}
      /\ made' = (IF On = "snapshot" THEN job.n ELSE 0) /\ told' = NoSettings
      /\ UNCHANGED <<distro, job, locked, power, guest, requests, answer, early>>
  BY DEF Convert
<1>2. GuestTypeOK /\ Ordered /\ ~Idling
  BY <1>1 DEF GInv, Idling
<1>3. At = "convert"
  BY <1>1, <1>2, AtLast
<1>4. Ordered' /\ todo' # <<>> /\ Goes(At, At')
  BY <1>1, <1>2, <1>3, NextCall
<1>5. At' = "launch" /\ ~Resets /\ ~Idling' /\ On' = On /\ ~Resets'
  BY <1>1, <1>3, <1>4 DEF Goes, ResetNext, RunNext, Idling, On, Resets
<1>6. /\ requests \in Nat \ {0} /\ job.n = requests /\ On \in Images
      /\ (On = "image" <=> job.kind # "deploy_image")
  BY <1>2, Fits
<1>7. /\ On = "image" => Source = Template
      /\ On = "snapshot" => Source = fs["snapshot"]
      /\ On \in {"image", "snapshot"}
  BY <1>6 DEF Source, On, Images
<1>8. Source \in Contents
  BY <1>2, <1>7, TemplateIs DEF GuestTypeOK, Images
<1>9. fs'["image"] = Source /\ fs'["snapshot"] = fs["snapshot"]
  BY <1>1, <1>2 DEF GuestTypeOK, Images
<1>10. GuestTypeOK'
  <2>1. fs' \in [Images -> Contents]
    BY <1>1, <1>2, <1>8 DEF GuestTypeOK
  <2>2. made' \in 0..requests
    BY <1>1, <1>6
  <2> QED
    BY <1>1, <1>2, <2>1, <2>2, TemplateIs DEF GuestTypeOK
<1>11. Bounded'
  <2>1. \A x \in Images : Untouched(x) /\ Untouched(x)'
    BY <1>3, <1>5 DEF Untouched
  <2>2. /\ Answered = requests - 1 /\ Answered' = requests - 1
        /\ \A x \in Images : Newest(x) = requests - 1 /\ Newest(x)' = requests - 1
    BY <1>1, <1>2, <1>5, <2>1 DEF Newest, Answered
  <2>3. Holds(fs["snapshot"], Items \X (0..requests - 1))
        /\ \A i \in Items : fs["snapshot"].taken[i] <= requests - 1
    BY <2>2 DEF GInv, Bounded, Images
  <2>4. Holds(Source, Items \X (0..requests - 1))
    BY <1>7, <2>3, EmptyHolds
  <2>5. 0 <= requests - 1
    BY <1>6
  <2>6. \A i \in Items : Source.taken[i] <= requests - 1
    BY <1>7, <2>3, <2>5, TemplateIs DEF NoSettings
  <2>7. \A x \in Images : Holds(fs'[x], Items \X (0..Newest(x)'))
    BY <1>9, <2>2, <2>3, <2>4 DEF Images
  <2>8. \A x \in Images : \A i \in Items : (fs[x].taken[i] <= Answered)'
    BY <1>9, <2>2, <2>3, <2>6 DEF Images
  <2>9. \A i \in Items : (told[i] <= Answered)'
    BY <1>1, <2>2, <2>5 DEF NoSettings
  <2> QED
    BY <2>7, <2>8, <2>9 DEF Bounded
<1>12. Configuring'
  BY <1>1, <1>5, <1>6 DEF Configuring
<1>13. OnTemplate' => Image' = Template
  <2>1. OnTemplate' => On = "image"
    BY <1>1, <1>6 DEF OnTemplate
  <2> QED
    BY <1>7, <1>9, <2>1 DEF Image
<1>14. Fresh'
  <2>1. OnTemplate' => Holds(Image', (job.items \X {requests})') /\ Image'.taken = NoSettings
    BY <1>13, EmptyHolds, TemplateIs
  <2> QED
    BY <2>1 DEF Fresh
<1>15. UnixFresh'
  BY <1>5
     DEF UnixFresh, Behind, AfterPublic, AfterPrivate, AfterVpc, AfterKeys, AfterHost,
              AfterPassword, AfterResize
<1>16. WinFresh'
  <2>1. At' \notin AfterPublic
    BY <1>5 DEF AfterPublic, AfterPrivate, AfterVpc, AfterKeys, AfterHost, AfterPassword,
                AfterResize
  <2>2. OnTemplate' => Image'.script = <<>>
    BY <1>13, TemplateIs
  <2> QED
    BY <2>1, <2>2 DEF WinFresh, NoLine
<1>17. WinRun'
  BY <1>5 DEF WinRun, AfterPublic, AfterPrivate, AfterVpc, AfterKeys, AfterHost,
              AfterPassword, AfterResize
<1>18. (Win' <=> Win)
  BY <1>1, SameSystem
<1>19. ReadyInv'
  <2>1. Win /\ "snapshot" \notin spoilt => Ready(fs["snapshot"].script)
    BY <1>3 DEF GInv, ReadyInv, Untouched, Images
  <2>2. Win /\ "snapshot" \notin spoilt' => Ready(fs'["snapshot"].script)
    BY <1>1, <1>9, <2>1
  <2>3. Win /\ "image" \notin spoilt' => Ready(fs'["image"].script)
    BY <1>1, <1>7, <1>9, <2>1, TemplateIs DEF Ready
  <2> QED
    BY <1>18, <2>2, <2>3 DEF ReadyInv, Images
<1>20. Resetting' /\ Settled' /\ PasswordSettled'
  BY <1>5 DEF Resetting, Settled, PasswordSettled
<1>21. Live'
  BY <1>1, <1>2 DEF GInv, Live
<1>22. UnixScript'
  BY <1>7, <1>9, <1>18, TemplateIs DEF GInv, UnixScript, Images
<1>23. Shadow'
  BY <1>7, <1>9, TemplateIs DEF GInv, Shadow, Images, Files
<1>24. Held'
  BY <1>1, <1>2, <1>5 DEF GInv, Held
<1> QED
  BY <1>4, <1>10, <1>11, <1>12, <1>14, <1>15, <1>16, <1>17, <1>19, <1>20, <1>21, <1>22,
     <1>23, <1>24 DEF GInv

LEMMA TakenBound ==
  ASSUME Image \in Contents, NEW b \in Int, Holds(Image, Items \X (0..b)), NEW i \in Items,
         Image.taken[i] <= b, 0 <= b
  PROVE  Taken[i] <= b
<1>1. Takes(i)
  BY TakenFacts DEF AllTake
<1>2. Image.taken[i] \in Nat
  BY DEF Contents
<1>3. Has(i) <= b
  BY <1>2 DEF Has
<1>4. CASE <<i, Taken[i]>> \in Found
  BY <1>4, FoundIn
<1> QED
  BY <1>1, <1>3, <1>4 DEF Takes

LEMMA BootKeeps ==
  ASSUME GInv, Boot
  PROVE  /\ Image' = Started /\ Started \in Contents
         /\ Image' \in Contents /\ Started.file = Image.file
         /\ Win => Started.taken = Taken
         /\ ~Win => Started = Image
         /\ Started.script = Image.script \/ Started.script = <<>>
         /\ "image" \notin spoilt => Started.script = <<>>
<1>1. Image \in Contents /\ fs' = [fs EXCEPT !["image"] = Started] /\ fs \in [Images -> Contents]
  BY DEF GInv, GuestTypeOK, Image, Boot, Images
<1>2. Image' = Started
  BY <1>1 DEF Image, Images
<1>3. CASE Win
  <2>1. PICK s : s = IF Clean \in Executed(Image.script) THEN <<>> ELSE Image.script
    OBVIOUS
  <2>2. Image.script \in Seq(Lines) /\ s \in Seq(Lines) /\ (s = Image.script \/ s = <<>>)
    BY <1>1, <2>1, EmptyIn DEF Contents
  <2>3. Taken \in [Items -> Nat]
    BY <1>1, TakenNat
  <2>4. Started = [Image EXCEPT !.taken = Taken, !.script = s]
    BY <1>3, <2>1 DEF Started
  <2>5. Started \in Contents /\ Started.file = Image.file /\ Started.taken = Taken
        /\ Started.script = s
    BY <1>1, <2>2, <2>3, <2>4 DEF Contents
  <2>6. "image" \notin spoilt => Ready(Image.script)
    BY <1>3 DEF GInv, ReadyInv, Idling, Boot, Image, Images
  <2>7. "image" \notin spoilt => s = <<>>
    BY <2>1, <2>2, <2>6, WholeCleans DEF Ready
  <2> QED
    BY <1>2, <1>3, <2>2, <2>5, <2>7
<1>4. CASE ~Win
  BY <1>1, <1>2, <1>4 DEF Started, GInv, UnixScript, Images, Image
<1> QED
  BY <1>3, <1>4

LEMMA BootGInv ==
  ASSUME GInv, Boot
  PROVE  GInv'
<1>1. /\ Idling /\ power' = "running" /\ guest' = Taken
      /\ fs' = [fs EXCEPT !["image"] = Started]
      /\ UNCHANGED <<distro, job, todo, locked, requests, answer, told, early, made, spoilt>>
  BY DEF Boot, Idling
<1>2. GuestTypeOK /\ requests \in Nat /\ Image \in Contents
  BY BoundAssumption DEF GInv, GuestTypeOK, Image, Images
<1>3. fs'["image"] = Started /\ fs'["snapshot"] = fs["snapshot"] /\ Started \in Contents
      /\ Image' = Started
  BY <1>1, <1>2, BootKeeps DEF GuestTypeOK, Images
<1>4. Ordered' /\ Idling'
  BY <1>1 DEF GInv, Ordered, Idling
<1>5. GuestTypeOK'
  BY <1>1, <1>2, <1>3 DEF GuestTypeOK
<1>6. Bounded'
  <2>1. /\ Answered = requests /\ Answered' = requests
        /\ \A x \in Images : Newest(x) = requests /\ Newest(x)' = requests
    BY <1>1, <1>4 DEF Answered, Newest
  <2>2. \A x \in Images : Holds(fs[x], Items \X (0..requests))
    BY <2>1 DEF GInv, Bounded
  <2>3. \A x \in Images : \A i \in Items : fs[x].taken[i] <= requests
    BY <2>1 DEF GInv, Bounded
  <2>4. Holds(Image, Items \X (0..requests)) /\ \A i \in Items : Image.taken[i] <= requests
    BY <2>2, <2>3 DEF Image, Images
  <2>5. \A i \in Items : Taken[i] <= requests
    BY <1>2, <2>4, TakenBound
  <2>6. \A i \in Items : Started.taken[i] <= requests
    BY <2>4, <2>5, BootKeeps
  <2>7. Holds(Started, Items \X (0..requests))
    BY <2>4, BootKeeps, EmptyIn DEF Holds
  <2>8. \A x \in Images : Holds(fs'[x], Items \X (0..Newest(x)'))
    BY <1>3, <2>1, <2>2, <2>7 DEF Images
  <2>9. \A x \in Images : \A i \in Items : (fs[x].taken[i] <= Answered)'
    BY <1>3, <2>1, <2>3, <2>6 DEF Images
  <2>10. \A i \in Items : (told[i] <= Answered)'
    BY <1>1, <2>1 DEF GInv, Bounded
  <2> QED
    BY <2>8, <2>9, <2>10 DEF Bounded
<1>7. (Configuring /\ Fresh /\ UnixFresh /\ WinFresh /\ WinRun /\ Resetting)'
  BY <1>4, Idles
<1>8. (Win' <=> Win) /\ Supported' = Supported
  BY <1>1, SameSystem
<1>9. ReadyInv'
  BY <1>1, <1>3, <1>8, BootKeeps DEF GInv, ReadyInv, Images, Image, Ready
<1>10. "image" \notin spoilt => Taken' = Taken
  <2>1. SUFFICES ASSUME "image" \notin spoilt PROVE Taken' = Taken
    OBVIOUS
  <2>2. CASE ~Win
    BY <1>1, <1>2, <1>3, <2>2, BootKeeps, StillTaken
  <2>3. CASE Win
    <3>1. Image'.script = <<>> /\ Image'.taken = Taken
      BY <1>3, <2>1, <2>3, BootKeeps
    <3>2. Found' = {}
      BY <1>8, <2>3, <3>1, NothingExecuted DEF Found
    <3>3. AllTake'
      <4>1. (Image \in Contents => AllTake)'
        BY TakenFacts, PTL
      <4> QED
        BY <1>3, <4>1
    <3>4. ASSUME NEW i \in Items PROVE Taken'[i] = Taken[i]
      <4>1. Has(i)' = Taken[i]
        BY <1>8, <2>3, <3>1, <3>2 DEF Has
      <4>2. Takes(i)'
        BY <3>3 DEF AllTake
      <4> QED
        BY <3>2, <4>1, <4>2 DEF Takes
    <3>5. Taken = [i \in Items |-> Taken[i]] /\ Taken' = [i \in Items |-> Taken'[i]]
      BY DEF Taken
    <3> QED
      BY <3>4, <3>5
  <2> QED
    BY <2>2, <2>3
<1>11. (Settled /\ PasswordSettled)'
  BY <1>1, <1>8, <1>10 DEF GInv, Settled, Settles, PasswordSettled
<1>12. Live'
  BY <1>1, <1>3, <1>4, <1>10, BootKeeps DEF Live
<1>13. UnixScript'
  BY <1>3, <1>8, BootKeeps DEF GInv, UnixScript, Images, Image
<1>14. Shadow'
  BY <1>3, BootKeeps DEF GInv, Shadow, Images, Image
<1>15. Held'
  BY <1>1, <1>4 DEF GInv, Held
<1> QED
  BY <1>4, <1>5, <1>6, <1>7, <1>9, <1>11, <1>12, <1>13, <1>14, <1>15 DEF GInv

-----------------------------------------------------------------------------
(* What a guest will take from an image that has just been configured.     *)

(* A line with one command in it.                                          *)
Single(c) == [cmds |-> <<c>>, ended |-> TRUE]

LEMMA Singles ==
  ASSUME NEW c \in Commands
  PROVE  /\ Single(c) \in Lines /\ Single(c).cmds = <<c>> /\ Single(c).ended = TRUE
         /\ Len(Single(c).cmds) = 1 /\ Single(c).cmds[1] = c
<1>1. <<c>> \in Seq(Commands) /\ <<c>> # <<>> /\ Len(<<c>>) = 1 /\ <<c>>[1] = c
  OBVIOUS
<1> QED
  BY <1>1 DEF Single, Lines

LEMMA AddOne ==
  ASSUME NEW c \in Commands
  PROVE  Add(<<>>, c, TRUE) = <<Single(c)>> /\ <<Single(c)>> \in Seq(Lines)
<1>1. PICK t : t = Add(<<>>, c, TRUE)
  OBVIOUS
<1>2. t \in Seq(Lines) /\ NewLine(<<>>, t, c, TRUE)
  BY <1>1, AddNew, EmptyIn
<1>3. t \in Seq(Lines) /\ Len(t) = 1 /\ t[1] = Single(c)
  BY <1>2 DEF NewLine, Single
<1>4. t = <<Single(c)>>
  BY <1>3
<1> QED
  BY <1>1, <1>3, <1>4

LEMMA AddTwo ==
  ASSUME NEW c \in Commands, NEW d \in Commands
  PROVE  /\ Add(<<Single(c)>>, d, TRUE) = <<Single(c), Single(d)>>
         /\ <<Single(c), Single(d)>> \in Seq(Lines)
<1>1. PICK s : s = <<Single(c)>>
  OBVIOUS
<1>2. PICK t : t = Add(s, d, TRUE)
  OBVIOUS
<1>3. s \in Seq(Lines) /\ Len(s) = 1 /\ s[1] = Single(c)
  BY <1>1, AddOne
<1>4. Ended(s)
  <2>1. s[Len(s)] = Single(c)
    BY <1>3
  <2> QED
    BY <2>1, Singles DEF Ended
<1>5. t \in Seq(Lines) /\ NewLine(s, t, d, TRUE)
  BY <1>2, <1>3, <1>4, AddNew
<1>6. Len(t) = 2 /\ t[1] = Single(c) /\ t[2] = Single(d)
  BY <1>3, <1>5 DEF NewLine, Single
<1>7. t = <<Single(c), Single(d)>>
  BY <1>5, <1>6
<1> QED
  BY <1>1, <1>2, <1>5, <1>7

LEMMA ExecutedOne ==
  ASSUME NEW c \in Commands, NEW x \in Executed(<<Single(c)>>)
  PROVE  x = c
<1>1. PICK s : s = <<Single(c)>>
  OBVIOUS
<1>2. s \in Seq(Lines) /\ Len(s) = 1 /\ s[1] = Single(c)
  BY <1>1, AddOne
<1>3. x \in Executed(s)
  BY <1>1
<1>4. PICK k \in 1..Len(s) : x = s[k].cmds[1]
  BY <1>2, <1>3, ExecutedIs
<1>5. k = 1
  BY <1>2, <1>4
<1>6. x = Single(c).cmds[1]
  BY <1>2, <1>4, <1>5
<1> QED
  BY <1>6, Singles

LEMMA ExecutedTwo ==
  ASSUME NEW c \in Commands, NEW d \in Commands,
         NEW x \in Executed(<<Single(c), Single(d)>>)
  PROVE  x \in {c, d}
<1>1. PICK s : s = <<Single(c), Single(d)>>
  OBVIOUS
<1>2. s \in Seq(Lines) /\ Len(s) = 2 /\ s[1] = Single(c) /\ s[2] = Single(d)
  BY <1>1, AddTwo
<1>3. Len(s) = 2
  BY <1>2
<1>4. s \in Seq(Lines) /\ x \in Executed(s)
  BY <1>1, <1>2
<1>5. PICK k \in 1..Len(s) : x = s[k].cmds[1]
  <2>1. \E k \in 1..Len(s) : Len(s[k].cmds) = 1 /\ x = s[k].cmds[1] /\ Reaches(s, k)
    BY <1>4, ExecutedIs
  <2> QED
    BY <2>1
<1>6. k = 1 \/ k = 2
  BY <1>3, <1>5
<1>7. x = Single(c).cmds[1] \/ x = Single(d).cmds[1]
  BY <1>2, <1>5, <1>6
<1> QED
  BY <1>7, Singles

LEMMA PasswordLines ==
  ASSUME GInv, ~Idling
  PROVE  /\ NewPassword = Single(<<"password", requests>>) /\ CleanLine = Single(Clean)
         /\ <<"password", requests>> \in Commands /\ Clean \in Commands
         /\ <<"password", requests>> # Clean
<1>1. requests \in Nat
  BY Fits
<1> QED
  BY <1>1 DEF NewPassword, CleanLine, Single, Commands, Settings, Others, Items, Clean

LEMMA TwoLines ==
  ASSUME GInv, ~Idling, NEW s, s = <<NewPassword, CleanLine>>
  PROVE  s \in Seq(Lines) /\ Whole(s) /\ <<"password", requests>> \in Executed(s)
<1>1. PICK p : p = <<"password", requests>>
  OBVIOUS
<1>2. p \in Commands /\ Clean \in Commands /\ s = <<Single(p), Single(Clean)>>
  BY <1>1, PasswordLines
<1>3. s \in Seq(Lines) /\ Len(s) = 2 /\ s[1] = Single(p) /\ s[2] = Single(Clean) /\ s # <<>>
  <2>1. s \in Seq(Lines)
    BY <1>2, AddTwo
  <2> QED
    BY <1>2, <2>1
<1>4. Ended(s) /\ s[2].cmds = <<Clean>> /\ s[1].cmds = <<p>>
  BY <1>2, <1>3, Singles DEF Ended
<1>5. Whole(s)
  BY <1>3, <1>4 DEF Whole, NoLine
<1> QED
  BY <1>1, <1>3, <1>4, <1>5, FirstExecuted

(* A handler is about to answer with success.                              *)
AtClose == GInv /\ ~Idling /\ At = "close"

LEMMA FreshTaken ==
  ASSUME AtClose, OnTemplate, NEW i \in Items
  PROVE  /\ Taken[i] \in {0, requests}
         /\ Taken[i] = requests => i \in job.items
         /\ <<i, requests>> \in Found => Taken[i] = requests
<1>1. Image \in Contents /\ requests \in 1..MaxRequests /\ requests \in Nat \ {0}
  BY Fits DEF AtClose, GInv, GuestTypeOK, Image, Images
<1>2. Holds(Image, job.items \X {requests}) /\ Image.taken = NoSettings
  BY DEF AtClose, GInv, Fresh
<1>3. Takes(i)
  BY <1>1, TakenFacts DEF AllTake
<1>4. Has(i) = 0
  BY <1>2 DEF Has, NoSettings
<1>5. ASSUME NEW n, <<i, n>> \in Found PROVE n = requests /\ i \in job.items
  BY <1>1, <1>2, <1>5, FoundIn
<1> QED
  BY <1>1, <1>3, <1>4, <1>5 DEF Takes

LEMMA FreshFound ==
  ASSUME AtClose, OnTemplate, NEW i \in Supported, i \in job.items
  PROVE  <<i, requests>> \in Found
<1>1. CASE ~Win
  <2>1. At \in Behind(i)
    BY DEF AtClose, Behind, AfterPublic, AfterPrivate, AfterVpc, AfterKeys, AfterHost,
           AfterPassword, AfterResize
  <2>2. <<i, requests>> \in Image.file[Place(i)]
    BY <1>1, <2>1 DEF AtClose, GInv, UnixFresh
  <2>3. Place(i) \in Files
    BY DEF Place, Files
  <2> QED
    BY <1>1, <2>2, <2>3 DEF Found
<1>2. CASE Win
  <2>1. i = "public"
    BY <1>2, WinIs DEF Supported
  <2>2. At \in AfterPublic
    BY DEF AtClose, AfterPublic, AfterPrivate, AfterVpc, AfterKeys, AfterHost,
           AfterPassword, AfterResize
  <2>3. Image.script[1] = [cmds |-> <<<<"public", requests>>>>, ended |-> TRUE]
    BY <1>2, <2>2 DEF AtClose, GInv, WinFresh
  <2>4. Image.script[1].cmds = <<<<"public", requests>>>>
    BY <2>3
  <2>5. On = "image" /\ ~Resets
    BY DEF OnTemplate, On, Resets
  <2>6. Image.script # <<>> /\ Image.script \in Seq(Lines)
    BY <1>2, <2>2, <2>5, Fits DEF AtClose, GInv, WinRun, Old, Image, Contents
  <2> QED
    BY <1>2, <2>1, <2>4, <2>6, FirstExecuted DEF Found
<1> QED
  BY <1>1, <1>2

LEMMA FreshPassword ==
  ASSUME AtClose, OnTemplate, Win
  PROVE  <<"password", requests>> \notin Found
<1>1. Image.script \in Seq(Lines)
  BY DEF AtClose, GInv, GuestTypeOK, Image, Images, Contents
<1> QED
  BY <1>1, NotExecuted DEF AtClose, GInv, WinFresh, Found

LEMMA CopyTaken ==
  ASSUME GInv, ~Idling, On = "snapshot", NEW i \in Items
  PROVE  Taken[i] <= requests - 1 /\ Taken[i] \in Nat
<1>1. Image \in Contents /\ requests \in Nat \ {0}
  BY Fits DEF GInv, GuestTypeOK, Image, Images
<1>2. Newest("image") = requests - 1 /\ Answered = requests - 1
  BY DEF Newest, Answered, Untouched
<1>3. Holds(Image, Items \X (0..requests - 1)) /\ Image.taken[i] <= requests - 1
  BY <1>2 DEF GInv, Bounded, Image, Images
<1>4. Taken[i] <= requests - 1
  <2>1. PICK b : b = requests - 1
    OBVIOUS
  <2>2. b \in Int /\ 0 <= b
    BY <1>1, <2>1
  <2> QED
    BY <1>1, <1>3, <2>1, <2>2, TakenBound
<1> QED
  BY <1>1, <1>4, TakenNat

-----------------------------------------------------------------------------
(* A handler answers with success.                                         *)

LEMMA CloseIs ==
  ASSUME GInv, Close
  PROVE  /\ AtClose /\ ~Idling
         /\ todo' = <<>> /\ job' = NoJob /\ answer' = [answer EXCEPT ![On] = "ok"]
         /\ locked' = locked \ {On}
         /\ told' = [i \in Items |->
              IF i = "password" \/ (i \in job.items /\ job.kind # "reset_password")
              THEN job.n ELSE told[i]]
         /\ spoilt' = IF On = "snapshot" THEN spoilt \ {On} ELSE spoilt
         /\ UNCHANGED <<distro, fs, power, guest, requests, early, made>>
         /\ Ordered' /\ Idling' /\ On' = "image"
<1>1. todo # <<>> /\ todo[1] = "close"
  BY DEF Close
<1>2. AtClose /\ ~Idling
  BY <1>1 DEF AtClose, Idling, At
<1>3. todo' = <<>> /\ job' = NoJob /\ answer' = [answer EXCEPT ![On] = "ok"]
      /\ UNCHANGED <<distro, fs, power, guest, requests, early, made>>
  BY DEF Close, Ends
<1>4. Ordered' /\ Idling' /\ On' = "image"
  BY <1>3, EndOrdered
<1> QED
  BY <1>2, <1>3, <1>4 DEF Close

LEMMA CloseTold ==
  ASSUME GInv, Close
  PROVE  /\ told' \in [Items -> Nat]
         /\ told'["password"] = requests
         /\ ~Resets => told'["host"] = requests
         /\ Resets => \A i \in Items \ {"password"} : told'[i] = told[i]
         /\ \A i \in Items : told[i] <= requests - 1 /\ told'[i] <= requests
         /\ ~Resets => \A i \in Items :
              told'[i] = IF i \in job.items THEN requests ELSE 0
         /\ requests \in Nat \ {0}
<1>1. /\ told' = [i \in Items |-> IF i = "password" \/ (i \in job.items /\ ~Resets)
                                 THEN job.n ELSE told[i]]
      /\ AtClose /\ ~Idling
  BY CloseIs DEF Resets
<1>2. /\ job.n = requests /\ requests \in Nat \ {0} /\ "password" \in job.items
      /\ "host" \in job.items /\ "password" \in Items /\ "host" \in Items
      /\ told \in [Items -> Nat]
  BY <1>1, Fits DEF GInv, GuestTypeOK, JobOK, Always, Items
<1>3. \A i \in Items : told[i] <= requests - 1
  BY <1>1 DEF GInv, Bounded, Answered
<1>4. ~Resets => \A i \in Items : told[i] = 0
  BY <1>1 DEF GInv, Configuring, AtClose, NoSettings
<1>5. \A i \in Items : told'[i] <= requests
  BY <1>1, <1>2, <1>3
<1>6. told' \in [Items -> Nat]
  BY <1>1, <1>2
<1> QED
  BY <1>1, <1>2, <1>3, <1>4, <1>5, <1>6

LEMMA CloseReset ==
  ASSUME GInv, Close, Resets, "image" \notin spoilt
  PROVE  /\ ~Win => Taken["password"] = requests
         /\ Win => (Taken["password"] = requests <=> early = FALSE)
<1>1. AtClose /\ ~Idling
  BY CloseIs
<1>2. Image \in Contents /\ requests \in 1..MaxRequests /\ requests \in Nat \ {0}
      /\ "password" \in Items
  BY <1>1, Fits DEF GInv, GuestTypeOK, Image, Images, Items
<1>3. On = "image" /\ ~Untouched("image")
  BY <1>1 DEF AtClose, Resets, On, Untouched
<1>4. Newest("image") = requests /\ Answered = requests - 1
  BY <1>1, <1>3 DEF Newest, Answered
<1>5. Holds(Image, Items \X (0..requests)) /\ Image.taken["password"] <= requests - 1
  BY <1>2, <1>4 DEF GInv, Bounded, Image, Images
<1>6. Takes("password")
  BY <1>2, TakenFacts DEF AllTake
<1>7. Has("password") <= requests - 1 /\ Has("password") \in Nat
  <2>1. Image.taken["password"] \in Nat
    BY <1>2 DEF Contents
  <2> QED
    BY <1>2, <1>5, <2>1 DEF Has
<1>8. \A n : <<"password", n>> \in Found => n \in 0..requests
  BY <1>2, <1>5, FoundIn
<1>9. Taken["password"] = requests <=> <<"password", requests>> \in Found
  BY <1>2, <1>6, <1>7, <1>8 DEF Takes
<1>10. CASE ~Win
  <2>1. <<"password", requests>> \in Image.file["shadow"] /\ "shadow" \in Files
    BY <1>1, <1>3, <1>10 DEF GInv, Resetting, Files
  <2> QED
    BY <1>9, <1>10, <2>1 DEF Found
<1>11. CASE Win
  <2>1. Found = Executed(Image.script)
    BY <1>11 DEF Found
  <2>2. early = TRUE => <<"password", requests>> \notin Found
    BY <1>1, <1>3, <1>11, <2>1 DEF GInv, Resetting
  <2>3. early = FALSE => <<"password", requests>> \in Found
    BY <1>1, <1>3, <1>11, <2>1, TwoLines DEF GInv, Resetting, AtClose
  <2>4. early \in BOOLEAN
    BY DEF GInv, GuestTypeOK
  <2> QED
    BY <1>9, <1>11, <2>2, <2>3, <2>4
<1> QED
  BY <1>10, <1>11

LEMMA CloseSettles ==
  ASSUME GInv, Close, "image" \notin spoilt, NEW i \in Items, i # "password" \/ ~Win \/ ~Resets
  PROVE  /\ i \in Supported /\ told'[i] \notin {0, made} => Taken[i] = told'[i]
         /\ Taken[i] \notin {0, told'[i]} => Taken[i] < made
<1>1. AtClose /\ ~Idling
  BY CloseIs
<1>2. /\ told'["password"] = requests /\ requests \in Nat \ {0}
      /\ Resets => \A j \in Items \ {"password"} : told'[j] = told[j]
      /\ ~Resets => told'[i] = IF i \in job.items THEN requests ELSE 0
  BY CloseTold
<1>3. CASE Resets
  <2>1. CASE i # "password"
    BY <1>2, <1>3, <2>1 DEF GInv, Settled, Settles
  <2>2. CASE i = "password"
    BY <1>2, <1>3, <2>2, CloseReset
  <2> QED
    BY <2>1, <2>2
<1>4. CASE OnTemplate
  <2>1. ~Resets
    BY <1>4 DEF OnTemplate, Resets
  <2>2. /\ Taken[i] \in {0, requests} /\ (Taken[i] = requests => i \in job.items)
        /\ (<<i, requests>> \in Found => Taken[i] = requests)
    BY <1>1, <1>4, FreshTaken
  <2>3. i \in Supported /\ i \in job.items => <<i, requests>> \in Found
    BY <1>1, <1>4, FreshFound
  <2> QED
    BY <1>2, <2>1, <2>2, <2>3
<1>5. CASE On = "snapshot"
  <2>1. ~Resets /\ made = requests
    BY <1>1, <1>5 DEF On, Resets, GInv, Configuring, AtClose
  <2>2. Taken[i] <= requests - 1 /\ Taken[i] \in Nat
    BY <1>1, <1>5, CopyTaken
  <2> QED
    BY <1>2, <2>1, <2>2
<1>6. Resets \/ OnTemplate \/ On = "snapshot"
  BY <1>1 DEF AtClose, GInv, Ordered, Kinds, Resets, OnTemplate, On, Idling
<1> QED
  BY <1>3, <1>4, <1>5, <1>6

LEMMA ClosePassword ==
  ASSUME GInv, Close, "image" \notin spoilt, Win
  PROVE  /\ Taken["password"] = told'["password"]
              <=> (told'["password"] > told'["host"] /\ early = FALSE)
         /\ Taken["password"] \notin {0, told'["password"]} =>
              Taken["password"] < made \/ early = TRUE
<1>1. AtClose /\ ~Idling /\ "password" \in Items /\ "host" \in Items
  BY CloseIs DEF Items
<1>2. /\ told'["password"] = requests /\ requests \in Nat \ {0}
      /\ ~Resets => told'["host"] = requests
      /\ Resets => told'["host"] = told["host"] /\ told["host"] <= requests - 1
      /\ told["host"] \in Nat
  BY <1>1, CloseTold DEF GInv, GuestTypeOK
<1>3. CASE Resets
  <2>1. Taken["password"] = requests <=> early = FALSE
    BY <1>3, CloseReset
  <2>2. told'["password"] > told'["host"]
    BY <1>2, <1>3
  <2>3. early \in BOOLEAN
    BY DEF GInv, GuestTypeOK
  <2> QED
    BY <1>2, <2>1, <2>2, <2>3
<1>4. CASE ~Resets
  <2>1. Taken["password"] # requests
    <3>1. CASE OnTemplate
      <4>1. <<"password", requests>> \notin Found
        BY <1>1, <3>1, FreshPassword
      <4>2. Takes("password") /\ Image.taken = NoSettings
        BY <1>1, <3>1, TakenFacts DEF AllTake, GInv, Fresh, GuestTypeOK, Image, Images
      <4>3. Has("password") = 0
        BY <1>1, <4>2 DEF Has, NoSettings
      <4> QED
        BY <1>2, <4>1, <4>2, <4>3 DEF Takes
    <3>2. CASE On = "snapshot"
      BY <1>1, <1>2, <3>2, CopyTaken
    <3> QED
      BY <1>1, <1>4, <3>1, <3>2
         DEF AtClose, GInv, Ordered, Kinds, Resets, OnTemplate, On, Idling
  <2>2. ~(told'["password"] > told'["host"])
    BY <1>2, <1>4
  <2>3. Taken["password"] \notin {0, told'["password"]} => Taken["password"] < made
    BY <1>1, <1>4, CloseSettles
  <2> QED
    BY <1>2, <2>1, <2>2, <2>3
<1> QED
  BY <1>3, <1>4

LEMMA CloseGInv ==
  ASSUME GInv, Close
  PROVE  GInv'
<1>1. /\ AtClose /\ ~Idling /\ Ordered' /\ Idling' /\ On' = "image"
      /\ answer' = [answer EXCEPT ![On] = "ok"] /\ locked' = locked \ {On}
      /\ spoilt' = IF On = "snapshot" THEN spoilt \ {On} ELSE spoilt
      /\ UNCHANGED <<distro, fs, power, guest, requests, early, made>>
  BY CloseIs
<1>2. GuestTypeOK /\ requests \in Nat \ {0} /\ On \in Images
  BY <1>1, Fits DEF GInv
<1>3. GuestTypeOK'
  BY <1>1, <1>2, CloseTold DEF GuestTypeOK
<1>4. Bounded'
  <2>1. Newest("image")' = requests /\ Newest("snapshot")' = requests /\ Answered' = requests
    BY <1>1 DEF Newest, Answered
  <2>2. Answered = requests - 1 /\ \A x \in Images : Newest(x) <= requests /\ Newest(x) \in Int
    BY <1>1, <1>2 DEF Newest, Answered
  <2>3. ASSUME NEW x \in Images PROVE Holds(fs'[x], Items \X (0..Newest(x)'))
    <3>1. Holds(fs[x], Items \X (0..Newest(x)))
      BY DEF GInv, Bounded
    <3>2. 0..Newest(x) \subseteq 0..requests
      BY <1>2, <2>2
    <3>3. Holds(fs[x], Items \X (0..requests))
      <4>1. Items \X (0..Newest(x)) \subseteq Items \X (0..requests)
        BY <3>2
      <4> QED
        BY <3>1, <4>1, HoldsMore
    <3> QED
      BY <1>1, <2>1, <3>3 DEF Images
  <2>4. \A x \in Images : \A i \in Items : fs[x].taken[i] <= requests
    BY <1>2, <2>2 DEF GInv, Bounded, GuestTypeOK, Contents
  <2>5. \A i \in Items : told'[i] <= requests
    BY CloseTold
  <2> QED
    BY <1>1, <2>1, <2>3, <2>4, <2>5 DEF Bounded
<1>5. (Configuring /\ Fresh /\ UnixFresh /\ WinFresh /\ WinRun /\ Resetting)'
  BY <1>1, Idles
<1>6. (Win' <=> Win) /\ Supported' = Supported
  BY <1>1, SameSystem
<1>7. ReadyInv'
  <2>1. SUFFICES ASSUME Win, NEW x \in Images, x \notin spoilt' PROVE Ready(fs[x].script)
    BY <1>1, <1>6 DEF ReadyInv
  <2>2. CASE x # On
    BY <1>1, <2>1, <2>2 DEF GInv, ReadyInv, Untouched
  <2>3. CASE x = On /\ ~Resets
    BY <1>1, <2>1, <2>3 DEF GInv, WinRun, Ready, Old, AtClose
  <2>4. CASE x = On /\ Resets
    <3>1. x = "image" /\ "image" \notin spoilt /\ ~Untouched("image")
      BY <1>1, <2>1, <2>4 DEF On, Resets, Untouched, AtClose
    <3>2. early = TRUE => Whole(Image.script)
      BY <1>1, <2>1, <2>4, <3>1 DEF GInv, Resetting
    <3>3. early = FALSE => Whole(Image.script)
      BY <1>1, <2>1, <2>4, <3>1, TwoLines DEF GInv, Resetting, AtClose
    <3>4. early \in BOOLEAN
      BY <1>2 DEF GuestTypeOK
    <3> QED
      BY <3>1, <3>2, <3>3, <3>4 DEF Ready, Image
  <2> QED
    BY <2>2, <2>3, <2>4
<1>8. Image' = Image /\ Taken' = Taken
  BY <1>1, <1>2, StillTaken DEF Image, GuestTypeOK, Images
<1>9. "image" \notin spoilt' => "image" \notin spoilt
  BY <1>1
<1>10. Settled'
  BY <1>1, <1>6, <1>8, <1>9, CloseSettles DEF Settled, Settles
<1>11. PasswordSettled'
  <2>1. SUFFICES ASSUME "image" \notin spoilt
                 PROVE  /\ "password" \in Supported /\ told'["password"] \notin {0, made} =>
                             Taken["password"] = told'["password"]
                        /\ Win => (Taken["password"] = told'["password"]
                             <=> (told'["password"] > told'["host"] /\ early = FALSE))
                        /\ Taken["password"] \notin {0, told'["password"]} =>
                             Taken["password"] < made \/ (Win /\ early = TRUE)
    BY <1>1, <1>6, <1>8, <1>9 DEF PasswordSettled
  <2>2. "password" \in Items
    BY DEF Items
  <2>3. CASE ~Win
    BY <2>1, <2>2, <2>3, CloseSettles
  <2>4. CASE Win
    <3>1. "password" \notin Supported
      BY <2>4, WinIs DEF Supported
    <3> QED
      BY <2>1, <2>4, <3>1, ClosePassword
  <2> QED
    BY <2>3, <2>4
<1>12. Live'
  BY <1>1 DEF GInv, Live
<1>13. (UnixScript /\ Shadow)'
  BY <1>1, <1>6 DEF GInv, UnixScript, Shadow
<1>14. Held'
  <2>1. ASSUME NEW x \in locked' PROVE answer'[x] = "error"
    <3>1. x \in locked /\ x # On /\ x \in DOMAIN answer
      BY <1>1, <1>2, <2>1 DEF GuestTypeOK
    <3>2. answer[x] = "error"
      BY <1>1, <3>1 DEF GInv, Held
    <3> QED
      BY <1>1, <3>1, <3>2
  <2> QED
    BY <1>1, <2>1 DEF Held
<1> QED
  BY <1>1, <1>3, <1>4, <1>5, <1>7, <1>10, <1>11, <1>12, <1>13, <1>14 DEF GInv

-----------------------------------------------------------------------------
(* A call of GuestFSUtil: the bounds, and the files of a Unix.             *)

LEMMA CallIs ==
  ASSUME GInv, Call
  PROVE  /\ ~Idling /\ At \in Calls /\ At \notin {"convert", "close"}
         /\ fs' = [fs EXCEPT ![On] = After(At)] /\ locked' = locked \cup {On}
         /\ UNCHANGED <<distro, job, power, guest, requests, answer, told, early, made, spoilt>>
         /\ Ordered' /\ ~Idling' /\ Goes(At, At') /\ On' = On /\ (Resets' <=> Resets)
         /\ Kept(Old, After(At)) /\ fs'[On] = After(At) /\ Old' = After(At)
         /\ On \in Images /\ \A x \in Images \ {On} : fs'[x] = fs[x]
<1>1. /\ todo # <<>> /\ Head(todo) \notin {"convert", "close"} /\ todo' = Tail(todo)
      /\ fs' = [fs EXCEPT ![On] = After(Head(todo))] /\ locked' = locked \cup {On}
      /\ UNCHANGED <<distro, job, power, guest, requests, answer, told, early, made, spoilt>>
  BY DEF Call
<1>2. Ordered /\ ~Idling
  BY <1>1 DEF GInv, Idling
<1>3. At = Head(todo)
  BY <1>1, <1>2, AtLast
<1>4. At \in Named /\ On \in Images /\ JobOK /\ Old \in Contents
  BY <1>2, Fits
<1>5. At \in Calls
  BY <1>1, <1>3, <1>4 DEF Named
<1>6. Ordered' /\ todo' # <<>> /\ Goes(At, At')
  BY <1>1, <1>2, <1>3, NextCall
<1>7. On' = On /\ (Resets' <=> Resets)
  BY <1>1 DEF On, Resets
<1>8. Kept(Old, After(At))
  BY <1>4, <1>5, CallKept
<1>9. fs'[On] = After(At) /\ \A x \in Images \ {On} : fs'[x] = fs[x]
  BY <1>1, <1>3, <1>4 DEF GInv, GuestTypeOK
<1> QED
  BY <1>1, <1>2, <1>3, <1>4, <1>5, <1>6, <1>7, <1>8, <1>9 DEF Idling, Old

LEMMA IdleCall ==
  ASSUME GInv, Call, Untouched(On)'
  PROVE  At \in Idle /\ After(At) = Old /\ Untouched(On)
<1>1. /\ At \notin {"convert", "close"} /\ Goes(At, At') /\ On' = On /\ (Resets' <=> Resets)
  BY CallIs
<1>2. \/ At' \in {"convert", "launch", "mount_root", "public_nic_setup"}
      \/ Resets /\ At' = "reset_root_passwd"
  BY <1>1 DEF Untouched
<1>3. At \in Idle
  BY <1>1, <1>2 DEF Goes, ResetNext, RunNext, Idle
<1>4. After(At) = Old
  BY <1>3, UnixOther, WinOther
<1> QED
  BY <1>3, <1>4 DEF Untouched, Idle

LEMMA CallBounded ==
  ASSUME GInv, Call
  PROVE  Bounded'
<1>1. /\ ~Idling /\ ~Idling' /\ At \in Calls /\ On' = On /\ (Resets' <=> Resets) /\ On \in Images
      /\ requests' = requests /\ told' = told /\ fs'[On] = After(At)
      /\ Kept(Old, After(At)) /\ \A x \in Images \ {On} : fs'[x] = fs[x]
  BY CallIs
<1>2. JobOK /\ Old \in Contents /\ requests \in Nat \ {0} /\ job.n = requests
  BY <1>1, Fits
<1>3. Answered' = Answered
  BY <1>1 DEF Answered
<1>4. ASSUME NEW x \in Images, x # On PROVE Holds(fs'[x], Items \X (0..Newest(x)'))
  <2>1. Newest(x)' = Newest(x)
    BY <1>1, <1>4 DEF Newest, Untouched
  <2> QED
    BY <1>1, <1>4, <2>1 DEF GInv, Bounded
<1>5. Holds(After(At), Items \X (0..Newest(On)'))
  <2>1. Holds(Old, Items \X (0..Newest(On)))
    BY <1>1 DEF GInv, Bounded, Old
  <2>2. CASE Untouched(On)'
    <3>1. After(At) = Old /\ Untouched(On)
      BY <2>2, IdleCall
    <3>2. Newest(On)' = Newest(On)
      BY <1>1, <2>2, <3>1 DEF Newest
    <3> QED
      BY <2>1, <3>1, <3>2
  <2>3. CASE ~Untouched(On)'
    <3>1. Newest(On)' = requests
      BY <1>1, <2>3 DEF Newest
    <3>2. 0..Newest(On) \subseteq 0..requests
      BY <1>2 DEF Newest
    <3>3. Items \X (0..Newest(On)) \subseteq Items \X (0..requests)
      BY <3>2
    <3>4. Holds(Old, Items \X (0..requests))
      BY <2>1, <3>3, HoldsMore
    <3>5. AskedFor \subseteq Items \X (0..requests)
      BY <1>2 DEF AskedFor, Setting, JobOK
    <3> QED
      BY <1>1, <1>2, <3>1, <3>4, <3>5, CallHolds
  <2> QED
    BY <2>2, <2>3
<1>6. \A x \in Images : Holds(fs'[x], Items \X (0..Newest(x)'))
  BY <1>1, <1>4, <1>5
<1>7. \A x \in Images : \A i \in Items : fs[x].taken[i] <= Answered
  BY DEF GInv, Bounded
<1>8. \A x \in Images : \A i \in Items : fs'[x].taken[i] <= Answered'
  BY <1>1, <1>3, <1>7 DEF Kept, Old
<1>9. \A i \in Items : told'[i] <= Answered'
  BY <1>1, <1>3 DEF GInv, Bounded
<1> QED
  BY <1>6, <1>8, <1>9 DEF Bounded

LEMMA BehindIs ==
  /\ Behind("public") = AfterPublic /\ Behind("v6") = AfterPublic
  /\ Behind("private") = AfterPrivate /\ Behind("vpc") = AfterVpc
  /\ Behind("keys") = AfterKeys /\ Behind("host") = AfterHost
  /\ Behind("password") = AfterPassword
  /\ Place("public") = "nic0" /\ Place("v6") = "nic0" /\ Place("vpc") = "nic0"
  /\ Place("private") = (IF Family \in {"rhl", "fed"} THEN "nic1" ELSE "nic0")
  /\ Place("keys") = "authorized_keys" /\ Place("host") = "hostname"
  /\ Place("password") = "shadow"
BY DEF Behind, Place

LEMMA Newly ==
  ASSUME NEW i \in Items, NEW a, NEW b, RunNext(a, b), b \in Behind(i), a \notin Behind(i)
  PROVE  \/ a = "public_nic_setup" /\ i \in {"public", "v6"}
         \/ a = "private_nic_setup" /\ i = "private"
         \/ a = "vpc_gw_nic_setup" /\ i = "vpc"
         \/ a = "set_pubic_keys" /\ i = "keys"
         \/ a = "set_hostname" /\ i = "host"
         \/ a = "reset_root_passwd" /\ i = "password"
<1> USE BehindIs DEF AfterPublic, AfterPrivate, AfterVpc, AfterKeys, AfterHost,
        AfterPassword, AfterResize, RunNext
<1>1. CASE i \in {"public", "v6"}
  BY <1>1
<1>2. CASE i = "private"
  BY <1>2
<1>3. CASE i = "vpc"
  BY <1>3
<1>4. CASE i = "keys"
  BY <1>4
<1>5. CASE i = "host"
  BY <1>5
<1>6. CASE i = "password"
  BY <1>6
<1> QED
  BY <1>1, <1>2, <1>3, <1>4, <1>5, <1>6 DEF Items

LEMMA UnixNew ==
  ASSUME JobOK, Old \in Contents, ~Win, NEW i \in Supported \cap job.items,
         NEW a, NEW b, RunNext(a, b), b \in Behind(i), a \notin Behind(i)
  PROVE  Setting(i) \in After(a).file[Place(i)]
<1>1. i \in Items /\ i \in job.items
  BY DEF JobOK
<1>2. CASE a = "public_nic_setup" /\ i \in {"public", "v6"}
  <2>1. Known /\ Place(i) = "nic0"
    BY <1>2, BehindIs DEF Supported
  <2>2. After(a).file["nic0"] = {Setting(j) : j \in job.items \cap {"public", "v6"}}
    BY <1>2, <2>1, UnixPublic DEF Wrote
  <2> QED
    BY <1>1, <1>2, <2>1, <2>2
<1>3. CASE a = "private_nic_setup" /\ i = "private"
  <2>1. Known /\ Asked("private")
    BY <1>1, <1>3 DEF Supported, Asked
  <2> QED
    BY <1>3, <2>1, UnixPrivate, BehindIs DEF Wrote
<1>4. CASE a = "vpc_gw_nic_setup" /\ i = "vpc"
  <2>1. Family = "deb" /\ Asked("vpc")
    BY <1>1, <1>4 DEF Supported, Asked
  <2> QED
    BY <1>4, <2>1, UnixVpc, BehindIs DEF Wrote
<1>5. CASE a = "set_pubic_keys" /\ i = "keys"
  BY <1>1, <1>5, UnixKeys, BehindIs DEF Wrote, Asked
<1>6. CASE a = "set_hostname" /\ i = "host"
  BY <1>6, UnixHost, BehindIs DEF Wrote
<1>7. CASE a = "reset_root_passwd" /\ i = "password"
  BY <1>7, UnixPassword, BehindIs DEF Wrote
<1> QED
  BY <1>1, <1>2, <1>3, <1>4, <1>5, <1>6, <1>7, Newly

LEMMA WroteStays ==
  ASSUME NEW c, NEW d, NEW f \in Files, NEW settings, Wrote(c, d, f, settings),
         NEW g \in Files, NEW e \in c.file[g], g # f \/ c.file[f] \subseteq settings
  PROVE  e \in d.file[g]
BY DEF Wrote

LEMMA Places ==
  ASSUME NEW i \in Items
  PROVE  /\ Place(i) \in Files
         /\ Place(i) = "authorized_keys" => i = "keys"
         /\ Place(i) = "hostname" => i = "host"
         /\ Place(i) = "shadow" => i = "password"
         /\ Place(i) = "nic1" => i = "private"
         /\ {"nic0", "nic1", "hostname", "shadow", "authorized_keys"} = Files
BY DEF Place, Files, Items

LEMMA UnixStays ==
  ASSUME JobOK, Old \in Contents, ~Win, NEW i \in Items, NEW a \in Calls, a \in Behind(i),
         NEW e \in Old.file[Place(i)]
  PROVE  e \in After(a).file[Place(i)]
<1>1. PICK c : c = Old
  OBVIOUS
<1>2. PICK g : g = Place(i)
  OBVIOUS
<1>3. g \in Files /\ e \in c.file[g]
  BY <1>1, <1>2, Places
<1>4. After(a) = c => e \in After(a).file[g]
  BY <1>3
<1>5. a # "public_nic_setup"
  BY DEF Behind, AfterPublic, AfterPrivate, AfterVpc, AfterKeys, AfterHost,
         AfterPassword, AfterResize
<1>6. CASE a = "private_nic_setup"
  <2>1. i # "private"
    BY <1>6, BehindIs DEF AfterPrivate, AfterVpc, AfterKeys, AfterHost,
         AfterPassword, AfterResize
  <2>2. g # "nic1" /\ "nic0" \in Files /\ "nic1" \in Files
    BY <1>2, <2>1, Places
  <2>3. CASE Known /\ Asked("private") /\ Family \in {"rhl", "fed"}
    BY <1>1, <1>2, <1>3, <1>6, <2>2, <2>3, UnixPrivate, WroteStays
  <2>4. CASE Known /\ Asked("private") /\ Family \notin {"rhl", "fed"}
    <3>1. c.file["nic0"] \subseteq c.file["nic0"] \cup {Setting("private")}
      OBVIOUS
    <3>2. Wrote(c, After(a), "nic0", c.file["nic0"] \cup {Setting("private")})
      BY <1>1, <1>6, <2>4, UnixPrivate
    <3>3. e \in After(a).file[g]
      BY <1>3, <2>2, <3>1, <3>2, WroteStays
    <3> QED
      BY <1>2, <3>3
  <2>5. CASE ~(Known /\ Asked("private"))
    BY <1>1, <1>2, <1>4, <1>6, <2>5, UnixPrivate
  <2> QED
    BY <2>3, <2>4, <2>5
<1>7. CASE a = "vpc_gw_nic_setup"
  <2>1. CASE Asked("vpc") /\ Family = "deb"
    <3>5. PICK S : S = c.file["nic0"] \cup {Setting("vpc")}
      OBVIOUS
    <3>1. c.file["nic0"] \subseteq S
      BY <3>5
    <3>4. "nic0" \in Files
      BY Places
    <3>2. Wrote(c, After(a), "nic0", S)
      BY <1>1, <1>7, <2>1, <3>5, UnixVpc
    <3>3. e \in After(a).file[g]
      BY <1>3, <3>1, <3>2, <3>4, WroteStays
    <3> QED
      BY <1>2, <3>3
  <2>2. CASE ~(Asked("vpc") /\ Family = "deb")
    BY <1>1, <1>2, <1>4, <1>7, <2>2, UnixVpc
  <2> QED
    BY <2>1, <2>2
<1>8. CASE a = "set_pubic_keys"
  <2>1. i # "keys"
    BY <1>8, BehindIs DEF AfterKeys, AfterHost, AfterPassword, AfterResize
  <2>2. g # "authorized_keys" /\ "authorized_keys" \in Files
    BY <1>2, <2>1, Places
  <2>3. CASE Asked("keys")
    BY <1>1, <1>2, <1>3, <1>8, <2>2, <2>3, UnixKeys, WroteStays
  <2>4. CASE ~Asked("keys")
    BY <1>1, <1>2, <1>4, <1>8, <2>4, UnixKeys
  <2> QED
    BY <2>3, <2>4
<1>9. CASE a = "set_hostname"
  <2>1. i # "host"
    BY <1>9, BehindIs DEF AfterHost, AfterPassword, AfterResize
  <2>2. g # "hostname" /\ "hostname" \in Files
    BY <1>2, <2>1, Places
  <2> QED
    BY <1>1, <1>2, <1>3, <1>9, <2>2, UnixHost, WroteStays
<1>10. CASE a = "reset_root_passwd"
  <2>1. i # "password"
    BY <1>10, BehindIs DEF AfterPassword, AfterResize
  <2>2. g # "shadow" /\ "shadow" \in Files
    BY <1>2, <2>1, Places
  <2> QED
    BY <1>1, <1>2, <1>3, <1>10, <2>2, UnixPassword, WroteStays
<1>11. CASE a \in Idle \cup {"resize_fs", "clearfix", "clearfix_again"}
  BY <1>1, <1>2, <1>4, <1>11, UnixOther
<1> QED
  BY <1>5, <1>6, <1>7, <1>8, <1>9, <1>10, <1>11 DEF Calls

-----------------------------------------------------------------------------
(* A call on a new image: nothing of an earlier request is in it, and the  *)
(* script of Windows grows line by line.                                   *)

LEMMA CallFresh ==
  ASSUME GInv, Call
  PROVE  Fresh' /\ UnixFresh'
<1>1. /\ ~Idling /\ At \in Calls /\ At # "convert" /\ Goes(At, At') /\ On' = On
      /\ UNCHANGED <<distro, job, requests>> /\ (Resets' <=> Resets)
      /\ Kept(Old, After(At)) /\ fs'[On] = After(At)
  BY CallIs
<1>2. JobOK /\ Old \in Contents /\ job.n = requests /\ (On = "image" <=> job.kind # "deploy_image")
  BY <1>1, Fits
<1>3. SUFFICES ASSUME OnTemplate'
               PROVE  /\ Holds(Image', job.items \X {requests}) /\ Image'.taken = NoSettings
                      /\ ~Win => \A i \in Supported \cap job.items :
                           At' \in Behind(i)' => <<i, requests>> \in Image'.file[Place(i)']
  <2>1. (Win' <=> Win) /\ Supported' = Supported
    BY <1>1, SameSystem
  <2>2. job' = job /\ requests' = requests
    BY <1>1
  <2> QED
    BY <1>1, <2>1, <2>2 DEF Fresh, UnixFresh
<1>4. OnTemplate /\ On = "image" /\ ~Resets /\ Image = Old /\ Image' = After(At)
  BY <1>1, <1>2, <1>3 DEF OnTemplate, Resets, Image, Old
<1>5. Holds(Image', job.items \X {requests})
  <2>1. Holds(Old, job.items \X {requests})
    BY <1>4 DEF GInv, Fresh
  <2>2. AskedFor \subseteq job.items \X {requests}
    BY <1>2 DEF AskedFor, Setting
  <2> QED
    BY <1>1, <1>2, <1>4, <2>1, <2>2, CallHolds
<1>6. Image'.taken = NoSettings
  BY <1>1, <1>4 DEF GInv, Fresh, Kept
<1>7. ASSUME ~Win, NEW i \in Supported \cap job.items, At' \in Behind(i)'
      PROVE  <<i, requests>> \in Image'.file[Place(i)']
  <2>1. i \in Items /\ Setting(i) = <<i, requests>>
    BY <1>2 DEF JobOK, Setting
  <2>2. Place(i)' = Place(i) /\ Behind(i)' = Behind(i)
    <3>1. Family' = Family
      BY <1>1, SameSystem
    <3> QED
      BY <3>1 DEF Place, Behind
  <2>3. RunNext(At, At')
    BY <1>1, <1>4 DEF Goes
  <2>4. CASE At \in Behind(i)
    <3>1. <<i, requests>> \in Old.file[Place(i)]
      BY <1>4, <1>7, <2>4 DEF GInv, UnixFresh
    <3> QED
      BY <1>1, <1>2, <1>4, <1>7, <2>1, <2>2, <2>4, <3>1, UnixStays
  <2>5. CASE At \notin Behind(i)
    <3>1. Setting(i) \in After(At).file[Place(i)]
      <4>1. PICK b : b = At'
        OBVIOUS
      <4>2. RunNext(At, b) /\ b \in Behind(i)
        BY <1>7, <2>2, <2>3, <4>1
      <4> QED
        BY <1>2, <1>7, <2>5, <4>2, UnixNew
    <3> QED
      BY <1>4, <2>1, <2>2, <3>1
  <2> QED
    BY <2>4, <2>5
<1> QED
  BY <1>5, <1>6, <1>7

LEMMA EmptyNone == ASSUME NEW c PROVE NoLine(<<>>, c)
BY DEF NoLine

LEMMA AfterIs ==
  /\ AfterPublic = {"private_nic_setup", "vpc_gw_nic_setup", "set_pubic_keys",
           "set_hostname", "reset_root_passwd", "resize_fs", "clearfix", "close"}
  /\ AfterPassword = {"resize_fs", "clearfix", "close"}
BY DEF AfterPublic, AfterPrivate, AfterVpc, AfterKeys, AfterHost, AfterPassword,
       AfterResize

LEMMA CallWinFresh ==
  ASSUME GInv, Call
  PROVE  WinFresh'
<1>1. /\ ~Idling /\ At \in Calls /\ At # "convert" /\ Goes(At, At') /\ On' = On
      /\ UNCHANGED <<distro, job, requests>> /\ (Resets' <=> Resets)
      /\ Kept(Old, After(At)) /\ fs'[On] = After(At)
  BY CallIs
<1>2. JobOK /\ Old \in Contents /\ job.n = requests /\ (On = "image" <=> job.kind # "deploy_image")
  BY <1>1, Fits
<1>3. PICK p : p = <<"public", requests>>
  OBVIOUS
<1>4. PICK w : w = <<"password", requests>>
  OBVIOUS
<1>5. PICK l : l = [cmds |-> <<p>>, ended |-> TRUE]
  OBVIOUS
<1>6. SUFFICES ASSUME OnTemplate', Win
               PROVE  /\ At' \in AfterPublic => Image'.script[1] = l
                      /\ At' \notin AfterPublic => Image'.script = <<>>
                      /\ NoLine(Image'.script, w)
  <2>1. (Win' <=> Win)
    BY <1>1, SameSystem
  <2>2. requests' = requests
    BY <1>1
  <2> QED
    BY <1>3, <1>4, <1>5, <2>1, <2>2 DEF WinFresh
<1>7. OnTemplate /\ On = "image" /\ ~Resets /\ Image = Old /\ Image' = After(At)
      /\ RunNext(At, At')
  BY <1>1, <1>2, <1>6 DEF OnTemplate, Resets, Image, Old, Goes
<1>8. PICK s : s = Old.script
  OBVIOUS
<1>9. PICK t : t = After(At).script
  OBVIOUS
<1>10. /\ s \in Seq(Lines) /\ NoLine(s, w)
       /\ At \in AfterPublic => s[1] = l /\ s # <<>>
       /\ At \notin AfterPublic => s = <<>>
       /\ At = "reset_root_passwd" => ~(s = <<>> \/ Ended(s))
  BY <1>1, <1>2, <1>3, <1>4, <1>5, <1>6, <1>7, <1>8, AfterIs
     DEF GInv, WinFresh, WinRun, Contents
<1>11. /\ Setting("public") = p /\ p \in Commands /\ w # p /\ Setting("password") = w
       /\ w \in Commands
       /\ Setting("host") \in Commands /\ Setting("host") # w
       /\ Asked("private") => Setting("private") \in Commands
       /\ Setting("private") # w
       /\ Shutdown \in Commands /\ Clean \in Commands /\ <<"diskpart", 0>> \in Commands
       /\ Shutdown # w /\ Clean # w /\ <<"diskpart", 0>> # w
  BY <1>2, <1>3, <1>4, AskedSettings DEF Setting, Always, Asked, Shutdown, Clean
<1>12. l.ended = TRUE
  BY <1>5
<1>13. ASSUME NEW cmd \in Commands, NEW e \in BOOLEAN, At \in AfterPublic,
              t = Add(s, cmd, e), cmd # w \/ At = "reset_root_passwd"
       PROVE  t[1] = l /\ NoLine(t, w)
  <2>1. t[1] = l
    BY <1>10, <1>12, <1>13, AddFirst
  <2>2. NoLine(t, w)
    BY <1>10, <1>13, AddNone
  <2> QED
    BY <2>1, <2>2
<1>14. SUFFICES /\ At' \in AfterPublic => t[1] = l
                /\ At' \notin AfterPublic => t = <<>>
                /\ NoLine(t, w)
  BY <1>7, <1>9
<1>15. CASE At \in Idle
  <2>1. t = s /\ At' \notin AfterPublic /\ At \notin AfterPublic
    BY <1>6, <1>7, <1>8, <1>9, <1>15, WinOther, AfterIs DEF RunNext, Idle
  <2> QED
    BY <1>10, <2>1
<1>16. CASE At = "public_nic_setup"
  <2>1. t = Add(<<>>, p, TRUE)
    BY <1>2, <1>6, <1>9, <1>11, <1>16, WinPublic DEF Scripted
  <2>2. t = <<Single(p)>>
    BY <1>11, <2>1, AddOne
  <2>3. t[1] = l
    BY <1>5, <2>2 DEF Single
  <2>4. NoLine(t, w)
    BY <1>11, <2>1, EmptyNone, EmptyIn, AddNone
  <2>5. At' \in AfterPublic
    BY <1>7, <1>16, AfterIs DEF RunNext
  <2> QED
    BY <2>3, <2>4, <2>5
<1>17. CASE At \in AfterPublic
  <2>1. At' \in AfterPublic
    BY <1>7, <1>17, AfterIs DEF RunNext
  <2>2. SUFFICES t[1] = l /\ NoLine(t, w)
    BY <2>1
  <2>3. t = s => t[1] = l /\ NoLine(t, w)
    BY <1>10, <1>17
  <2>4. CASE At = "private_nic_setup"
    <3>1. CASE Asked("private")
      <4>1. t = Add(s, Setting("private"), FALSE)
        BY <1>2, <1>6, <1>8, <1>9, <2>4, <3>1, WinPrivate DEF Scripted
      <4> QED
        BY <1>11, <1>13, <1>17, <3>1, <4>1
    <3>2. CASE ~Asked("private")
      BY <1>2, <1>6, <1>8, <1>9, <2>3, <2>4, <3>2, WinPrivate
    <3> QED
      BY <3>1, <3>2
  <2>5. CASE At \in {"vpc_gw_nic_setup", "set_pubic_keys"}
    BY <1>6, <1>8, <1>9, <2>3, <2>5, WinOther
  <2>6. CASE At = "set_hostname"
    <3>1. t = Add(s, Setting("host"), FALSE)
      BY <1>2, <1>6, <1>8, <1>9, <2>6, WinHost DEF Scripted
    <3> QED
      BY <1>11, <1>13, <1>17, <3>1
  <2>7. CASE At = "reset_root_passwd"
    <3>1. t = Add(s, Setting("password"), TRUE)
      BY <1>2, <1>6, <1>8, <1>9, <2>7, WinPassword DEF Scripted
    <3> QED
      BY <1>11, <1>13, <1>17, <2>7, <3>1
  <2>8. CASE At = "resize_fs"
    <3>1. t = Add(s, <<"diskpart", 0>>, TRUE)
      BY <1>2, <1>6, <1>8, <1>9, <2>8, WinResize DEF Scripted
    <3> QED
      BY <1>11, <1>13, <1>17, <3>1
  <2>9. CASE At = "clearfix"
    <3>1. PICK m : m = Add(s, Shutdown, TRUE)
      OBVIOUS
    <3>2. t = Add(m, Clean, TRUE)
      BY <1>2, <1>6, <1>8, <1>9, <2>9, <3>1, WinClearfix DEF Scripted
    <3>3. m \in Seq(Lines) /\ m # <<>>
      BY <1>10, <1>11, <3>1, AddTyped
    <3>4. m[1] = l
      BY <1>10, <1>11, <1>12, <1>17, <3>1, AddFirst
    <3>5. NoLine(m, w)
      BY <1>10, <1>11, <3>1, AddNone
    <3>6. t[1] = l
      BY <1>11, <1>12, <3>2, <3>3, <3>4, AddFirst
    <3>7. NoLine(t, w)
      BY <1>11, <3>2, <3>3, <3>5, AddNone
    <3> QED
      BY <3>6, <3>7
  <2> QED
    BY <1>1, <1>17, <2>4, <2>5, <2>6, <2>7, <2>8, <2>9, AfterIs DEF Calls, Idle
<1> QED
  BY <1>1, <1>7, <1>15, <1>16, <1>17, AfterIs DEF RunNext, Idle

LEMMA CallWinRun ==
  ASSUME GInv, Call
  PROVE  WinRun'
<1>1. /\ ~Idling /\ At \in Calls /\ At # "convert" /\ Goes(At, At') /\ On' = On
      /\ UNCHANGED <<distro, job, requests>> /\ (Resets' <=> Resets) /\ Old' = After(At)
  BY CallIs
<1>2. JobOK /\ Old \in Contents
  BY <1>1, Fits
<1>3. PICK s : s = Old.script
  OBVIOUS
<1>4. PICK t : t = After(At).script
  OBVIOUS
<1>5. SUFFICES ASSUME Win, ~Resets
               PROVE  /\ At' \in AfterPublic => t # <<>>
                      /\ At' \in AfterPublic \ {"close"} => NoLine(t, Clean)
                      /\ At' = "reset_root_passwd" => ~Ended(t)
                      /\ At' \in AfterPassword => Ended(t)
                      /\ At' = "close" => Whole(t)
  <2>1. (Win' <=> Win)
    BY <1>1, SameSystem
  <2>2. Old'.script = t
    BY <1>1, <1>4
  <2> QED
    BY <1>1, <2>1, <2>2 DEF WinRun
<1>6. RunNext(At, At')
  BY <1>1, <1>5 DEF Goes
<1>7. /\ s \in Seq(Lines)
      /\ At \in AfterPublic => s # <<>>
      /\ At \in AfterPublic \ {"close"} => NoLine(s, Clean)
      /\ At = "reset_root_passwd" => ~Ended(s)
      /\ At \in AfterPassword => Ended(s)
  BY <1>1, <1>2, <1>3, <1>5 DEF GInv, WinRun, Contents
<1>8. /\ Setting("public") \in Commands /\ Setting("public") # Clean
      /\ Setting("password") \in Commands /\ Setting("password") # Clean
      /\ Setting("host") \in Commands /\ Setting("host") # Clean
      /\ Asked("private") => Setting("private") \in Commands
      /\ Setting("private") # Clean
      /\ Shutdown \in Commands /\ Clean \in Commands /\ <<"diskpart", 0>> \in Commands
      /\ Shutdown # Clean /\ <<"diskpart", 0>> # Clean
  BY <1>2, AskedSettings DEF Setting, Always, Asked, Shutdown, Clean
<1>9. ASSUME NEW cmd \in Commands, NEW e \in BOOLEAN, cmd # Clean,
             At \in AfterPublic \ {"close"}, t = Add(s, cmd, e)
      PROVE  t # <<>> /\ NoLine(t, Clean) /\ (Ended(t) <=> e = TRUE)
  <2>1. t # <<>> /\ t[Len(t)].ended = e
    BY <1>7, <1>9, AddTyped
  <2>2. NoLine(t, Clean)
    BY <1>7, <1>9, AddNone
  <2> QED
    BY <2>1, <2>2 DEF Ended
<1>10. CASE At \in Idle
  BY <1>6, <1>10, AfterIs DEF RunNext, Idle
<1>11. CASE At = "public_nic_setup"
  <2>1. t = Add(<<>>, Setting("public"), TRUE)
    BY <1>2, <1>4, <1>5, <1>11, WinPublic DEF Scripted
  <2>2. t # <<>>
    BY <1>8, <2>1, EmptyIn, AddTyped
  <2>3. NoLine(t, Clean)
    BY <1>8, <2>1, EmptyIn, EmptyNone, AddNone
  <2>4. At' = "private_nic_setup"
    BY <1>6, <1>11 DEF RunNext
  <2> QED
    BY <2>2, <2>3, <2>4, AfterIs
<1>12. CASE At = "private_nic_setup"
  <2>1. At' = "vpc_gw_nic_setup" /\ At \in AfterPublic \ {"close"}
    BY <1>6, <1>12, AfterIs DEF RunNext
  <2>2. CASE Asked("private")
    <3>1. t = Add(s, Setting("private"), FALSE)
      BY <1>2, <1>3, <1>4, <1>5, <1>12, <2>2, WinPrivate DEF Scripted
    <3> QED
      BY <1>8, <1>9, <2>1, <2>2, <3>1, AfterIs
  <2>3. CASE ~Asked("private")
    <3>1. t = s
      BY <1>2, <1>3, <1>4, <1>5, <1>12, <2>3, WinPrivate
    <3> QED
      BY <1>7, <2>1, <3>1, AfterIs
  <2> QED
    BY <2>2, <2>3
<1>13. CASE At \in {"vpc_gw_nic_setup", "set_pubic_keys"}
  <2>1. At' \in {"set_pubic_keys", "set_hostname"} /\ At \in AfterPublic \ {"close"}
    BY <1>6, <1>13, AfterIs DEF RunNext
  <2>2. t = s
    BY <1>3, <1>4, <1>5, <1>13, WinOther
  <2> QED
    BY <1>7, <2>1, <2>2, AfterIs
<1>14. CASE At = "set_hostname"
  <2>1. At' = "reset_root_passwd" /\ At \in AfterPublic \ {"close"}
    BY <1>6, <1>14, AfterIs DEF RunNext
  <2>2. t = Add(s, Setting("host"), FALSE)
    BY <1>2, <1>3, <1>4, <1>5, <1>14, WinHost DEF Scripted
  <2> QED
    BY <1>8, <1>9, <2>1, <2>2, AfterIs
<1>15. CASE At = "reset_root_passwd"
  <2>1. At' = "resize_fs" /\ At \in AfterPublic \ {"close"}
    BY <1>6, <1>15, AfterIs DEF RunNext
  <2>2. t = Add(s, Setting("password"), TRUE)
    BY <1>2, <1>3, <1>4, <1>5, <1>15, WinPassword DEF Scripted
  <2> QED
    BY <1>8, <1>9, <2>1, <2>2, AfterIs
<1>16. CASE At = "resize_fs"
  <2>1. At' = "clearfix" /\ At \in AfterPublic \ {"close"}
    BY <1>6, <1>16, AfterIs DEF RunNext
  <2>2. t = Add(s, <<"diskpart", 0>>, TRUE)
    BY <1>2, <1>3, <1>4, <1>5, <1>16, WinResize DEF Scripted
  <2> QED
    BY <1>8, <1>9, <2>1, <2>2, AfterIs
<1>17. CASE At = "clearfix"
  <2>1. At' = "close"
    BY <1>6, <1>17 DEF RunNext
  <2>2. PICK m : m = Add(s, Shutdown, TRUE)
    OBVIOUS
  <2>3. t = Add(m, Clean, TRUE)
    BY <1>2, <1>3, <1>4, <1>5, <1>17, <2>2, WinClearfix DEF Scripted
  <2>4. m \in Seq(Lines) /\ Ended(m)
    BY <1>7, <1>8, <2>2, AddTyped DEF Ended
  <2>5. Whole(t)
    BY <2>3, <2>4, AddClean
  <2> QED
    BY <2>1, <2>5, AfterIs DEF Whole
<1> QED
  BY <1>1, <1>6, <1>10, <1>11, <1>12, <1>13, <1>14, <1>15, <1>16, <1>17 DEF RunNext, Idle

-----------------------------------------------------------------------------
(* A call of reset_password, and every call together.                      *)

LEMMA CallShadow ==
  ASSUME JobOK, Old \in Contents, NEW call \in Calls,
         \A e \in Old.file["shadow"] : e[1] = "password"
  PROVE  \A e \in After(call).file["shadow"] : e[1] = "password"
<1>1. PICK c : c = Old
  OBVIOUS
<1>2. PICK d : d = After(call)
  OBVIOUS
<1>3. "shadow" \in Files
  BY DEF Files
<1>4. SUFFICES d.file["shadow"] = c.file["shadow"] \/ d.file["shadow"] = {Setting("password")}
  BY <1>1, <1>2 DEF Setting
<1>5. CASE Win
  BY <1>1, <1>2, <1>5, CallKept DEF Kept
<1>6. CASE ~Win
  <2>1. CASE call = "public_nic_setup"
    BY <1>1, <1>2, <1>3, <1>6, <2>1, UnixPublic DEF Wrote
  <2>2. CASE call = "private_nic_setup"
    BY <1>1, <1>2, <1>3, <1>6, <2>2, UnixPrivate DEF Wrote
  <2>3. CASE call = "vpc_gw_nic_setup"
    BY <1>1, <1>2, <1>3, <1>6, <2>3, UnixVpc DEF Wrote
  <2>4. CASE call = "set_pubic_keys"
    BY <1>1, <1>2, <1>3, <1>6, <2>4, UnixKeys DEF Wrote
  <2>5. CASE call = "set_hostname"
    BY <1>1, <1>2, <1>3, <1>6, <2>5, UnixHost DEF Wrote
  <2>6. CASE call = "reset_root_passwd"
    BY <1>1, <1>2, <1>3, <1>6, <2>6, UnixPassword DEF Wrote
  <2>7. CASE call \in Idle \cup {"resize_fs", "clearfix", "clearfix_again"}
    BY <1>1, <1>2, <1>6, <2>7, UnixOther
  <2> QED
    BY <2>1, <2>2, <2>3, <2>4, <2>5, <2>6, <2>7 DEF Calls
<1> QED
  BY <1>5, <1>6

LEMMA ResetCall ==
  ASSUME GInv, Call, Resets
  PROVE  /\ On = "image" /\ Image = Old /\ Image' = After(At) /\ Image \in Contents
         /\ Image' \in Contents /\ Image'.taken = Image.taken
         /\ At \in {"launch", "mount_root", "reset_root_passwd", "clearfix_again"}
         /\ At \in Idle => Image' = Image /\ Untouched("image")'
         /\ At = "reset_root_passwd" => At' = "clearfix_again"
         /\ At = "clearfix_again" => At' = "close"
         /\ At \notin Idle => ~Untouched("image")'
         /\ (Untouched("image") <=> At # "clearfix_again")
<1>1. /\ At \in Calls /\ Goes(At, At') /\ On' = On /\ (Resets' <=> Resets)
      /\ Kept(Old, After(At)) /\ fs'[On] = After(At) /\ On \in Images
  BY CallIs
<1>2. On = "image" /\ ResetNext(At, At')
  BY <1>1 DEF On, Resets, Goes
<1>3. Image = Old /\ Image' = After(At) /\ Image \in Contents
  BY <1>1, <1>2 DEF Image, Old, GInv, GuestTypeOK
<1>4. At \in Idle => Image' = Image
  BY <1>3, UnixOther, WinOther
<1>5. /\ At \in {"launch", "mount_root", "reset_root_passwd", "clearfix_again"}
      /\ At \in Idle => At' \in {"mount_root", "reset_root_passwd"}
      /\ At = "reset_root_passwd" => At' = "clearfix_again"
      /\ At = "clearfix_again" => At' = "close"
  BY <1>2 DEF ResetNext, Idle
<1>6. /\ At \in Idle => Untouched("image")'
      /\ At \notin Idle => ~Untouched("image")'
  BY <1>1, <1>2, <1>5 DEF Untouched, Idle
<1>7. Untouched("image") <=> At # "clearfix_again"
  BY <1>2, <1>5 DEF Untouched
<1> QED
  BY <1>1, <1>2, <1>3, <1>4, <1>5, <1>6, <1>7 DEF Kept

LEMMA ResetScript ==
  ASSUME GInv, Call, Resets, Win, "image" \notin spoilt,
         At \in {"reset_root_passwd", "clearfix_again"}
  PROVE  /\ early = TRUE => /\ Whole(Image'.script)
                            /\ Executed(Image'.script) = Executed(Image.script)
                            /\ <<"password", requests>> \notin Executed(Image'.script)
         /\ early = FALSE /\ At = "reset_root_passwd" =>
              Image.script = <<>> /\ Image'.script = <<NewPassword>>
         /\ early = FALSE /\ At = "clearfix_again" =>
              Image.script = <<NewPassword>> /\ Image'.script = <<NewPassword, CleanLine>>
<1>1. ~Idling /\ On = "image" /\ Image = Old /\ Image' = After(At) /\ Image \in Contents
      /\ (Untouched("image") <=> At # "clearfix_again")
  BY CallIs, ResetCall
<1>2. JobOK /\ job.n = requests /\ requests \in Nat \ {0}
  BY <1>1, Fits
<1>3. PICK s : s = Image.script
  OBVIOUS
<1>4. PICK t : t = Image'.script
  OBVIOUS
<1>5. PICK p : p = <<"password", requests>>
  OBVIOUS
<1>6. s \in Seq(Lines)
  BY <1>1, <1>3 DEF Contents
<1>7. /\ p \in Commands /\ Clean \in Commands /\ NewPassword = Single(p)
      /\ CleanLine = Single(Clean) /\ Setting("password") = p
  BY <1>1, <1>2, <1>5, PasswordLines DEF Setting
<1>8. CASE At = "reset_root_passwd"
  <2>1. t = Add(s, p, TRUE)
    BY <1>1, <1>2, <1>3, <1>4, <1>7, <1>8, WinPassword DEF Scripted
  <2>2. (early = TRUE <=> s # <<>>) /\ Ready(s)
    BY <1>1, <1>3, <1>8 DEF GInv, Resetting, ReadyInv, Image, Images
  <2>3. ASSUME early = TRUE
        PROVE  Whole(t) /\ Executed(t) = Executed(s) /\ p \notin Executed(s)
    <3>1. Whole(s)
      BY <2>2, <2>3 DEF Ready
    <3>2. Whole(t) /\ Executed(t) = Executed(s)
      BY <1>6, <1>7, <2>1, <3>1, AddBehind
    <3>3. Newest("image") = requests - 1
      BY <1>1, <1>8 DEF Newest
    <3>4. CommandsIn(s, Items \X (0..requests - 1))
      BY <1>3, <3>3 DEF GInv, Bounded, Images, Image, Holds
    <3>5. p \notin Items \X (0..requests - 1)
      BY <1>2, <1>5
    <3>6. p \notin Others
      BY <1>5, ItemNot DEF Items
    <3>7. p \notin Executed(s)
      BY <1>6, <3>4, <3>5, <3>6, ExecutedIn
    <3> QED
      BY <3>2, <3>7
  <2>4. ASSUME early = FALSE PROVE s = <<>> /\ t = <<NewPassword>>
    BY <1>7, <2>1, <2>2, <2>4, AddOne
  <2> QED
    BY <1>3, <1>4, <1>5, <1>8, <2>3, <2>4
<1>9. CASE At = "clearfix_again"
  <2>1. t = Add(s, Clean, TRUE)
    BY <1>1, <1>2, <1>3, <1>4, <1>9, WinClearfixAgain DEF Scripted
  <2>2. /\ early = TRUE => Whole(s) /\ p \notin Executed(s)
        /\ early = FALSE => s = <<NewPassword>>
    BY <1>1, <1>3, <1>5, <1>9 DEF GInv, Resetting
  <2>3. ASSUME early = TRUE
        PROVE  Whole(t) /\ Executed(t) = Executed(s) /\ p \notin Executed(s)
    BY <1>6, <1>7, <2>1, <2>2, <2>3, AddBehind
  <2>4. ASSUME early = FALSE PROVE s = <<NewPassword>> /\ t = <<NewPassword, CleanLine>>
    BY <1>7, <2>1, <2>2, <2>4, AddTwo
  <2> QED
    BY <1>3, <1>4, <1>5, <1>9, <2>3, <2>4
<1> QED
  BY <1>8, <1>9

LEMMA CallResetting ==
  ASSUME GInv, Call
  PROVE  Resetting'
<1>1. /\ ~Idling /\ UNCHANGED <<distro, requests, early, spoilt>> /\ (Resets' <=> Resets)
  BY CallIs
<1>2. (Win' <=> Win)
  BY <1>1, SameSystem
<1>3. NewPassword' = NewPassword /\ requests' = requests
  BY <1>1 DEF NewPassword
<1>4. SUFFICES ASSUME Resets PROVE Resetting'
  BY <1>1 DEF Resetting
<1>5. Untouched("image")' => (early = TRUE <=> Image'.script # <<>>)
  <2>1. Untouched("image")' => At \in Idle /\ Image' = Image /\ Untouched("image")
    BY <1>4, ResetCall DEF Idle
  <2> QED
    BY <1>1, <1>4, <2>1 DEF GInv, Resetting
<1>6. ~Untouched("image")' => At \in {"reset_root_passwd", "clearfix_again"}
  BY <1>4, ResetCall DEF Idle
<1>7. ~Win /\ ~Untouched("image")' => <<"password", requests>> \in Image'.file["shadow"]
  <2>1. CASE ~Win /\ At = "reset_root_passwd"
    <3>1. Image'.file["shadow"] = {Setting("password")} /\ job.n = requests
      BY <1>1, <1>4, <2>1, Fits, ResetCall, UnixPassword DEF Wrote
    <3> QED
      BY <3>1 DEF Setting
  <2>2. CASE ~Win /\ At = "clearfix_again"
    <3>1. Image' = Image /\ ~Untouched("image")
      BY <1>4, <2>2, ResetCall, UnixOther
    <3> QED
      BY <1>1, <1>4, <2>2, <3>1 DEF GInv, Resetting
  <2> QED
    BY <1>6, <2>1, <2>2
<1>8. ASSUME Win, ~Untouched("image")', "image" \notin spoilt
      PROVE  /\ early = TRUE => /\ Whole(Image'.script)
                                /\ <<"password", requests>> \notin Executed(Image'.script)
             /\ early = FALSE /\ At' = "clearfix_again" => Image'.script = <<NewPassword>>
             /\ early = FALSE /\ At' = "close" => Image'.script = <<NewPassword, CleanLine>>
  <2>1. /\ At = "reset_root_passwd" => At' = "clearfix_again"
        /\ At = "clearfix_again" => At' = "close"
    BY <1>4, ResetCall
  <2> QED
    BY <1>4, <1>6, <1>8, <2>1, ResetScript
<1> QED
  BY <1>1, <1>2, <1>3, <1>5, <1>7, <1>8 DEF Resetting, CleanLine

LEMMA ResetTaken ==
  ASSUME GInv, Call, Resets, "image" \notin spoilt, NEW i \in Items \ {"password"}
  PROVE  Taken'[i] = Taken[i]
<1>1. /\ ~Idling /\ UNCHANGED distro /\ Image \in Contents /\ Image' \in Contents
      /\ Image'.taken = Image.taken
      /\ At \in Idle => Image' = Image
      /\ At \in Idle \cup {"reset_root_passwd", "clearfix_again"}
  BY CallIs, ResetCall DEF Idle
<1>2. (Win' <=> Win)
  BY <1>1, SameSystem
<1>3. ASSUME NEW j \in Items \ {"password"}, NEW n
      PROVE  (<<j, n>> \in Found)' <=> <<j, n>> \in Found
  <2>1. CASE At \in Idle
    BY <1>1, <1>2, <2>1 DEF Found
  <2>2. CASE Win /\ At \in {"reset_root_passwd", "clearfix_again"}
    <3>1. Found = Executed(Image.script) /\ Found' = Executed(Image'.script)
      BY <1>2, <2>2 DEF Found
    <3>2. CASE early = TRUE
      BY <2>2, <3>1, <3>2, ResetScript
    <3>3. CASE early = FALSE
      <4>1. PICK p : p = <<"password", requests>>
        OBVIOUS
      <4>2. /\ p \in Commands /\ Clean \in Commands
            /\ NewPassword = Single(p) /\ CleanLine = Single(Clean)
        BY <1>1, <4>1, PasswordLines
      <4>3. <<j, n>> # p /\ <<j, n>> # Clean
        BY <4>1, ItemNot DEF Others
      <4>4. <<j, n>> \notin Executed(<<>>)
        BY NothingExecuted
      <4>5. <<j, n>> \notin Executed(<<NewPassword>>)
        BY <4>2, <4>3, ExecutedOne
      <4>6. <<j, n>> \notin Executed(<<NewPassword, CleanLine>>)
        BY <4>2, <4>3, ExecutedTwo
      <4> QED
        BY <2>2, <3>1, <3>3, <4>4, <4>5, <4>6, ResetScript
    <3>4. early \in BOOLEAN
      BY DEF GInv, GuestTypeOK
    <3> QED
      BY <3>2, <3>3, <3>4
  <2>3. CASE ~Win /\ At = "clearfix_again"
    <3>1. Image' = Image
      BY <2>3, ResetCall, UnixOther
    <3> QED
      BY <1>2, <3>1 DEF Found
  <2>4. CASE ~Win /\ At = "reset_root_passwd"
    <3>1. /\ Image'.file["shadow"] = {Setting("password")}
          /\ \A f \in Files \ {"shadow"} : Image'.file[f] = Image.file[f]
      BY <1>1, <2>4, Fits, ResetCall, UnixPassword DEF Wrote
    <3>2. <<j, n>> \notin Image.file["shadow"]
      <4>1. \A e \in Image.file["shadow"] : e[1] = "password"
        BY DEF GInv, Shadow, Image, Images
      <4> QED
        BY <4>1
    <3>3. <<j, n>> \notin Image'.file["shadow"]
      BY <3>1 DEF Setting
    <3>4. \A f \in Files : <<j, n>> \in Image'.file[f] <=> <<j, n>> \in Image.file[f]
      BY <3>1, <3>2, <3>3
    <3>5. (Found = UNION {Image.file[f] : f \in Files})
          /\ (Found' = UNION {Image'.file[f] : f \in Files})
      BY <1>2, <2>4 DEF Found
    <3> QED
      BY <3>4, <3>5
  <2> QED
    BY <1>1, <2>1, <2>2, <2>3, <2>4
<1>4. Has(i)' = Has(i)
  <2>1. \A n \in 1..MaxRequests : (<<"public", n>> \in Found)' <=> <<"public", n>> \in Found
    BY <1>3 DEF Items
  <2> QED
    BY <1>1, <1>2, <2>1 DEF Has
<1>5. \A n \in 1..MaxRequests : (<<i, n>> \in Found)' <=> <<i, n>> \in Found
  BY <1>3
<1> QED
  BY <1>1, <1>4, <1>5, SameTaken

LEMMA CallGInv ==
  ASSUME GInv, Call
  PROVE  GInv'
<1>1. /\ ~Idling /\ At \in Calls /\ At \notin {"convert", "close"}
      /\ fs' = [fs EXCEPT ![On] = After(At)] /\ locked' = locked \cup {On}
      /\ UNCHANGED <<distro, job, power, guest, requests, answer, told, early, made, spoilt>>
      /\ Ordered' /\ ~Idling' /\ Goes(At, At') /\ On' = On /\ (Resets' <=> Resets)
      /\ Kept(Old, After(At)) /\ fs'[On] = After(At) /\ Old' = After(At)
      /\ On \in Images /\ \A x \in Images \ {On} : fs'[x] = fs[x]
  BY CallIs
<1>2. GuestTypeOK /\ JobOK /\ Old \in Contents
  BY <1>1, Fits DEF GInv
<1>3. GuestTypeOK'
  BY <1>1, <1>2 DEF GuestTypeOK, Kept
<1>4. Bounded'
  BY CallBounded
<1>5. Configuring'
  BY <1>1 DEF GInv, Configuring
<1>6. Fresh' /\ UnixFresh' /\ WinFresh' /\ WinRun'
  BY CallFresh, CallWinFresh, CallWinRun
<1>7. (Win' <=> Win) /\ Supported' = Supported
  BY <1>1, SameSystem
<1>8. ReadyInv'
  <2>1. SUFFICES ASSUME Win, NEW x \in Images, x \notin spoilt, Untouched(x)'
                 PROVE  Ready(fs'[x].script)
    BY <1>1, <1>7 DEF ReadyInv
  <2>2. CASE x = On
    BY <1>1, <2>1, <2>2, IdleCall DEF GInv, ReadyInv, Old
  <2>3. CASE x # On
    BY <1>1, <2>1, <2>3 DEF GInv, ReadyInv, Untouched
  <2> QED
    BY <2>2, <2>3
<1>9. Resetting'
  BY CallResetting
<1>10. Settled'
  <2>1. SUFFICES ASSUME "image" \notin spoilt, Resets, NEW i \in Items \ {"password"}
                 PROVE  Settles(i)'
    BY <1>1 DEF Settled
  <2>2. Taken'[i] = Taken[i]
    BY <2>1, ResetTaken
  <2>3. Settles(i)
    BY <2>1 DEF GInv, Settled
  <2> QED
    BY <1>1, <1>7, <2>2, <2>3 DEF Settles
<1>11. PasswordSettled'
  BY <1>1 DEF PasswordSettled
<1>12. Live'
  BY <1>1 DEF GInv, Live
<1>13. UnixScript'
  BY <1>1, <1>7 DEF GInv, UnixScript, Kept, Old
<1>14. Shadow'
  <2>1. \A e \in Old.file["shadow"] : e[1] = "password"
    BY <1>1 DEF GInv, Shadow, Old
  <2>2. \A e \in After(At).file["shadow"] : e[1] = "password"
    BY <1>1, <1>2, <2>1, CallShadow
  <2> QED
    BY <1>1, <2>2 DEF GInv, Shadow
<1>15. Held'
  BY <1>1 DEF GInv, Held
<1> QED
  BY <1>1, <1>3, <1>4, <1>5, <1>6, <1>8, <1>9, <1>10, <1>11, <1>12, <1>13, <1>14, <1>15
     DEF GInv

LEMMA StutterGInv ==
  ASSUME GInv, UNCHANGED guestVars
  PROVE  GInv'
<1>1. UNCHANGED <<distro, fs, job, todo, locked, power, guest, requests, answer, told,
                  early, made, spoilt>>
  BY DEF guestVars
<1>2. Family' = Family /\ (Win' <=> Win) /\ Supported' = Supported
  BY <1>1, SameSystem DEF Family
<1>3. /\ Image' = Image /\ On' = On /\ Old' = Old /\ At' = At
      /\ (Idling' <=> Idling) /\ (Resets' <=> Resets)
  BY <1>1 DEF Image, On, Old, At, Idling, Resets
<1>4. (OnTemplate' <=> OnTemplate) /\ Answered' = Answered
  BY <1>1, <1>3 DEF OnTemplate, Answered
<1>5. \A x : (Untouched(x)' <=> Untouched(x)) /\ Newest(x)' = Newest(x)
  BY <1>1, <1>3 DEF Untouched, Newest
<1>6. \A i : Place(i)' = Place(i)
  BY <1>2 DEF Place
<1>7. Taken' = Taken
  BY <1>1, <1>3, StillTaken DEF GInv, GuestTypeOK, Images, Image
<1>8. NewPassword' = NewPassword
  BY <1>1 DEF NewPassword
<1>9. GuestTypeOK' /\ Ordered'
  BY <1>1, <1>3 DEF GInv, GuestTypeOK, Ordered
<1>10. Bounded'
  BY <1>1, <1>4, <1>5 DEF GInv, Bounded
<1>11. Configuring'
  BY <1>1, <1>3 DEF GInv, Configuring
<1>12. Fresh'
  BY <1>1, <1>3, <1>4 DEF GInv, Fresh
<1>13. UnixFresh'
  BY <1>1, <1>2, <1>3, <1>4, <1>6 DEF GInv, UnixFresh
<1>14. WinFresh'
  BY <1>1, <1>2, <1>3, <1>4 DEF GInv, WinFresh
<1>15. WinRun'
  BY <1>2, <1>3 DEF GInv, WinRun
<1>16. ReadyInv'
  BY <1>1, <1>2, <1>3, <1>5 DEF GInv, ReadyInv
<1>17. Resetting'
  BY <1>1, <1>2, <1>3, <1>5, <1>8 DEF GInv, Resetting
<1>18. Settled'
  BY <1>1, <1>2, <1>3, <1>7 DEF GInv, Settled, Settles
<1>19. PasswordSettled'
  BY <1>1, <1>2, <1>3, <1>7 DEF GInv, PasswordSettled
<1>20. Live'
  BY <1>1, <1>3, <1>7 DEF GInv, Live
<1>21. UnixScript' /\ Shadow' /\ Held'
  BY <1>1, <1>2, <1>3 DEF GInv, UnixScript, Shadow, Held
<1> QED
  BY <1>9, <1>10, <1>11, <1>12, <1>13, <1>14, <1>15, <1>16, <1>17, <1>18, <1>19, <1>20,
     <1>21
     DEF GInv

LEMMA NextGInv == GInv /\ [Next]_guestVars => GInv'
<1> SUFFICES ASSUME GInv, [Next]_guestVars PROVE GInv'
  OBVIOUS
<1>1. ASSUME NEW j \in Jobs, Request(j) PROVE GInv'
  BY <1>1, RequestGInv
<1>2. CASE Convert
  BY <1>2, ConvertGInv
<1>3. CASE Call
  BY <1>3, CallGInv
<1>4. CASE Fails
  BY <1>4, StopsGInv DEF Fails
<1>5. CASE Close
  BY <1>5, CloseGInv
<1>6. CASE Collected
  BY <1>6, RestGInv DEF Collected, Idling
<1>7. CASE Crash
  BY <1>7, StopsGInv DEF Crash
<1>8. CASE TakeSnapshot
  BY <1>8, TakeSnapshotGInv
<1>9. CASE Boot
  BY <1>9, BootGInv
<1>10. CASE PowersOff
  <2>1. power = "running"
    BY <1>10 DEF PowersOff
  <2>2. Idling
    BY <2>1 DEF GInv, Live
  <2> QED
    BY <1>10, <2>2, RestGInv DEF PowersOff
<1>11. CASE UNCHANGED guestVars
  BY <1>11, StutterGInv
<1> QED
  BY <1>1, <1>2, <1>3, <1>4, <1>5, <1>6, <1>7, <1>8, <1>9, <1>10, <1>11 DEF Next

-----------------------------------------------------------------------------
(* A step that changes nothing; what the invariant says of the properties. *)

LEMMA GInvHeld == GInv => HeldOnlyByFailure
BY DEF GInv, Held, Idling, HeldOnlyByFailure

LEMMA GInvOnce == GInv => ScriptRunsOnce
BY DEF GInv, Live, Runs, ScriptRunsOnce

LEMMA GInvEffect == GInv => TakesEffect
<1> SUFFICES ASSUME GInv, Runs PROVE
      /\ \A i \in Supported : told[i] \notin {0, made} => guest[i] = told[i]
      /\ Win => (guest["password"] = told["password"]
                   <=> (told["password"] > told["host"] /\ ~early))
  BY DEF TakesEffect
<1>1. Idling /\ guest = Taken /\ "image" \notin spoilt
  BY DEF GInv, Live, Runs
<1>2. Supported \subseteq Items
  BY DEF Supported, Items
<1>3. ASSUME NEW i \in Supported, told[i] \notin {0, made} PROVE guest[i] = told[i]
  BY <1>1, <1>2, <1>3 DEF GInv, Settled, Settles, PasswordSettled
<1>4. early = FALSE <=> ~early
  BY DEF GInv, GuestTypeOK
<1>5. Win => (guest["password"] = told["password"]
                <=> (told["password"] > told["host"] /\ early = FALSE))
  BY <1>1 DEF GInv, PasswordSettled
<1> QED
  BY <1>3, <1>4, <1>5

LEMMA GInvStale == GInv => NothingStale
<1> SUFFICES ASSUME GInv, Runs, NEW i \in Items, guest[i] \notin {0, told[i]}
    PROVE guest[i] < made \/ (Win /\ early /\ i = "password")
  BY DEF NothingStale
<1>1. Idling /\ guest = Taken /\ "image" \notin spoilt
  BY DEF GInv, Live, Runs
<1>2. early = TRUE => early
  OBVIOUS
<1>3. CASE i = "password"
  BY <1>1, <1>2, <1>3 DEF GInv, PasswordSettled
<1>4. CASE i # "password"
  BY <1>1, <1>4 DEF GInv, Settled, Settles
<1> QED
  BY <1>3, <1>4

(* The images, the answers and the history keep their types; what is in a  *)
(* script is never an empty line, whatever run() and reset_password() do.  *)
THEOREM GuestTyping == Spec => []GuestTypeOK
<1>1. GInv => GuestTypeOK
  BY DEF GInv
<1> QED
  BY <1>1, InitGInv, NextGInv, PTL DEF Spec

(* For any requests, in any number, with failures, crashes and snapshots   *)
(* anywhere between two calls: a guest that runs on an image no failed     *)
(* handler has left has what the requests answered with success asked for, *)
(* as far as GuestFSUtil supports its system and except for a create from  *)
(* a snapshot; and Windows takes a password just from a reset_password     *)
(* that came after its first start.                                        *)
THEOREM SettingsTaken == Spec => []TakesEffect
<1> QED
  BY InitGInv, NextGInv, GInvEffect, PTL DEF Spec

(* Whatever is in the images and in what Windows keeps: a setting that the *)
(* guest was not told last is of a request before the one that made its    *)
(* image from a snapshot, or the password that an early reset_password of  *)
(* Windows did not change.                                                 *)
THEOREM OldSettingsGone == Spec => []NothingStale
<1> QED
  BY InitGInv, NextGInv, GInvStale, PTL DEF Spec

(* cloudinit.cmd is empty as soon as the guest has started: clearfix() has *)
(* put the command that empties it on a line of its own that is reached.   *)
THEOREM ScriptsEmptied == Spec => []ScriptRunsOnce
<1> QED
  BY InitGInv, NextGInv, GInvOnce, PTL DEF Spec

(* Between two handlers, only one that answered with an error has left a   *)
(* libguestfs session on its image: every success went through close().    *)
THEOREM SessionsClosed == Spec => []HeldOnlyByFailure
<1> QED
  BY InitGInv, NextGInv, GInvHeld, PTL DEF Spec

-----------------------------------------------------------------------------
(* The files of templates in the cache.                                    *)

(* Inductive invariant: as long as nobody else has changed the file since  *)
(* w's check, what w has read is what it wants; and a file that is being   *)
(* written was opened by somebody.                                         *)
ReadsWanted ==
  \A w \in Workers :
    ~disturbed[w] /\ stage[w] \in {"reading", "done"} => image[w] = want[w]

Opened == Writers # {} => opener # Nobody

(* Who is about to truncate the file undisturbed has found it other than   *)
(* wanted; who writes it undisturbed has not let it become whole.          *)
NeededDownload ==
  \A w \in Workers : ~disturbed[w] =>
    /\ stage[w] = "download" => cached # want[w]
    /\ stage[w] = "writing" => cached \notin Templates

IInv == TypeOK /\ ReadsWanted /\ Opened

JInv == IInv /\ NeededDownload

LEMMA InitIInv == CacheInit => IInv
  BY NamesAssumption, CacheBoundAssumption
     DEF CacheInit, IInv, TypeOK, ReadsWanted, Opened, Writers, Unusable, Stages, Nobody

LEMMA RequestIInv ==
  ASSUME IInv, NEW w \in Workers, NEW t \in Templates, CacheRequest(w, t)
  PROVE  IInv'
  BY CacheBoundAssumption
     DEF CacheRequest, Move, IInv, TypeOK, ReadsWanted, Opened, Writers, Unusable,
         Stages, Nobody

LEMMA ReadIInv ==
  ASSUME IInv, NEW w \in Workers,
         \/ Check(w) \/ DownloadFails(w) \/ Verify(w)
         \/ ConvertOpen(w) \/ ConvertClose(w) \/ Answer(w)
  PROVE  IInv'
<1>1. CASE Check(w)
  BY <1>1 DEF Check, Move, IInv, TypeOK, ReadsWanted, Opened, Writers, Stages, Nobody
<1>2. CASE DownloadFails(w)
  BY <1>2
     DEF DownloadFails, Move, IInv, TypeOK, ReadsWanted, Opened, Writers, Stages, Nobody
<1>3. CASE Verify(w)
  BY <1>3 DEF Verify, Move, IInv, TypeOK, ReadsWanted, Opened, Writers, Stages, Nobody
<1>4. CASE ConvertOpen(w)
  BY <1>4
     DEF ConvertOpen, Move, IInv, TypeOK, ReadsWanted, Opened, Writers, Stages, Nobody
<1>5. CASE ConvertClose(w)
  BY <1>5
     DEF ConvertClose, Move, IInv, TypeOK, ReadsWanted, Opened, Writers, Stages, Nobody
<1>6. CASE Answer(w)
  BY <1>6 DEF Answer, Move, IInv, TypeOK, ReadsWanted, Opened, Writers, Stages, Nobody
<1>7. QED
  BY <1>1, <1>2, <1>3, <1>4, <1>5, <1>6

(* A handler that changes the file leaves the history with its type, and   *)
(* marks everybody else.                                                   *)
LEMMA Disturbs ==
  ASSUME TypeOK, NEW w \in Workers, Disturb(w)
  PROVE  /\ disturbed' \in [Workers -> BOOLEAN]
         /\ image' \in [Workers -> Templates \cup Unusable]
         /\ \A u \in Workers : ~disturbed'[u] => u = w
         /\ \A u \in Workers : stage[u] # "reading" => image'[u] = image[u]
<1>1. disturbed' \in [Workers -> BOOLEAN]
  BY Zenon DEF Disturb
<1>2. image' \in [Workers -> Templates \cup Unusable]
  BY DEF Disturb, TypeOK, Unusable
<1>3. \A u \in Workers : disturbed'[u] = (disturbed[u] \/ u # w)
  BY Zenon DEF Disturb
<1>4. \A u \in Workers : stage[u] # "reading" => image'[u] = image[u]
  BY DEF Disturb
<1>5. QED
  BY <1>1, <1>2, <1>3, <1>4

(* The three actions that change the file.                                 *)
LEMMA WriteIInv ==
  ASSUME IInv, NEW w \in Workers, OpenFile(w) \/ WriteFile(w) \/ CloseFile(w)
  PROVE  IInv'
<1>1. CASE OpenFile(w)
  <2>1. Disturb(w) /\ TypeOK
    BY <1>1 DEF OpenFile, IInv
  <2>2. wrote' \subseteq Templates
    BY <1>1 DEF OpenFile, Writers, IInv, TypeOK
  <2>3. cached' = "part" /\ opener' = w /\ w # Nobody
    BY <1>1, NamesAssumption DEF OpenFile
  <2>4. stage' = [stage EXCEPT ![w] = "writing"] /\ UNCHANGED <<want, cacheRequests>>
    BY <1>1 DEF OpenFile, Move
  <2>5. TypeOK'
    BY <2>1, <2>2, <2>3, <2>4, Disturbs DEF TypeOK, Unusable, Stages
  <2>6. ReadsWanted'
    BY <2>1, <2>4, Disturbs DEF TypeOK, ReadsWanted
  <2>7. QED
    BY <2>3, <2>5, <2>6 DEF IInv, Opened
<1>2. CASE WriteFile(w)
  <2>1. Disturb(w) /\ TypeOK /\ stage[w] = "writing"
    BY <1>2 DEF WriteFile, Writers, IInv
  <2>2. cached \in Templates /\ cached # "absent" /\ cached' = "mixed"
    BY <1>2, NamesAssumption DEF WriteFile, Unusable
  <2>3. TypeOK'
    BY <1>2, <2>1, <2>2, Disturbs DEF WriteFile, TypeOK, Unusable, Stages
  <2>4. ReadsWanted'
    BY <1>2, <2>1, Disturbs DEF WriteFile, ReadsWanted
  <2>5. QED
    BY <1>2, <2>2, <2>3, <2>4 DEF WriteFile, IInv, TypeOK, Opened
<1>3. CASE CloseFile(w)
  <2>1. /\ TypeOK /\ stage[w] = "writing"
        /\ stage' = [stage EXCEPT ![w] = "verify"]
        /\ UNCHANGED <<opener, want, cacheRequests, wrote>>
    BY <1>3 DEF CloseFile, Move, IInv
  <2>2. opener # Nobody /\ cached # "absent"
    BY <1>3, <2>1 DEF IInv, TypeOK, Opened, Writers
  <2>3. cached' \in Templates \cup Unusable /\ cached' # "absent"
    BY <1>3, <2>1, <2>2, NamesAssumption DEF CloseFile, TypeOK, Unusable
  <2>4. CASE cached' # cached
    <3>1. Disturb(w)
      BY <1>3, <2>4 DEF CloseFile
    <3>2. TypeOK'
      BY <2>1, <2>2, <2>3, <3>1, Disturbs DEF TypeOK, Stages
    <3>3. ReadsWanted'
      BY <2>1, <3>1, Disturbs DEF ReadsWanted, TypeOK
    <3>4. QED
      BY <2>1, <2>2, <3>2, <3>3 DEF IInv, Opened
  <2>5. CASE cached' = cached
    <3>1. UNCHANGED <<disturbed, image>>
      BY <1>3, <2>5 DEF CloseFile
    <3>2. TypeOK'
      BY <2>1, <2>5, <3>1 DEF TypeOK, Stages
    <3>3. ReadsWanted'
      BY <2>1, <3>1 DEF IInv, ReadsWanted, TypeOK, Stages
    <3>4. QED
      BY <2>1, <2>2, <3>2, <3>3 DEF IInv, Opened
  <2>6. QED
    BY <2>4, <2>5
<1>4. QED
  BY <1>1, <1>2, <1>3

LEMMA NextIInv == ASSUME IInv, [CacheNext]_cacheVars PROVE IInv'
<1>1. CASE \E w \in Workers, t \in Templates : CacheRequest(w, t)
  BY <1>1, RequestIInv
<1>2. CASE \E w \in Workers :
             \/ Check(w) \/ DownloadFails(w) \/ Verify(w)
             \/ ConvertOpen(w) \/ ConvertClose(w) \/ Answer(w)
  BY <1>2, ReadIInv
<1>3. CASE \E w \in Workers : OpenFile(w) \/ WriteFile(w) \/ CloseFile(w)
  BY <1>3, WriteIInv
<1>4. CASE CacheCrash
  BY <1>4 DEF CacheCrash, IInv, TypeOK, ReadsWanted, Opened, Writers, Stages
<1>5. CASE UNCHANGED cacheVars
  BY <1>5 DEF cacheVars, IInv, TypeOK, ReadsWanted, Opened, Writers
<1>6. QED
  BY <1>1, <1>2, <1>3, <1>4, <1>5 DEF CacheNext

(* However many handlers download, check, truncate and read the file of    *)
(* however many templates, crashes and bad downloads included: without a   *)
(* change by another handler after its check (Template.download()'s two    *)
(* comparisons of md5sum()), a handler deploys the template it was asked   *)
(* for.                                                                    *)
THEOREM DeploysWanted ==
  CacheSpec => []MadeOfWanted
<1>1. CacheInit => IInv
  BY InitIInv
<1>2. IInv /\ [CacheNext]_cacheVars => IInv'
  BY NextIInv
<1>3. IInv => MadeOfWanted
  BY DEF IInv, ReadsWanted, MadeOfWanted
<1>4. QED
  BY <1>1, <1>2, <1>3, PTL DEF CacheSpec

-----------------------------------------------------------------------------
LEMMA InitJInv == CacheInit => JInv
  BY InitIInv DEF CacheInit, JInv, NeededDownload

LEMMA NeededKept ==
  ASSUME JInv, NEW w \in Workers,
         \/ Check(w) \/ DownloadFails(w) \/ Verify(w)
         \/ ConvertOpen(w) \/ ConvertClose(w) \/ Answer(w)
         \/ \E t \in Templates : CacheRequest(w, t)
  PROVE  NeededDownload'
  BY DEF Check, DownloadFails, Verify, ConvertOpen, ConvertClose, Answer, CacheRequest,
         Move, JInv, IInv, TypeOK, NeededDownload, Stages

LEMMA NeededWritten ==
  ASSUME JInv, NEW w \in Workers, OpenFile(w) \/ WriteFile(w) \/ CloseFile(w)
  PROVE  NeededDownload'
<1>1. TypeOK
  BY DEF JInv, IInv
<1>2. CASE OpenFile(w)
  BY <1>1, <1>2, Disturbs, NamesAssumption
     DEF OpenFile, Move, TypeOK, NeededDownload, Unusable
<1>3. CASE WriteFile(w)
  BY <1>1, <1>3, Disturbs, NamesAssumption
     DEF WriteFile, TypeOK, NeededDownload, Unusable
<1>4. CASE CloseFile(w) /\ cached' # cached
  BY <1>1, <1>4, Disturbs DEF CloseFile, Move, TypeOK, NeededDownload
<1>5. CASE CloseFile(w) /\ cached' = cached
  BY <1>1, <1>5 DEF CloseFile, Move, TypeOK, JInv, NeededDownload
<1>6. QED
  BY <1>2, <1>3, <1>4, <1>5

LEMMA NextJInv == ASSUME JInv, [CacheNext]_cacheVars PROVE JInv'
<1>1. IInv'
  BY NextIInv DEF JInv
<1>2. CASE \E w \in Workers :
             \/ Check(w) \/ DownloadFails(w) \/ Verify(w)
             \/ ConvertOpen(w) \/ ConvertClose(w) \/ Answer(w)
             \/ \E t \in Templates : CacheRequest(w, t)
  BY <1>1, <1>2, NeededKept DEF JInv
<1>3. CASE \E w \in Workers : OpenFile(w) \/ WriteFile(w) \/ CloseFile(w)
  BY <1>1, <1>3, NeededWritten DEF JInv
<1>4. CASE CacheCrash
  BY <1>1, <1>4 DEF CacheCrash, JInv, NeededDownload
<1>5. CASE UNCHANGED cacheVars
  BY <1>1, <1>5 DEF cacheVars, JInv, NeededDownload
<1>6. QED
  BY <1>2, <1>3, <1>4, <1>5 DEF CacheNext

(* Every variable keeps its type; the file is absent as long as nobody has *)
(* opened it, and what a handler is about to read, or reads, is what it    *)
(* checked unless somebody else changed it.                                *)
THEOREM CacheTyping ==
  CacheSpec => []TypeOK
<1>1. IInv => TypeOK
  BY DEF IInv
<1>2. QED
  BY <1>1, InitIInv, NextIInv, PTL DEF CacheSpec

(* What WholeStays says of one step.                                       *)
WholeKept ==
  \A t \in Templates :
    cached = t /\ cached' # t =>
      \E w \in Workers : stage[w] \in {"download", "writing"}
                         /\ (want[w] # t \/ disturbed[w])

LEMMA StepKeeps == ASSUME JInv, [CacheNext]_cacheVars PROVE WholeKept
<1> SUFFICES ASSUME NEW t \in Templates, cached = t, cached' # t
             PROVE  \E w \in Workers : stage[w] \in {"download", "writing"}
                                       /\ (want[w] # t \/ disturbed[w])
  BY DEF WholeKept
<1>1. TypeOK /\ NeededDownload
  BY DEF JInv, IInv
<1>2. PICK w \in Workers : OpenFile(w) \/ WriteFile(w) \/ CloseFile(w)
  BY DEF CacheNext, cacheVars, CacheRequest, Check, DownloadFails, Verify, ConvertOpen,
         ConvertClose, Answer, CacheCrash
<1>3. CASE OpenFile(w)
  BY <1>1, <1>3 DEF OpenFile, Move, NeededDownload
<1>4. CASE WriteFile(w)
  BY <1>4 DEF WriteFile, Writers
<1>5. CASE CloseFile(w)
  BY <1>1, <1>5 DEF CloseFile, Move, NeededDownload
<1>6. QED
  BY <1>2, <1>3, <1>4, <1>5

(* Template.download() truncates or spoils a whole file only in the hands  *)
(* of a handler that was asked for another template, or whose comparison   *)
(* of md5sum() the file has changed since, for any number of handlers,     *)
(* templates, failures and crashes.                                        *)
THEOREM WholeFilesStay ==
  CacheSpec => WholeStays
<1>1. JInv /\ [CacheNext]_cacheVars => [WholeKept]_cacheVars
  BY StepKeeps
<1>2. QED
  BY <1>1, InitJInv, NextJInv, PTL DEF CacheSpec, WholeStays, WholeKept

=============================================================================
