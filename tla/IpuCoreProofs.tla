---------------------------- MODULE IpuCoreProofs ----------------------------
(***************************************************************************)
(* For every number of threads and whatever fails in probes, commands and  *)
(* sleeps: who authenticates has the device awake and the image mapped, an *)
(* unbound driver holds nothing but what its failed probe is known to      *)
(* leave, a lost IPC session is remembered, and an authentication that was *)
(* reported is real.                                                       *)
(***************************************************************************)
EXTENDS IpuCore, FiniteSetTheorems, SequenceTheorems, TLAPS

(* Where a thread is, and in which call *)

Resets == {"reset", "resetPoll"}
Wakes == {"wake", "woken"}
Gets == {"getPsys", "powerPsys"}
Sends == {"send", "ring", "sent", "received", "closeMailbox"}
Auths == {"authenticate", "booted", "ran", "poll", "reread", "magic", "endAuth"}
PciTop == {"idle", "probe", "probed", "remove", "sleep", "resume", "resumeGet", "resumeGot",
           "resumed", "flr", "flrDone"}
DbgTop == {"idle", "dbgGot", "dbgDone"}
Top == PciTop \cup DbgTop

\* Where the calls of the buttress and of the PM core were made.
ResetBack == {"probed", "resumeGet"}
GetBack == {"probed", "resumeGot", "dbgGot"}
SleepBack == {"sleep", "flr"}
AuthBack == {"probed", "resumed", "dbgDone"}

\* A thread that wakes the device, alone or for a reference on psys.
WakeBack(q) == \/ \E b \in SleepBack : q = << b >>
               \/ \E b \in GetBack : q = << "powerPsys", b >>

\* A place and what is pending there.
StackAt(a, q) ==
  \/ a \in Top /\ q = << >>
  \/ a \in Gets /\ \E b \in GetBack : q = << b >>
  \/ a \in Wakes /\ WakeBack(q)
  \/ a \in Resets /\ \/ \E b \in ResetBack : q = << b >>
                     \/ \E b \in SleepBack : q = << "woken", b >>
                     \/ \E b \in GetBack : q = << "woken", "powerPsys", b >>
  \/ a \in Auths /\ \E b \in AuthBack : q = << b >>
  \/ a \in Sends /\ \E b \in AuthBack, c \in {"booted", "ran"} : q = << c, b >>

\* The place outside of all calls that the thread is at or will come back to.
BaseOf(a, q) == IF q = << >> THEN a ELSE q[Len(q)]
Base(t) == BaseOf(at[t], callers[t])

Place == Top \cup Gets \cup Wakes \cup Resets \cup Auths \cup Sends

Control ==
  /\ at \in [Thread -> Place]
  /\ callers \in [Thread -> Seq(Place)]
  /\ rc \in [Thread -> {"ok", "error"}]
  /\ \A t \in Thread : StackAt(at[t], callers[t])

-----------------------------------------------------------------------------
(* The invariants *)

PhasesOf(b) ==
  CASE b = "idle" -> {"unbound", "bound"}
    [] b \in {"probe", "probed"} -> {"probing"}
    [] b = "remove" -> {"removing"}
    [] b \in {"sleep", "resume", "resumeGet"} -> {"asleep"}
    [] b \in {"resumeGot", "resumed"} -> {"bound"}
    [] b \in {"flr", "flrDone"} -> {"resetting"}
    [] OTHER -> {}

\* At which step of a probe its calls are made.
CallStepOf(a) ==
  CASE a \in Gets \cup Wakes -> {12} [] a \in Resets -> {5, 12}
    [] a \in Auths \cup Sends -> {16} [] OTHER -> {5, 12, 16}

Phases ==
  /\ Base(Pci) \in PciTop /\ phase \in PhasesOf(Base(Pci))
  /\ step \in 1 .. 18 /\ (phase = "removing" => step \in 1 .. 7)
  /\ Base(Pci) = "probed" => step \in CallStepOf(at[Pci])
  /\ Base(Pci) = "probed" /\ at[Pci] \in Resets =>
       step = IF Head(callers[Pci]) = "woken" THEN 12 ELSE 5
  /\ \A t \in Debugfs :
       /\ Base(t) \in DbgTop
       /\ Base(t) # "idle" => phase \in {"bound", "resetting"} \/ (phase = "removing" /\ step = 1)

All == {"irq", "minFile", "maxFile", "effFile", "fw", "isysMmu", "isysDev", "psysMmu", "psysDev",
        "image", "pkgDir", "debugfs"}

\* A probe has what its steps have taken, and the file that was in its way.
HeldInv ==
  /\ held \subseteq All
  /\ phase \in {"bound", "asleep", "resetting"} => held = All
  /\ phase = "probing" =>
       \A k \in 1 .. 18 : ProbeSteps[k] \notin TakesNothing =>
         IF k < step THEN ProbeSteps[k] \in held
         ELSE ProbeSteps[k] \in held => ProbeSteps[k] = "effFile"
  /\ phase = "removing" =>
       /\ step = 1 => held = All
       /\ \A k \in 1 .. 7 : k < step => held \cap RemoveTakes(RemoveSteps[k]) = {}
  /\ NothingHeldUnbound

\* The thread has a reference on psys; it has also come back from waking it.
Holds(t) ==
  \/ Base(t) \in {"dbgGot", "resumeGot"} /\ at[t] # "getPsys"
  \/ Base(t) \in {"dbgDone", "resumed"}
  \/ Base(t) \in {"probe", "probed"} /\ step \in 13 .. 17
  \/ Base(t) = "probed" /\ step = 12 /\ at[t] # "getPsys"
Past(t) == Holds(t) /\ at[t] \notin Wakes \cup Resets

Holders == {t \in Thread : Holds(t)}

Awake ==
  /\ usage \in Nat /\ rpm \in {"suspended", "resuming", "active"}
  /\ Cardinality(Holders) <= usage
  /\ \A t \in Thread : Past(t) => rpm = "active"

InAuth(t) == at[t] \in Sends \cup (Auths \ {"authenticate"})

Commands ==
  /\ cmd \in [Thread -> Command \cup {NoCommand}]
  /\ authMutex \in Thread \cup {Free} /\ secure \in BOOLEAN
  /\ \A t \in Thread :
       /\ authMutex = t <=> InAuth(t)
       /\ InAuth(t) => secure
       /\ ~ InAuth(t) => cmd[t] = NoCommand
       /\ at[t] \in Sends => cmd[t] = IF Head(callers[t]) = "booted" THEN "boot" ELSE "run"
       /\ at[t] \in {"booted", "magic"} => cmd[t] = "boot"
       /\ at[t] = "ran" => cmd[t] = "run"
       /\ at[t] \in {"poll", "reread"} => cmd[t] \in Command

\* Before and after the CSE has worked off a command, unless somebody resets
\* the authentication.
Before(c) == IF c = "boot" THEN {"none"} ELSE {"none", "setupDone"}
After(c) == IF c = "boot" THEN {"setupDone", "failed"} ELSE {"authDone", "failed"}

Job == [cmd : Command, answered : BOOLEAN]

\* The CSE has a command to work off, in the doorbell or as its only job.
Rung(t) == \/ door = cmd[t] /\ jobs = << >>
           \/ door = NoCommand /\ \E j \in Job : jobs = << j >> /\ j.cmd = cmd[t]
Quiet == door = NoCommand /\ jobs = << >>

\* What a thread that authenticates knows of its command.
Knows(t) ==
  \/ at[t] \in {"send", "ring"} /\ Quiet /\ setup \in Before(cmd[t])
  \/ /\ at[t] \in {"sent", "received", "closeMailbox", "booted", "ran", "poll"}
     /\ Quiet \/ (Rung(t) /\ setup \in Before(cmd[t]))
     /\ setup \in Before(cmd[t]) \cup After(cmd[t])
  \/ /\ at[t] = "endAuth" /\ rc[t] # "ok" /\ cmd[t] \in Command
     /\ Quiet \/ (Rung(t) /\ setup \in Before(cmd[t]))
     /\ setup \in Before(cmd[t]) \cup After(cmd[t])
  \/ at[t] = "reread" /\ Quiet /\ setup \in After(cmd[t]) \cup {"none"}
  \/ at[t] = "magic" /\ Quiet /\ setup \in Before("run")
  \/ at[t] = "endAuth" /\ rc[t] = "ok" /\ Quiet /\ setup \in {"none", "authDone"}

GaveUp == {"no", "resent", "failed"}

Jobs ==
  /\ gaveUp \in GaveUp /\ setup \in SetupState
  /\ door \in Command \cup {NoCommand}
  /\ gaveUp = "no" =>
       /\ authMutex = Free => Quiet /\ setup \in {"none", "authDone"}
       /\ \A t \in Thread : InAuth(t) => Knows(t)

\* A thread that has reset the authentication and not yet its turn.
Waits(t) == Base(t) = "dbgGot" \/ (Base(t) = "dbgDone" /\ at[t] = "authenticate")
Real == AuthDone \/ verdict = "void" \/ \E u \in Thread : Waits(u)

Verdicts ==
  gaveUp # "failed" =>
    /\ verdict = "ok" /\ secure => Real \/ \E t \in Thread : InAuth(t)
    /\ \A t \in Thread :
         /\ at[t] = "endAuth" /\ rc[t] = "ok" => Real
         /\ at[t] = "reread" /\ cmd[t] = "run" /\ setup # "failed" => Real

Sessions ==
  /\ phase = "bound" /\ stale => ipcReinit
  /\ phase = "probing" /\ (step > 5 \/ (step = 5 /\ Base(Pci) = "probed")) => ~ stale
  /\ Base(Pci) = "resumeGet" => ~ stale

-----------------------------------------------------------------------------
(* Calls and returns *)

\* Sequences of one, two and three elements.
LEMMA Short ==
  ASSUME NEW S, NEW x \in S, NEW y \in S, NEW z \in S
  PROVE  /\ << x >> \in Seq(S) /\ Len(<< x >>) = 1 /\ << x >>[1] = x
         /\ << x, y >> \in Seq(S) /\ Len(<< x, y >>) = 2
         /\ << x, y >>[1] = x /\ << x, y >>[2] = y
         /\ << x, y, z >> \in Seq(S) /\ Len(<< x, y, z >>) = 3
         /\ << x, y, z >>[1] = x /\ << x, y, z >>[2] = y /\ << x, y, z >>[3] = z
<1>1. << x >> \in Seq(S) /\ Len(<< x >>) = 1 /\ << x >>[1] = x
  OBVIOUS
<1>2. << x, y >> \in Seq(S) /\ Len(<< x, y >>) = 2
  OBVIOUS
<1>3. << x, y >>[1] = x /\ << x, y >>[2] = y
  OBVIOUS
<1>4. << x, y, z >> \in Seq(S) /\ Len(<< x, y, z >>) = 3
  OBVIOUS
<1>5. << x, y, z >>[1] = x /\ << x, y, z >>[2] = y /\ << x, y, z >>[3] = z
  OBVIOUS
<1> QED
  BY <1>1, <1>2, <1>3, <1>4, <1>5

LEMMA Pushes ==
  ASSUME NEW S, NEW x \in S, NEW y \in S, NEW z \in S
  PROVE  /\ << x >> \o << >> = << x >>
         /\ << x >> \o << y >> = << x, y >>
         /\ << x >> \o << y, z >> = << x, y, z >>
<1>1. << x >> \o << >> = << x >>
  OBVIOUS
<1>2. << x >> \o << y >> = << x, y >>
  <2> DEFINE s == << x >> \o << y >>
  <2>1. /\ s \in Seq(S) /\ Len(s) = Len(<< x >>) + Len(<< y >>)
        /\ \A i \in 1 .. Len(<< x >>) + Len(<< y >>) :
             s[i] = IF i <= Len(<< x >>) THEN << x >>[i] ELSE << y >>[i - Len(<< x >>)]
    <3>1. << x >> \in Seq(S) /\ << y >> \in Seq(S)
      BY Short
    <3> QED
      BY <3>1, ConcatProperties, ZenonT(20)
  <2>2. Len(<< x >>) = 1 /\ Len(<< y >>) = 1 /\ << x >>[1] = x /\ << y >>[1] = y
    BY Short
  <2> HIDE DEF s
  <2>3. Len(s) = 2
    BY <2>1, <2>2
  <2>4. s[1] = x
    BY <2>1, <2>2
  <2>5. s[2] = y
    BY <2>1, <2>2
  <2>6. s = << x, y >>
    <3>1. << x, y >> \in Seq(S) /\ Len(<< x, y >>) = 2 /\ << x, y >>[1] = x /\ << x, y >>[2] = y
      BY Short
    <3>2. \A i \in 1 .. Len(s) : s[i] = << x, y >>[i]
      BY <2>3, <2>4, <2>5, <3>1
    <3> QED
      BY <2>1, <2>3, <3>1, <3>2, SeqEqual
  <2> QED
    BY <2>6 DEF s
<1>3. << x >> \o << y, z >> = << x, y, z >>
  <2> DEFINE s == << x >> \o << y, z >>
  <2>1. /\ s \in Seq(S) /\ Len(s) = Len(<< x >>) + Len(<< y, z >>)
        /\ \A i \in 1 .. Len(<< x >>) + Len(<< y, z >>) :
             s[i] = IF i <= Len(<< x >>) THEN << x >>[i] ELSE << y, z >>[i - Len(<< x >>)]
    <3>1. << x >> \in Seq(S) /\ << y, z >> \in Seq(S)
      BY Short
    <3> QED
      BY <3>1, ConcatProperties, ZenonT(20)
  <2>2. /\ Len(<< x >>) = 1 /\ << x >>[1] = x
        /\ Len(<< y, z >>) = 2 /\ << y, z >>[1] = y /\ << y, z >>[2] = z
    BY Short
  <2> HIDE DEF s
  <2>3. Len(s) = 3
    BY <2>1, <2>2
  <2>4. s[1] = x
    BY <2>1, <2>2
  <2>5. s[2] = y /\ s[3] = z
    BY <2>1, <2>2
  <2>6. s = << x, y, z >>
    <3>1. /\ << x, y, z >> \in Seq(S) /\ Len(<< x, y, z >>) = 3
          /\ << x, y, z >>[1] = x /\ << x, y, z >>[2] = y /\ << x, y, z >>[3] = z
      BY Short
    <3>2. \A i \in 1 .. Len(s) : s[i] = << x, y, z >>[i]
      BY <2>3, <2>4, <2>5, <3>1
    <3> QED
      BY <2>1, <2>3, <3>1, <3>2, SeqEqual
  <2> QED
    BY <2>6 DEF s
<1> QED
  BY <1>1, <1>2, <1>3

LEMMA Pops ==
  ASSUME NEW S, NEW x \in S, NEW y \in S, NEW z \in S
  PROVE  /\ Head(<< x >>) = x /\ Tail(<< x >>) = << >>
         /\ Head(<< x, y >>) = x /\ Tail(<< x, y >>) = << y >>
         /\ Head(<< x, y, z >>) = x /\ Tail(<< x, y, z >>) = << y, z >>
         /\ << x >> # << >> /\ << x, y >> # << >> /\ << x, y, z >> # << >>
<1>1. Head(<< x >>) = x /\ Head(<< x, y >>) = x /\ Head(<< x, y, z >>) = x
  OBVIOUS
<1>2. Tail(<< x >>) = << >>
  OBVIOUS
<1>8. << x >> # << >> /\ << x, y >> # << >> /\ << x, y, z >> # << >>
  OBVIOUS
<1>3. Tail(<< x, y >>) = << y >>
  <2> DEFINE s == << x, y >>  u == << y >>
  <2>1. s \in Seq(S) /\ Len(s) = 2 /\ s[2] = y /\ u \in Seq(S) /\ Len(u) = 1 /\ u[1] = y
    BY Short
  <2>2. s # << >>
    BY <1>8
  <2> HIDE DEF s, u
  <2>3. Tail(s) \in Seq(S) /\ Len(Tail(s)) = Len(s) - 1
        /\ \A i \in 1 .. Len(Tail(s)) : Tail(s)[i] = s[i + 1]
    BY <2>1, <2>2, HeadTailProperties
  <2> DEFINE w == Tail(s)
  <2>6. w \in Seq(S) /\ Len(w) = Len(s) - 1 /\ \A i \in 1 .. Len(w) : w[i] = s[i + 1]
    BY <2>3
  <2> HIDE DEF w
  <2>7. Len(w) = 1
    BY <2>1, <2>6
  <2>8. w[1] = y
    BY <2>1, <2>6, <2>7
  <2>4. \A i \in 1 .. Len(u) : u[i] = w[i]
    BY <2>1, <2>7, <2>8
  <2>9. Len(u) = Len(w)
    BY <2>1, <2>7
  <2>5. u = w
    BY <2>1, <2>4, <2>6, <2>9, SeqEqual
  <2> QED
    BY <2>5 DEF s, u, w
<1>4. Tail(<< x, y, z >>) = << y, z >>
  <2> DEFINE s == << x, y, z >>  u == << y, z >>
  <2>1. /\ s \in Seq(S) /\ Len(s) = 3 /\ s[2] = y /\ s[3] = z
        /\ u \in Seq(S) /\ Len(u) = 2 /\ u[1] = y /\ u[2] = z
    BY Short
  <2>2. s # << >>
    BY <1>8
  <2> HIDE DEF s, u
  <2>3. Tail(s) \in Seq(S) /\ Len(Tail(s)) = Len(s) - 1
        /\ \A i \in 1 .. Len(Tail(s)) : Tail(s)[i] = s[i + 1]
    BY <2>1, <2>2, HeadTailProperties
  <2> DEFINE w == Tail(s)
  <2>6. w \in Seq(S) /\ Len(w) = Len(s) - 1 /\ \A i \in 1 .. Len(w) : w[i] = s[i + 1]
    BY <2>3
  <2> HIDE DEF w
  <2>7. Len(w) = 2
    BY <2>1, <2>6
  <2>8. w[1] = y /\ w[2] = z
    BY <2>1, <2>6, <2>7
  <2>4. \A i \in 1 .. Len(u) : u[i] = w[i]
    BY <2>1, <2>7, <2>8
  <2>9. Len(u) = Len(w)
    BY <2>1, <2>7
  <2>5. u = w
    BY <2>1, <2>4, <2>6, <2>9, SeqEqual
  <2> QED
    BY <2>5 DEF s, u, w
<1> QED
  BY <1>1, <1>2, <1>3, <1>4, <1>8

\* What is pending tells where the thread is, and the other way round.
LEMMA Pending ==
  ASSUME NEW a \in Place, NEW q, StackAt(a, q)
  PROVE  /\ a \in Top <=> q = << >>
         /\ a \in Top => BaseOf(a, q) = a
         /\ a \in Gets => BaseOf(a, q) \in GetBack /\ q = << BaseOf(a, q) >>
         /\ a \in Auths => BaseOf(a, q) \in AuthBack /\ q = << BaseOf(a, q) >>
         /\ a \in Sends => /\ BaseOf(a, q) \in AuthBack
                           /\ \E c \in {"booted", "ran"} : q = << c, BaseOf(a, q) >>
         /\ a \in Wakes => \/ BaseOf(a, q) \in SleepBack /\ q = << BaseOf(a, q) >>
                           \/ BaseOf(a, q) \in GetBack /\ q = << "powerPsys", BaseOf(a, q) >>
         /\ a \in Resets =>
              \/ BaseOf(a, q) \in ResetBack /\ q = << BaseOf(a, q) >>
              \/ BaseOf(a, q) \in SleepBack /\ q = << "woken", BaseOf(a, q) >>
              \/ BaseOf(a, q) \in GetBack /\ q = << "woken", "powerPsys", BaseOf(a, q) >>
<1> DEFINE B == GetBack \cup AuthBack \cup SleepBack \cup ResetBack
<1>1. \A b \in B : << b >> # << >> /\ << b >>[Len(<< b >>)] = b
  <2> SUFFICES ASSUME NEW b \in B PROVE << b >> # << >> /\ << b >>[Len(<< b >>)] = b
    OBVIOUS
  <2> QED
    BY Short, Pops
<1>2. \A b \in B, c \in {"booted", "ran", "woken", "powerPsys"} :
        << c, b >> # << >> /\ << c, b >>[Len(<< c, b >>)] = b
  <2> SUFFICES ASSUME NEW b \in B, NEW c \in {"booted", "ran", "woken", "powerPsys"}
               PROVE  << c, b >> # << >> /\ << c, b >>[Len(<< c, b >>)] = b
    OBVIOUS
  <2> DEFINE S == B \cup {"booted", "ran", "woken", "powerPsys"}
  <2>1. b \in S /\ c \in S
    OBVIOUS
  <2> HIDE DEF S
  <2>2. << c, b >> # << >> /\ Len(<< c, b >>) = 2 /\ << c, b >>[2] = b
    BY <2>1, Short, Pops
  <2> QED
    BY <2>2
<1>3. \A b \in B : /\ << "woken", "powerPsys", b >> # << >>
                   /\ << "woken", "powerPsys", b >>[Len(<< "woken", "powerPsys", b >>)] = b
  <2> SUFFICES ASSUME NEW b \in B
               PROVE /\ << "woken", "powerPsys", b >> # << >>
                     /\ << "woken", "powerPsys", b >>[Len(<< "woken", "powerPsys", b >>)] = b
    OBVIOUS
  <2> DEFINE S == B \cup {"woken", "powerPsys"}
  <2>1. b \in S /\ "woken" \in S /\ "powerPsys" \in S
    OBVIOUS
  <2> HIDE DEF S
  <2>2. /\ << "woken", "powerPsys", b >> # << >> /\ Len(<< "woken", "powerPsys", b >>) = 3
        /\ << "woken", "powerPsys", b >>[3] = b
    BY <2>1, Short, Pops
  <2> QED
    BY <2>2
<1> DEFINE b0 == BaseOf(a, q)
<1>4. CASE a \in Top /\ q = << >>
  BY <1>4 DEF BaseOf, Top, PciTop, DbgTop, Gets, Wakes, Resets, Auths, Sends
<1>5. CASE a \in Gets /\ \E b \in GetBack : q = << b >>
  <2>1. PICK b \in GetBack : q = << b >>
    BY <1>5
  <2>2. b0 = b /\ q # << >>
    BY <2>1, <1>1 DEF BaseOf
  <2> QED
    BY <1>5, <2>1, <2>2 DEF Top, PciTop, DbgTop, Gets, Wakes, Resets, Auths, Sends
<1>6. CASE a \in Wakes /\ WakeBack(q)
  <2>1. CASE \E b \in SleepBack : q = << b >>
    <3>1. PICK b \in SleepBack : q = << b >>
      BY <2>1
    <3>2. b0 = b /\ q # << >>
      BY <3>1, <1>1 DEF BaseOf
    <3> QED
      BY <1>6, <3>1, <3>2 DEF Top, PciTop, DbgTop, Gets, Wakes, Resets, Auths, Sends
  <2>2. CASE \E b \in GetBack : q = << "powerPsys", b >>
    <3>1. PICK b \in GetBack : q = << "powerPsys", b >>
      BY <2>2
    <3>2. b0 = b /\ q # << >>
      BY <3>1, <1>2 DEF BaseOf
    <3> QED
      BY <1>6, <3>1, <3>2 DEF Top, PciTop, DbgTop, Gets, Wakes, Resets, Auths, Sends
  <2> QED
    BY <1>6, <2>1, <2>2 DEF WakeBack
<1>7. CASE a \in Resets /\ \/ \E b \in ResetBack : q = << b >>
                           \/ \E b \in SleepBack : q = << "woken", b >>
                           \/ \E b \in GetBack : q = << "woken", "powerPsys", b >>
  <2>1. CASE \E b \in ResetBack : q = << b >>
    <3>1. PICK b \in ResetBack : q = << b >>
      BY <2>1
    <3>2. b0 = b /\ q # << >>
      BY <3>1, <1>1 DEF BaseOf
    <3> QED
      BY <1>7, <3>1, <3>2 DEF Top, PciTop, DbgTop, Gets, Wakes, Resets, Auths, Sends
  <2>2. CASE \E b \in SleepBack : q = << "woken", b >>
    <3>1. PICK b \in SleepBack : q = << "woken", b >>
      BY <2>2
    <3>2. b0 = b /\ q # << >>
      BY <3>1, <1>2 DEF BaseOf
    <3> QED
      BY <1>7, <3>1, <3>2 DEF Top, PciTop, DbgTop, Gets, Wakes, Resets, Auths, Sends
  <2>3. CASE \E b \in GetBack : q = << "woken", "powerPsys", b >>
    <3>1. PICK b \in GetBack : q = << "woken", "powerPsys", b >>
      BY <2>3
    <3>2. b0 = b /\ q # << >>
      BY <3>1, <1>3 DEF BaseOf
    <3> QED
      BY <1>7, <3>1, <3>2 DEF Top, PciTop, DbgTop, Gets, Wakes, Resets, Auths, Sends
  <2> QED
    BY <1>7, <2>1, <2>2, <2>3
<1>8. CASE a \in Auths /\ \E b \in AuthBack : q = << b >>
  <2>1. PICK b \in AuthBack : q = << b >>
    BY <1>8
  <2>2. b0 = b /\ q # << >>
    BY <2>1, <1>1 DEF BaseOf
  <2> QED
    BY <1>8, <2>1, <2>2 DEF Top, PciTop, DbgTop, Gets, Wakes, Resets, Auths, Sends
<1>9. CASE a \in Sends /\ \E b \in AuthBack, c \in {"booted", "ran"} : q = << c, b >>
  <2>1. PICK b \in AuthBack, c \in {"booted", "ran"} : q = << c, b >>
    BY <1>9
  <2>2. b0 = b /\ q # << >>
    BY <2>1, <1>2 DEF BaseOf
  <2> QED
    BY <1>9, <2>1, <2>2 DEF Top, PciTop, DbgTop, Gets, Wakes, Resets, Auths, Sends
<1> QED
  BY <1>4, <1>5, <1>6, <1>7, <1>8, <1>9 DEF StackAt

-----------------------------------------------------------------------------
(* What a step of a thread does to its control state; the other threads    *)
(* stay where they are.                                                    *)

Others(t) == \A u \in Thread \ {t} :
  /\ at'[u] = at[u] /\ rc'[u] = rc[u] /\ callers'[u] = callers[u]
  /\ Base(u)' = Base(u)

LEMMA Moves ==
  ASSUME Control, NEW t \in Thread, NEW a \in Place, NEW q \in Seq(Place),
         NEW v \in {"ok", "error"}, StackAt(a, q),
         at' = [at EXCEPT ![t] = a], callers' = [callers EXCEPT ![t] = q],
         rc' = [rc EXCEPT ![t] = v]
  PROVE  /\ Control' /\ Others(t)
         /\ at'[t] = a /\ callers'[t] = q /\ rc'[t] = v /\ Base(t)' = BaseOf(a, q)
<1>1. /\ at \in [Thread -> Place] /\ callers \in [Thread -> Seq(Place)]
      /\ rc \in [Thread -> {"ok", "error"}]
  BY DEF Control
<1>2. at'[t] = a /\ callers'[t] = q /\ rc'[t] = v
  BY <1>1
<1>3. \A u \in Thread \ {t} : at'[u] = at[u] /\ rc'[u] = rc[u] /\ callers'[u] = callers[u]
  BY <1>1
<1>4. /\ at' \in [Thread -> Place] /\ callers' \in [Thread -> Seq(Place)]
      /\ rc' \in [Thread -> {"ok", "error"}]
  BY <1>1
<1>5. ASSUME NEW u \in Thread PROVE StackAt(at'[u], callers'[u])
  <2>1. CASE u = t
    BY <2>1, <1>2
  <2>2. CASE u # t
    BY <2>2, <1>3 DEF Control
  <2> QED
    BY <2>1, <2>2
<1>6. Control'
  BY <1>4, <1>5 DEF Control
<1>7. Base(t)' = BaseOf(a, q)
  BY <1>2 DEF Base
<1>8. Others(t)
  BY <1>3 DEF Others, Base
<1> QED
  BY <1>2, <1>6, <1>7, <1>8

LEMMA Where ==
  ASSUME Control, NEW t \in Thread
  PROVE  /\ at[t] \in Place /\ rc[t] \in {"ok", "error"} /\ callers[t] \in Seq(Place)
         /\ StackAt(at[t], callers[t])
         /\ at[t] \in Top <=> callers[t] = << >>
         /\ at[t] \in Top => Base(t) = at[t]
         /\ at[t] \in Gets => Base(t) \in GetBack /\ callers[t] = << Base(t) >>
         /\ at[t] \in Auths => Base(t) \in AuthBack /\ callers[t] = << Base(t) >>
         /\ at[t] \in Sends => /\ Base(t) \in AuthBack
                               /\ \E c \in {"booted", "ran"} : callers[t] = << c, Base(t) >>
         /\ at[t] \in Wakes => \/ Base(t) \in SleepBack /\ callers[t] = << Base(t) >>
                               \/ Base(t) \in GetBack /\ callers[t] = << "powerPsys", Base(t) >>
         /\ at[t] \in Resets =>
              \/ Base(t) \in ResetBack /\ callers[t] = << Base(t) >>
              \/ Base(t) \in SleepBack /\ callers[t] = << "woken", Base(t) >>
              \/ Base(t) \in GetBack /\ callers[t] = << "woken", "powerPsys", Base(t) >>
<1>1. /\ at[t] \in Place /\ rc[t] \in {"ok", "error"} /\ callers[t] \in Seq(Place)
      /\ StackAt(at[t], callers[t])
  BY DEF Control
<1> QED
  BY <1>1, Pending DEF Base

LEMMA Singles ==
  ASSUME NEW b \in GetBack \cup AuthBack \cup SleepBack \cup ResetBack
  PROVE  /\ << b >> \o << >> = << b >> /\ << b >> \in Seq(Place)
         /\ Head(<< b >>) = b /\ Tail(<< b >>) = << >>
<1>1. b \in Place
  BY DEF GetBack, AuthBack, SleepBack, ResetBack, Place, Top, PciTop, DbgTop, Gets, Wakes, Auths
<1> QED
  BY <1>1, Short, Pushes, Pops

LEMMA Doubles ==
  ASSUME NEW b \in GetBack \cup AuthBack \cup SleepBack \cup ResetBack,
         NEW c \in {"booted", "ran", "woken", "powerPsys"}
  PROVE  /\ << c >> \o << b >> = << c, b >> /\ << c, b >> \in Seq(Place)
         /\ Head(<< c, b >>) = c /\ Tail(<< c, b >>) = << b >>
<1>1. b \in Place /\ c \in Place
  BY DEF GetBack, AuthBack, SleepBack, ResetBack, Place, Top, PciTop, DbgTop, Gets, Wakes, Auths
<1>2. << c, b >> \in Seq(Place)
  BY <1>1, Short
<1>3. << c >> \o << b >> = << c, b >>
  BY <1>1, Pushes
<1>4. Head(<< c, b >>) = c /\ Tail(<< c, b >>) = << b >>
  BY <1>1, Pops
<1> QED
  BY <1>2, <1>3, <1>4

LEMMA Triples ==
  ASSUME NEW b \in GetBack
  PROVE  /\ << "woken" >> \o << "powerPsys", b >> = << "woken", "powerPsys", b >>
         /\ << "woken", "powerPsys", b >> \in Seq(Place)
         /\ Head(<< "woken", "powerPsys", b >>) = "woken"
         /\ Tail(<< "woken", "powerPsys", b >>) = << "powerPsys", b >>
<1>1. b \in Place /\ "woken" \in Place /\ "powerPsys" \in Place
  BY DEF GetBack, Place, Top, PciTop, DbgTop, Gets, Wakes
<1>2. << "woken", "powerPsys", b >> \in Seq(Place)
  BY <1>1, Short
<1>3. << "woken" >> \o << "powerPsys", b >> = << "woken", "powerPsys", b >>
  BY <1>1, Pushes
<1>4. /\ Head(<< "woken", "powerPsys", b >>) = "woken"
      /\ Tail(<< "woken", "powerPsys", b >>) = << "powerPsys", b >>
  BY <1>1, Pops
<1> QED
  BY <1>2, <1>3, <1>4

\* A call made outside of all calls.
LEMMA CallsFromTop ==
  ASSUME Control, NEW t \in Thread, at[t] \in Top, NEW e, NEW b, Call(t, e, b),
         \/ e \in Resets /\ b \in ResetBack
         \/ e \in Gets /\ b \in GetBack
         \/ e \in Wakes /\ b \in SleepBack
         \/ e \in Auths /\ b \in AuthBack
  PROVE  /\ Control' /\ Others(t) /\ at'[t] = e /\ Base(t)' = b /\ rc'[t] = rc[t]
         /\ callers'[t] = << b >>
<1>1. callers[t] = << >> /\ rc[t] \in {"ok", "error"}
  BY Where
<1>2. << b >> \o << >> = << b >> /\ << b >> \in Seq(Place)
  BY Singles
<1>3. callers \in [Thread -> Seq(Place)] /\ rc \in [Thread -> {"ok", "error"}]
  BY DEF Control
<1>4. callers' = [callers EXCEPT ![t] = << b >>] /\ rc' = [rc EXCEPT ![t] = rc[t]]
  BY <1>1, <1>2, <1>3 DEF Call
<1>5. e \in Place /\ StackAt(e, << b >>)
  BY DEF Place, StackAt, WakeBack
<1>6. BaseOf(e, << b >>) = b
  BY <1>5, Pending, Singles DEF BaseOf, Place
<1>7. at' = [at EXCEPT ![t] = e]
  BY DEF Call
<1> QED
  BY <1>1, <1>2, <1>4, <1>5, <1>6, <1>7, Moves

\* A call made inside a call.
LEMMA CallsWithin ==
  ASSUME Control, NEW t \in Thread, NEW e, NEW c, Call(t, e, c),
         \/ at[t] = "getPsys" /\ e = "wake" /\ c = "powerPsys"
         \/ at[t] = "wake" /\ e = "reset" /\ c = "woken"
         \/ at[t] \in Auths /\ e = "send" /\ c \in {"booted", "ran"}
  PROVE  /\ Control' /\ Others(t) /\ at'[t] = e /\ Base(t)' = Base(t) /\ rc'[t] = rc[t]
         /\ Head(callers'[t]) = c
<1> DEFINE b == Base(t)
<1>0. /\ callers \in [Thread -> Seq(Place)] /\ rc \in [Thread -> {"ok", "error"}]
      /\ at' = [at EXCEPT ![t] = e]
  BY DEF Control, Call
<1>1. \/ /\ at[t] \in Gets \cup Wakes \cup Auths /\ callers[t] = << b >>
         /\ b \in GetBack \cup AuthBack \cup SleepBack
      \/ at[t] \in Wakes /\ callers[t] = << "powerPsys", b >> /\ b \in GetBack
  BY Where DEF Gets, Wakes
<1>2. rc' = [rc EXCEPT ![t] = rc[t]] /\ rc[t] \in {"ok", "error"}
  BY <1>0 DEF Call
<1>3. ASSUME NEW q \in Seq(Place), StackAt(e, q), e \in Place, << c >> \o callers[t] = q,
             BaseOf(e, q) = b, Head(q) = c
      PROVE  /\ Control' /\ Others(t) /\ at'[t] = e /\ Base(t)' = b /\ rc'[t] = rc[t]
             /\ Head(callers'[t]) = c
  <2>1. callers' = [callers EXCEPT ![t] = q]
    BY <1>3 DEF Call
  <2> HIDE DEF b
  <2> QED
    BY <1>0, <1>2, <1>3, <2>1, Moves
<1>4. e \in Place
  BY DEF Place, Top, PciTop, DbgTop, Gets, Wakes, Resets, Auths, Sends
<1> HIDE DEF b
<1>5. CASE callers[t] = << b >> /\ b \in GetBack \cup AuthBack \cup SleepBack
  <2> DEFINE q == << c, b >>
  <2>1. q \in Seq(Place) /\ << c >> \o callers[t] = q /\ Head(q) = c
    BY <1>5, Doubles
  <2>2. StackAt(e, q)
    <3>1. CASE at[t] = "getPsys" /\ e = "wake" /\ c = "powerPsys"
      <4>1. b \in GetBack
        BY <3>1, Where DEF Gets, b
      <4> QED
        BY <3>1, <4>1 DEF StackAt, WakeBack, Wakes
    <3>2. CASE at[t] = "wake" /\ e = "reset" /\ c = "woken"
      <4>1. b \in SleepBack
        <5>1. CASE b \in SleepBack
          BY <5>1
        <5>2. CASE b \in GetBack /\ callers[t] = << "powerPsys", b >>
          <6>1. Tail(<< "powerPsys", b >>) = << b >> /\ << b >> # << >> /\ Tail(<< b >>) = << >>
            BY <5>2, Doubles, Singles
          <6> QED
            BY <6>1, <5>2, <1>5
        <5> QED
          BY <5>1, <5>2, <3>2, Where DEF Wakes, b
      <4> QED
        BY <3>2, <4>1 DEF StackAt, Resets
    <3>3. CASE at[t] \in Auths /\ e = "send" /\ c \in {"booted", "ran"}
      <4>1. b \in AuthBack
        BY <3>3, Where DEF b
      <4> QED
        BY <3>3, <4>1 DEF StackAt, Sends
    <3> QED
      BY <3>1, <3>2, <3>3
  <2>3. BaseOf(e, q) = b
    <3>1. b \in Place /\ c \in Place
      BY <1>5 DEF GetBack, AuthBack, SleepBack, Place, Top, PciTop, DbgTop, Gets, Wakes, Auths
    <3>2. q # << >> /\ Len(q) = 2 /\ q[2] = b
      BY <3>1, Short, Pops
    <3> HIDE DEF q
    <3> QED
      BY <3>2 DEF BaseOf
  <2> HIDE DEF q
  <2> QED
    BY <1>3, <1>4, <2>1, <2>2, <2>3 DEF b
<1>6. CASE at[t] \in Wakes /\ callers[t] = << "powerPsys", b >> /\ b \in GetBack
  <2> DEFINE q == << "woken", "powerPsys", b >>
  <2>0. c = "woken" /\ e = "reset"
    BY <1>6 DEF Wakes, Auths
  <2>1. q \in Seq(Place) /\ << c >> \o callers[t] = q /\ Head(q) = c
    BY <1>6, <2>0, Triples
  <2>2. StackAt(e, q)
    BY <2>0, <1>6 DEF StackAt, Resets
  <2>3. BaseOf(e, q) = b
    <3>1. b \in Place /\ "woken" \in Place /\ "powerPsys" \in Place
      BY <1>6 DEF GetBack, Place, Top, PciTop, DbgTop, Gets, Wakes
    <3>2. q # << >> /\ Len(q) = 3 /\ q[3] = b
      BY <3>1, Short, Pops
    <3> HIDE DEF q
    <3> QED
      BY <3>2 DEF BaseOf
  <2> HIDE DEF q
  <2> QED
    BY <1>3, <1>4, <2>1, <2>2, <2>3 DEF b
<1> QED
  BY <1>1, <1>5, <1>6 DEF b

\* A call returns.
LEMMA ReturnsTo ==
  ASSUME Control, NEW t \in Thread, NEW v \in {"ok", "error"}, Return(t, v), at[t] \notin Top
  PROVE  /\ Control' /\ Others(t) /\ at'[t] = Head(callers[t]) /\ Base(t)' = Base(t)
         /\ rc'[t] = v
         /\ at[t] \in Gets \cup Auths => at'[t] = Base(t)
         /\ at[t] \in Sends => at'[t] \in {"booted", "ran"}
         /\ at[t] \in Wakes => \/ Base(t) \in SleepBack /\ at'[t] = Base(t)
                               \/ Base(t) \in GetBack /\ at'[t] = "powerPsys"
         /\ at[t] \in Resets => \/ Base(t) \in ResetBack /\ at'[t] = Base(t)
                                \/ Base(t) \in SleepBack \cup GetBack /\ at'[t] = "woken"
<1> DEFINE b == Base(t)
<1>0. /\ callers \in [Thread -> Seq(Place)]
      /\ at' = [at EXCEPT ![t] = Head(callers[t])] /\ rc' = [rc EXCEPT ![t] = v]
  BY DEF Control, Return
<1>1. ASSUME NEW a \in Place, NEW q \in Seq(Place), StackAt(a, q), Head(callers[t]) = a,
             Tail(callers[t]) = q, BaseOf(a, q) = b
      PROVE  Control' /\ Others(t) /\ at'[t] = a /\ Base(t)' = b /\ rc'[t] = v
  <2>1. at' = [at EXCEPT ![t] = a] /\ callers' = [callers EXCEPT ![t] = q]
    BY <1>1, <1>0 DEF Return
  <2> HIDE DEF b
  <2> QED
    BY <1>0, <1>1, <2>1, Moves
<1>2. /\ at[t] \in Place
      /\ \/ at[t] \in Gets /\ b \in GetBack /\ callers[t] = << b >>
         \/ at[t] \in Auths /\ b \in AuthBack /\ callers[t] = << b >>
         \/ at[t] \in Wakes /\ b \in SleepBack /\ callers[t] = << b >>
         \/ at[t] \in Resets /\ b \in ResetBack /\ callers[t] = << b >>
         \/ at[t] \in Wakes /\ b \in GetBack /\ callers[t] = << "powerPsys", b >>
         \/ at[t] \in Sends /\ b \in AuthBack /\ \E c \in {"booted", "ran"} : callers[t] = << c, b >>
         \/ at[t] \in Resets /\ b \in SleepBack /\ callers[t] = << "woken", b >>
         \/ at[t] \in Resets /\ b \in GetBack /\ callers[t] = << "woken", "powerPsys", b >>
  BY Where DEF Place
<1> DEFINE G == /\ at[t] \in Gets \cup Auths => at'[t] = b
                /\ at[t] \in Sends => at'[t] \in {"booted", "ran"}
                /\ at[t] \in Wakes => \/ b \in SleepBack /\ at'[t] = b
                                      \/ b \in GetBack /\ at'[t] = "powerPsys"
                /\ at[t] \in Resets => \/ b \in ResetBack /\ at'[t] = b
                                       \/ b \in SleepBack \cup GetBack /\ at'[t] = "woken"
<1> DEFINE R == Control' /\ Others(t) /\ at'[t] = Head(callers[t]) /\ Base(t)' = b /\ rc'[t] = v
<1>3. ASSUME callers[t] = << b >>, b \in GetBack \cup AuthBack \cup SleepBack \cup ResetBack
      PROVE  R /\ at'[t] = b
  <2>1. Head(callers[t]) = b /\ Tail(callers[t]) = << >>
    BY <1>3, Singles
  <2>2. b \in Top /\ b \in Place /\ << >> \in Seq(Place)
    BY <1>3 DEF GetBack, AuthBack, SleepBack, ResetBack, Top, PciTop, DbgTop, Place
  <2>3. StackAt(b, << >>) /\ BaseOf(b, << >>) = b
    BY <2>2 DEF StackAt, BaseOf
  <2> HIDE DEF b
  <2> QED
    BY <1>1, <2>1, <2>2, <2>3 DEF b
<1>4. ASSUME NEW c \in {"booted", "ran", "woken", "powerPsys"}, callers[t] = << c, b >>,
             \/ c \in Wakes /\ b \in SleepBack
             \/ c \in Auths /\ b \in AuthBack
             \/ c \in Gets /\ b \in GetBack
      PROVE  R /\ at'[t] = c
  <2>1. Head(callers[t]) = c /\ Tail(callers[t]) = << b >> /\ << b >> \in Seq(Place)
    BY <1>4, Doubles, Singles
  <2>2. c \in Place /\ b \in Place
    BY <1>4 DEF Place, GetBack, AuthBack, SleepBack, Top, PciTop, DbgTop
  <2>3. StackAt(c, << b >>)
    BY <1>4 DEF StackAt, WakeBack
  <2>4. BaseOf(c, << b >>) = b
    BY <2>2, Short, Pops DEF BaseOf
  <2> HIDE DEF b
  <2> QED
    BY <1>1, <2>1, <2>2, <2>3, <2>4 DEF b
<1>5. ASSUME callers[t] = << "woken", "powerPsys", b >>, b \in GetBack
      PROVE  R /\ at'[t] = "woken"
  <2>1. /\ Head(callers[t]) = "woken" /\ Tail(callers[t]) = << "powerPsys", b >>
        /\ << "powerPsys", b >> \in Seq(Place)
    BY <1>5, Triples, Doubles
  <2>2. "woken" \in Place /\ "powerPsys" \in Place /\ b \in Place
    BY <1>5 DEF Place, GetBack, Top, PciTop, DbgTop, Wakes, Gets
  <2>3. StackAt("woken", << "powerPsys", b >>)
    BY <1>5 DEF StackAt, WakeBack, Wakes
  <2>4. BaseOf("woken", << "powerPsys", b >>) = b
    <3>1. << "powerPsys", b >> # << >> /\ Len(<< "powerPsys", b >>) = 2 /\ << "powerPsys", b >>[2] = b
      BY <2>2, Short, Pops
    <3> QED
      BY <3>1 DEF BaseOf
  <2> HIDE DEF b
  <2> QED
    BY <1>1, <2>1, <2>2, <2>3, <2>4 DEF b
<1> HIDE DEF b, R
<1>6. CASE at[t] \in Gets \cup Auths /\ b \in GetBack \cup AuthBack /\ callers[t] = << b >>
  <2>1. R /\ at'[t] = b
    BY <1>3, <1>6
  <2> QED
    BY <2>1, <1>6 DEF b, R, Gets, Auths, Sends, Wakes, Resets
<1>7. CASE at[t] \in Wakes /\ b \in SleepBack /\ callers[t] = << b >>
  <2>1. R /\ at'[t] = b
    BY <1>3, <1>7
  <2> QED
    BY <2>1, <1>7 DEF b, R, Gets, Auths, Sends, Wakes, Resets
<1>8. CASE at[t] \in Resets /\ b \in ResetBack /\ callers[t] = << b >>
  <2>1. R /\ at'[t] = b
    BY <1>3, <1>8
  <2> QED
    BY <2>1, <1>8 DEF b, R, Gets, Auths, Sends, Wakes, Resets
<1>9. CASE at[t] \in Wakes /\ b \in GetBack /\ callers[t] = << "powerPsys", b >>
  <2>1. R /\ at'[t] = "powerPsys"
    BY <1>4, <1>9 DEF Gets
  <2> QED
    BY <2>1, <1>9 DEF b, R, Gets, Auths, Sends, Wakes, Resets
<1>10. CASE at[t] \in Sends /\ b \in AuthBack /\ \E c \in {"booted", "ran"} : callers[t] = << c, b >>
  <2>1. PICK c \in {"booted", "ran"} : callers[t] = << c, b >>
    BY <1>10
  <2>2. R /\ at'[t] = c
    BY <1>4, <1>10, <2>1 DEF Auths
  <2> QED
    BY <2>2, <1>10 DEF b, R, Gets, Auths, Sends, Wakes, Resets
<1>11. CASE at[t] \in Resets /\ b \in SleepBack /\ callers[t] = << "woken", b >>
  <2>1. R /\ at'[t] = "woken"
    BY <1>4, <1>11 DEF Wakes
  <2> QED
    BY <2>1, <1>11 DEF b, R, Gets, Auths, Sends, Wakes, Resets
<1>12. CASE at[t] \in Resets /\ b \in GetBack /\ callers[t] = << "woken", "powerPsys", b >>
  <2>1. R /\ at'[t] = "woken"
    BY <1>5, <1>12
  <2> QED
    BY <2>1, <1>12 DEF b, R, Gets, Auths, Sends, Wakes, Resets
<1> QED
  BY <1>2, <1>6, <1>7, <1>8, <1>9, <1>10, <1>11, <1>12 DEF b

\* A thread goes on inside the call it is in.
LEMMA GoesOn ==
  ASSUME Control, NEW t \in Thread, NEW a, NEW v \in {"ok", "error"},
         at' = [at EXCEPT ![t] = a], callers' = callers, rc' = [rc EXCEPT ![t] = v],
         \/ at[t] \in Top /\ a \in Top
         \/ at[t] \in Wakes /\ a \in Wakes
         \/ at[t] \in Resets /\ a \in Resets
         \/ at[t] \in Auths /\ a \in Auths
         \/ at[t] \in Sends /\ a \in Sends
  PROVE  /\ Control' /\ Others(t) /\ at'[t] = a /\ rc'[t] = v /\ callers'[t] = callers[t]
         /\ Base(t)' = IF at[t] \in Top THEN a ELSE Base(t)
<1>1. /\ callers \in [Thread -> Seq(Place)] /\ callers[t] \in Seq(Place)
      /\ StackAt(at[t], callers[t])
  BY DEF Control
<1>2. callers' = [callers EXCEPT ![t] = callers[t]]
  BY <1>1
<1>3. a \in Place /\ (a \in Top <=> at[t] \in Top)
  BY DEF Place, Top, PciTop, DbgTop, Gets, Wakes, Resets, Auths, Sends
<1>4. StackAt(a, callers[t])
  BY <1>1 DEF StackAt, Top, PciTop, DbgTop, Gets, Wakes, Resets, Auths, Sends
<1>5. BaseOf(a, callers[t]) = IF at[t] \in Top THEN a ELSE Base(t)
  BY <1>3, Where DEF BaseOf, Base
<1> QED
  BY <1>1, <1>2, <1>3, <1>4, <1>5, Moves

LEMMA Goes ==
  ASSUME Control, NEW t \in Thread, NEW a, Goto(t, a),
         \/ at[t] \in Top /\ a \in Top
         \/ at[t] \in Wakes /\ a \in Wakes
         \/ at[t] \in Resets /\ a \in Resets
         \/ at[t] \in Auths /\ a \in Auths
         \/ at[t] \in Sends /\ a \in Sends
  PROVE  /\ Control' /\ Others(t) /\ at'[t] = a /\ rc'[t] = rc[t] /\ callers'[t] = callers[t]
         /\ Base(t)' = IF at[t] \in Top THEN a ELSE Base(t)
<1>1. rc' = [rc EXCEPT ![t] = rc[t]] /\ rc[t] \in {"ok", "error"}
  BY DEF Goto, Control
<1> QED
  BY <1>1, GoesOn DEF Goto

LEMMA Decides ==
  ASSUME Control, NEW t \in Thread, NEW a, NEW v \in {"ok", "error"}, Decide(t, a, v),
         \/ at[t] \in Top /\ a \in Top
         \/ at[t] \in Auths /\ a \in Auths
         \/ at[t] \in Sends /\ a \in Sends
  PROVE  /\ Control' /\ Others(t) /\ at'[t] = a /\ rc'[t] = v /\ callers'[t] = callers[t]
         /\ Base(t)' = IF at[t] \in Top THEN a ELSE Base(t)
BY GoesOn DEF Decide

-----------------------------------------------------------------------------
(* The control part of the actions *)

\* The thread moves within its calls and comes to a, with the value v.
Within(t) == Control' /\ Others(t) /\ Base(t)' = Base(t)
Comes(t, a, v) == Within(t) /\ at'[t] = a /\ rc'[t] = v
Goes1(t, a) == Comes(t, a, rc[t]) /\ callers'[t] = callers[t]
Decides1(t, a, v) == Comes(t, a, v) /\ callers'[t] = callers[t]

\* A return from an IPC reset.
FromReset(t) ==
  /\ Within(t)
  /\ \/ Base(t) \in ResetBack /\ at'[t] = Base(t) /\ Head(callers[t]) = Base(t)
     \/ Base(t) \in SleepBack \cup GetBack /\ at'[t] = "woken" /\ Head(callers[t]) = "woken"

LEMMA ResetSteps ==
  ASSUME Control, NEW t \in Thread, BeginReset(t) \/ PollReset(t)
  PROVE  /\ at[t] \in Resets
         /\ Goes1(t, "resetPoll") \/ FromReset(t)
         /\ UNCHANGED << authMutex, cmd, secure, door, jobs, setup, magic, verdict, gaveUp, rpm >>
<1>0. at[t] \in Resets /\ at[t] \notin Top
  BY DEF BeginReset, PollReset, Resets, Top, PciTop, DbgTop
<1>1. ASSUME Goto(t, "resetPoll") PROVE Goes1(t, "resetPoll")
  <2>1. /\ Control' /\ Others(t) /\ at'[t] = "resetPoll" /\ rc'[t] = rc[t]
        /\ callers'[t] = callers[t] /\ Base(t)' = Base(t)
    BY <1>0, <1>1, Goes DEF Resets
  <2> QED
    BY <1>0, <2>1 DEF Goes1, Comes, Within
<1>2. ASSUME NEW v \in {"ok", "error"}, Return(t, v)
      PROVE  FromReset(t)
  <2>1. /\ Control' /\ Others(t) /\ at'[t] = Head(callers[t]) /\ Base(t)' = Base(t)
        /\ \/ Base(t) \in ResetBack /\ at'[t] = Base(t)
           \/ Base(t) \in SleepBack \cup GetBack /\ at'[t] = "woken"
    BY <1>0, <1>2, ReturnsTo
  <2> QED
    BY <2>1 DEF FromReset, Within
<1>3. Goto(t, "resetPoll") \/ \E v \in {"ok", "error"} : Return(t, v)
  BY DEF BeginReset, PollReset
<1>4. UNCHANGED << authMutex, cmd, secure, door, jobs, setup, magic, verdict, gaveUp, rpm >>
  BY DEF BeginReset, PollReset, mailbox, waits, security
<1> QED
  BY <1>0, <1>1, <1>2, <1>3, <1>4

LEMMA SendSteps ==
  ASSUME Control, NEW t \in Thread
  PROVE  /\ OpenMailbox(t) => /\ at[t] = "send"
                              /\ Goes1(t, "ring") \/ Decides1(t, "closeMailbox", "error")
         /\ Ring(t) => at[t] = "ring" /\ Goes1(t, "sent")
         /\ AwaitTaken(t) => at[t] = "sent" /\ Goes1(t, "received")
         /\ NotTaken(t) => /\ at[t] = "sent"
                           /\ Goes1(t, "ring") \/ Decides1(t, "closeMailbox", "error")
         /\ AwaitAnswer(t) => /\ at[t] = "received"
                              /\ \E v \in {"ok", "error"} : Decides1(t, "closeMailbox", v)
         /\ CloseMailbox(t) => /\ at[t] = "closeMailbox" /\ Comes(t, Head(callers[t]), rc[t])
                               /\ at'[t] \in {"booted", "ran"}
<1>1. ASSUME NEW a \in Sends, at[t] \in Sends, Goto(t, a) PROVE Goes1(t, a)
  <2>1. at[t] \notin Top
    BY <1>1 DEF Sends, Top, PciTop, DbgTop
  <2> QED
    BY <1>1, <2>1, Goes DEF Goes1, Comes, Within
<1>2. ASSUME NEW a \in Sends, at[t] \in Sends, NEW v \in {"ok", "error"}, Decide(t, a, v)
      PROVE  Decides1(t, a, v)
  <2>1. at[t] \notin Top
    BY <1>2 DEF Sends, Top, PciTop, DbgTop
  <2> QED
    BY <1>2, <2>1, Decides DEF Decides1, Comes, Within
<1>3. OpenMailbox(t) => at[t] = "send" /\ (Goes1(t, "ring") \/ Decides1(t, "closeMailbox", "error"))
  BY <1>1, <1>2 DEF OpenMailbox, Sends
<1>4. Ring(t) => at[t] = "ring" /\ Goes1(t, "sent")
  BY <1>1 DEF Ring, Sends
<1>5. AwaitTaken(t) => at[t] = "sent" /\ Goes1(t, "received")
  BY <1>1 DEF AwaitTaken, Sends
<1>6. NotTaken(t) => at[t] = "sent" /\ (Goes1(t, "ring") \/ Decides1(t, "closeMailbox", "error"))
  BY <1>1, <1>2 DEF NotTaken, Sends
<1>7. AwaitAnswer(t) => /\ at[t] = "received"
                        /\ \E v \in {"ok", "error"} : Decides1(t, "closeMailbox", v)
  <2>1. AwaitAnswer(t) => at[t] = "received" /\ \E v \in {"ok", "error"} : Decide(t, "closeMailbox", v)
    BY DEF AwaitAnswer
  <2> QED
    BY <2>1, <1>2 DEF Sends
<1>8. CloseMailbox(t) => /\ at[t] = "closeMailbox" /\ Comes(t, Head(callers[t]), rc[t])
                         /\ at'[t] \in {"booted", "ran"}
  <2> SUFFICES ASSUME CloseMailbox(t)
               PROVE /\ at[t] = "closeMailbox" /\ Comes(t, Head(callers[t]), rc[t])
                     /\ at'[t] \in {"booted", "ran"}
    OBVIOUS
  <2>1. at[t] = "closeMailbox" /\ at[t] \in Sends /\ at[t] \notin Top /\ Return(t, rc[t])
    BY DEF CloseMailbox, Sends, Top, PciTop, DbgTop
  <2>2. rc[t] \in {"ok", "error"}
    BY DEF Control
  <2> QED
    BY <2>1, <2>2, ReturnsTo DEF Comes, Within
<1> QED
  BY <1>3, <1>4, <1>5, <1>6, <1>7, <1>8

LEMMA AuthSteps ==
  ASSUME Control, NEW t \in Thread
  PROVE  /\ Authenticate(t) =>
              /\ at[t] = "authenticate" /\ Within(t)
              /\ IF ~ secure THEN at'[t] = Base(t)
                 ELSE IF AuthDone THEN Decides1(t, "endAuth", "ok")
                 ELSE at'[t] = "send" /\ Head(callers'[t]) = "booted"
         /\ Sent(t) => /\ at[t] \in {"booted", "ran"}
                       /\ Goes1(t, IF rc[t] = "ok" THEN "poll" ELSE "endAuth")
         /\ PollSetup(t) => /\ at[t] = "poll"
                            /\ IF setup \in Concluded(cmd[t]) THEN Goes1(t, "reread")
                               ELSE Decides1(t, "endAuth", "error")
         /\ Reread(t) => /\ at[t] = "reread"
                         /\ \/ setup = "failed" /\ Decides1(t, "endAuth", "error")
                            \/ setup # "failed" /\ cmd[t] = "boot" /\ Goes1(t, "magic")
                            \/ setup # "failed" /\ cmd[t] # "boot" /\ Decides1(t, "endAuth", "ok")
         /\ PollMagic(t) => /\ at[t] = "magic" /\ Within(t)
                            /\ IF magic THEN at'[t] = "send" /\ Head(callers'[t]) = "ran"
                               ELSE Decides1(t, "endAuth", "error")
         /\ EndAuth(t) => at[t] = "endAuth" /\ Comes(t, Base(t), rc[t])
<1>0. \A a \in Auths : a \notin Top
  BY DEF Auths, Top, PciTop, DbgTop
<1>1. ASSUME NEW a \in Auths, at[t] \in Auths, Goto(t, a) PROVE Goes1(t, a)
  BY <1>0, <1>1, Goes DEF Goes1, Comes, Within
<1>2. ASSUME NEW a \in Auths, at[t] \in Auths, NEW v \in {"ok", "error"}, Decide(t, a, v)
      PROVE  Decides1(t, a, v)
  BY <1>0, <1>2, Decides DEF Decides1, Comes, Within
<1>3. ASSUME at[t] \in Auths, NEW v \in {"ok", "error"}, Return(t, v)
      PROVE  Comes(t, Base(t), v)
  BY <1>0, <1>3, ReturnsTo DEF Comes, Within
<1>4. ASSUME at[t] \in Auths, NEW c \in {"booted", "ran"}, Call(t, "send", c)
      PROVE  Within(t) /\ at'[t] = "send" /\ Head(callers'[t]) = c
  BY <1>4, CallsWithin DEF Within
<1>5. /\ \A s \in {"authenticate", "booted", "ran", "poll", "reread", "magic", "endAuth"} : s \in Auths
      /\ rc[t] \in {"ok", "error"}
  BY DEF Auths, Control
<1>6. Authenticate(t) =>
        /\ at[t] = "authenticate" /\ Within(t)
        /\ IF ~ secure THEN at'[t] = Base(t)
           ELSE IF AuthDone THEN Decides1(t, "endAuth", "ok")
           ELSE at'[t] = "send" /\ Head(callers'[t]) = "booted"
  <2> SUFFICES ASSUME Authenticate(t)
               PROVE  /\ at[t] = "authenticate" /\ Within(t)
                      /\ IF ~ secure THEN at'[t] = Base(t)
                         ELSE IF AuthDone THEN Decides1(t, "endAuth", "ok")
                         ELSE at'[t] = "send" /\ Head(callers'[t]) = "booted"
    OBVIOUS
  <2>1. at[t] = "authenticate"
    BY DEF Authenticate
  <2>2. CASE ~ secure
    BY <2>1, <2>2, <1>3, <1>5 DEF Authenticate, Comes
  <2>3. CASE secure /\ AuthDone
    BY <2>1, <2>3, <1>2, <1>5 DEF Authenticate, Decides1, Comes
  <2>4. CASE secure /\ ~ AuthDone
    BY <2>1, <2>4, <1>4, <1>5 DEF Authenticate
  <2> QED
    BY <2>1, <2>2, <2>3, <2>4
<1>7. Sent(t) => /\ at[t] \in {"booted", "ran"}
                 /\ Goes1(t, IF rc[t] = "ok" THEN "poll" ELSE "endAuth")
  BY <1>1, <1>5 DEF Sent
<1>8. PollSetup(t) => /\ at[t] = "poll"
                      /\ IF setup \in Concluded(cmd[t]) THEN Goes1(t, "reread")
                         ELSE Decides1(t, "endAuth", "error")
  BY <1>1, <1>2, <1>5 DEF PollSetup
<1>9. Reread(t) => /\ at[t] = "reread"
                   /\ \/ setup = "failed" /\ Decides1(t, "endAuth", "error")
                      \/ setup # "failed" /\ cmd[t] = "boot" /\ Goes1(t, "magic")
                      \/ setup # "failed" /\ cmd[t] # "boot" /\ Decides1(t, "endAuth", "ok")
  BY <1>1, <1>2, <1>5 DEF Reread
<1>10. PollMagic(t) => /\ at[t] = "magic" /\ Within(t)
                       /\ IF magic THEN at'[t] = "send" /\ Head(callers'[t]) = "ran"
                          ELSE Decides1(t, "endAuth", "error")
  BY <1>2, <1>4, <1>5 DEF PollMagic, Decides1, Comes
<1>11. EndAuth(t) => at[t] = "endAuth" /\ Comes(t, Base(t), rc[t])
  BY <1>3, <1>5 DEF EndAuth
<1> QED
  BY <1>6, <1>7, <1>8, <1>9, <1>10, <1>11

\* A return from waking the device.
FromWake(t) ==
  /\ Within(t)
  /\ \/ Base(t) \in SleepBack /\ at'[t] = Base(t)
     \/ Base(t) \in GetBack /\ at'[t] = "powerPsys"

LEMMA PowerSteps ==
  ASSUME Control, NEW t \in Thread
  PROVE  /\ GetPsys(t) => at[t] = "getPsys" /\ Within(t) /\ at'[t] = "wake"
         /\ Wake(t) => /\ at[t] = "wake"
                       /\ IF rpm = "active" THEN FromWake(t)
                          ELSE /\ Within(t)
                               /\ \/ at'[t] = "woken"
                                  \/ at'[t] = "reset" /\ Head(callers'[t]) = "woken"
         /\ Woken(t) => at[t] = "woken" /\ FromWake(t)
         /\ PowerPsys(t) => at[t] = "powerPsys" /\ Within(t) /\ at'[t] = Base(t)
<1>0. \A a \in Wakes \cup Gets : a \notin Top
  BY DEF Wakes, Gets, Top, PciTop, DbgTop
<1>1. GetPsys(t) => at[t] = "getPsys" /\ Within(t) /\ at'[t] = "wake"
  BY CallsWithin DEF GetPsys, Within
<1>2. ASSUME at[t] \in Wakes, Return(t, "ok") PROVE FromWake(t)
  BY <1>0, <1>2, ReturnsTo DEF FromWake, Within
<1>3. Wake(t) => /\ at[t] = "wake"
                 /\ IF rpm = "active" THEN FromWake(t)
                    ELSE /\ Within(t)
                         /\ \/ at'[t] = "woken"
                            \/ at'[t] = "reset" /\ Head(callers'[t]) = "woken"
  <2> SUFFICES ASSUME Wake(t)
               PROVE  /\ at[t] = "wake"
                      /\ IF rpm = "active" THEN FromWake(t)
                         ELSE /\ Within(t)
                              /\ \/ at'[t] = "woken"
                                 \/ at'[t] = "reset" /\ Head(callers'[t]) = "woken"
    OBVIOUS
  <2>1. at[t] = "wake" /\ "wake" \in Wakes /\ "woken" \in Wakes
    BY DEF Wake, Wakes
  <2>2. CASE rpm = "active"
    BY <2>1, <2>2, <1>2 DEF Wake
  <2>3. CASE rpm # "active" /\ ipcReinit
    BY <2>1, <2>3, CallsWithin DEF Wake, Within
  <2>4. CASE rpm # "active" /\ ~ ipcReinit
    BY <2>1, <2>4, <1>0, Goes DEF Wake, Within
  <2> QED
    BY <2>1, <2>2, <2>3, <2>4
<1>4. Woken(t) => at[t] = "woken" /\ FromWake(t)
  BY <1>2 DEF Woken, Wakes
<1>5. PowerPsys(t) => at[t] = "powerPsys" /\ Within(t) /\ at'[t] = Base(t)
  <2> SUFFICES ASSUME PowerPsys(t) PROVE at[t] = "powerPsys" /\ Within(t) /\ at'[t] = Base(t)
    OBVIOUS
  <2>1. at[t] = "powerPsys" /\ at[t] \in Gets /\ at[t] \notin Top
    BY <1>0 DEF PowerPsys, Gets
  <2>2. Return(t, "ok") \/ Return(t, "error")
    BY DEF PowerPsys
  <2> QED
    BY <2>1, <2>2, ReturnsTo DEF Within
<1> QED
  BY <1>1, <1>3, <1>4, <1>5

\* A thread outside of all calls makes one, or goes on.
Enters(t, e, b) == /\ Control' /\ Others(t) /\ at'[t] = e /\ Base(t)' = b
                   /\ callers'[t] = << b >> /\ rc'[t] = rc[t]
Turns(t, a) == Control' /\ Others(t) /\ at'[t] = a /\ Base(t)' = a
Stands == Control' /\ \A u \in Thread : /\ at'[u] = at[u] /\ callers'[u] = callers[u]
                                        /\ rc'[u] = rc[u] /\ Base(u)' = Base(u)

LEMMA Turning ==
  ASSUME Control, NEW t \in Thread, at[t] \in Top, NEW a \in Top, Goto(t, a) \/ Decide(t, a, "ok")
  PROVE  Turns(t, a)
BY Goes, Decides DEF Turns

LEMMA Standing ==
  ASSUME Control, UNCHANGED control
  PROVE  Stands
BY DEF Stands, Control, control, Base

LEMMA Backs ==
  /\ \A b \in {"probed", "resumeGet"} : b \in ResetBack
  /\ \A b \in {"probed", "resumeGot", "dbgGot"} : b \in GetBack
  /\ \A b \in {"sleep", "flr"} : b \in SleepBack
  /\ \A b \in {"probed", "resumed", "dbgDone"} : b \in AuthBack
  /\ "reset" \in Resets /\ "getPsys" \in Gets /\ "wake" \in Wakes /\ "authenticate" \in Auths
  /\ \A a \in {"idle", "probe", "probed", "remove", "sleep", "resume", "resumeGet", "resumeGot",
               "resumed", "flr", "flrDone", "dbgGot", "dbgDone"} : a \in Top
BY DEF ResetBack, GetBack, SleepBack, AuthBack, Resets, Gets, Wakes, Auths, Top, PciTop, DbgTop

LEMMA IdleBase ==
  ASSUME Control, NEW t \in Thread
  PROVE  Base(t) = "idle" <=> at[t] = "idle"
<1>1. at[t] \in Top \cup Gets \cup Wakes \cup Resets \cup Auths \cup Sends
  BY Where DEF Place
<1>2. at[t] = "idle" => at[t] \in Top
  BY Backs
<1> QED
  BY <1>1, <1>2, Where DEF GetBack, SleepBack, ResetBack, AuthBack, Gets, Wakes, Resets, Auths, Sends

LEMMA DbgSteps ==
  ASSUME Control, NEW t \in Thread
  PROVE  /\ FwAuthenticate(t) => at[t] = "idle" /\ Enters(t, "getPsys", "dbgGot")
         /\ DbgGot(t) => /\ at[t] = "dbgGot"
                         /\ IF rc[t] = "ok" THEN Enters(t, "authenticate", "dbgDone")
                            ELSE Turns(t, "idle")
         /\ DbgDone(t) => at[t] = "dbgDone" /\ Turns(t, "idle")
<1>1. FwAuthenticate(t) => at[t] = "idle" /\ Enters(t, "getPsys", "dbgGot")
  BY Backs, CallsFromTop DEF FwAuthenticate, Enters
<1>2. DbgGot(t) => /\ at[t] = "dbgGot"
                   /\ IF rc[t] = "ok" THEN Enters(t, "authenticate", "dbgDone")
                      ELSE Turns(t, "idle")
  <2>1. DbgGot(t) /\ rc[t] = "ok" => Enters(t, "authenticate", "dbgDone")
    BY Backs, CallsFromTop DEF DbgGot, Enters
  <2>2. DbgGot(t) /\ rc[t] # "ok" => Turns(t, "idle")
    BY Backs, Turning DEF DbgGot, Leave
  <2> QED
    BY <2>1, <2>2 DEF DbgGot
<1>3. DbgDone(t) => at[t] = "dbgDone" /\ Turns(t, "idle")
  BY Backs, Turning DEF DbgDone, Leave
<1> QED
  BY <1>1, <1>2, <1>3

LEMMA PciSteps ==
  ASSUME Control, Phases
  PROVE  /\ Probe => at[Pci] = "idle" /\ Turns(Pci, "probe")
         /\ ProbeStep =>
              /\ at[Pci] = "probe"
              /\ \/ \E s \in {"ipcReset", "psysGet", "auth"} :
                      /\ s = ProbeSteps[step] /\ ProbeCall(s)
                      /\ Enters(Pci, IF s = "ipcReset" THEN "reset"
                                     ELSE IF s = "psysGet" THEN "getPsys" ELSE "authenticate",
                                "probed")
                 \/ /\ ProbeSteps[step] \notin {"ipcReset", "psysGet", "auth"}
                    /\ ~ MustFail(ProbeSteps[step]) /\ Acquire(ProbeSteps[step])
                    /\ IF step = Len(ProbeSteps) THEN Turns(Pci, "idle") ELSE Stands
                 \/ /\ MayFail(ProbeSteps[step]) \/ MustFail(ProbeSteps[step])
                    /\ FailProbe(ProbeSteps[step]) /\ Turns(Pci, "idle")
         /\ Probed => /\ at[Pci] = "probed"
                      /\ \/ phase' = phase /\ Turns(Pci, "probe")
                         \/ phase' = "unbound" /\ Turns(Pci, "idle")
         /\ Remove => at[Pci] = "idle" /\ Turns(Pci, "remove")
         /\ RemoveStep => /\ at[Pci] = "remove"
                          /\ IF step < Len(RemoveSteps) THEN Stands ELSE Turns(Pci, "idle")
         /\ Sleep => at[Pci] = "idle" /\ Enters(Pci, "wake", "sleep")
         /\ ResetPrepare => at[Pci] = "idle" /\ Enters(Pci, "wake", "flr")
         /\ ResumeReset => at[Pci] = "sleep" /\ Turns(Pci, "resume")
         /\ Resume => at[Pci] = "resume" /\ Enters(Pci, "reset", "resumeGet")
         /\ ResumeGet => at[Pci] = "resumeGet" /\ Enters(Pci, "getPsys", "resumeGot")
         /\ ResumeGot => /\ at[Pci] = "resumeGot"
                         /\ Enters(Pci, "authenticate", "resumed") \/ Turns(Pci, "idle")
         /\ Resumed => at[Pci] = "resumed" /\ Turns(Pci, "idle")
         /\ Reset => at[Pci] = "flr" /\ Turns(Pci, "flrDone")
         /\ ResetDone => at[Pci] = "flrDone" /\ Turns(Pci, "idle")
<1>0. Pci \in Thread
  BY CoreAssumption
<1>1. Probe => at[Pci] = "idle" /\ Turns(Pci, "probe")
  <2> SUFFICES ASSUME Probe PROVE at[Pci] = "idle" /\ Turns(Pci, "probe")
    OBVIOUS
  <2>1. phase = "unbound" /\ Goto(Pci, "probe")
    BY DEF Probe
  <2>2. Base(Pci) = "idle"
    BY <2>1 DEF Phases, PhasesOf, PciTop
  <2>3. at[Pci] = "idle"
    BY <1>0, <2>2, IdleBase
  <2> QED
    BY <1>0, <2>1, <2>3, Backs, Turning
<1>2. ProbeStep =>
        /\ at[Pci] = "probe"
        /\ \/ \E s \in {"ipcReset", "psysGet", "auth"} :
                /\ s = ProbeSteps[step] /\ ProbeCall(s)
                /\ Enters(Pci, IF s = "ipcReset" THEN "reset"
                               ELSE IF s = "psysGet" THEN "getPsys" ELSE "authenticate", "probed")
           \/ /\ ProbeSteps[step] \notin {"ipcReset", "psysGet", "auth"}
              /\ ~ MustFail(ProbeSteps[step]) /\ Acquire(ProbeSteps[step])
              /\ IF step = Len(ProbeSteps) THEN Turns(Pci, "idle") ELSE Stands
           \/ /\ MayFail(ProbeSteps[step]) \/ MustFail(ProbeSteps[step])
              /\ FailProbe(ProbeSteps[step]) /\ Turns(Pci, "idle")
  <2> SUFFICES ASSUME ProbeStep
               PROVE /\ at[Pci] = "probe"
                     /\ \/ \E s \in {"ipcReset", "psysGet", "auth"} :
                             /\ s = ProbeSteps[step] /\ ProbeCall(s)
                             /\ Enters(Pci, IF s = "ipcReset" THEN "reset"
                                            ELSE IF s = "psysGet" THEN "getPsys"
                                            ELSE "authenticate", "probed")
                        \/ /\ ProbeSteps[step] \notin {"ipcReset", "psysGet", "auth"}
                           /\ ~ MustFail(ProbeSteps[step]) /\ Acquire(ProbeSteps[step])
                           /\ IF step = Len(ProbeSteps) THEN Turns(Pci, "idle") ELSE Stands
                        \/ /\ MayFail(ProbeSteps[step]) \/ MustFail(ProbeSteps[step])
                           /\ FailProbe(ProbeSteps[step]) /\ Turns(Pci, "idle")
    OBVIOUS
  <2> DEFINE s0 == ProbeSteps[step]
  <2>1. at[Pci] = "probe" /\ at[Pci] \in Top
    BY Backs DEF ProbeStep
  <2>2. \/ s0 \in {"ipcReset", "psysGet", "auth"} /\ ProbeCall(s0)
        \/ s0 \notin {"ipcReset", "psysGet", "auth"} /\ ~ MustFail(s0) /\ Acquire(s0)
        \/ (MayFail(s0) \/ MustFail(s0)) /\ FailProbe(s0)
    BY DEF ProbeStep
  <2> HIDE DEF s0
  <2>3. CASE s0 \in {"ipcReset", "psysGet", "auth"} /\ ProbeCall(s0)
    <3> DEFINE e == IF s0 = "ipcReset" THEN "reset"
                    ELSE IF s0 = "psysGet" THEN "getPsys" ELSE "authenticate"
    <3>1. Call(Pci, e, "probed")
      BY <2>3 DEF ProbeCall
    <3>2. Enters(Pci, e, "probed")
      BY <1>0, <2>1, <3>1, Backs, CallsFromTop DEF Enters
    <3> QED
      BY <2>1, <2>3, <3>2 DEF s0
  <2>4. CASE s0 \notin {"ipcReset", "psysGet", "auth"} /\ ~ MustFail(s0) /\ Acquire(s0)
    <3>1. IF step = Len(ProbeSteps) THEN Turns(Pci, "idle") ELSE Stands
      BY <1>0, <2>1, <2>4, Backs, Turning, Standing DEF Acquire, Leave
    <3> QED
      BY <2>1, <2>4, <3>1 DEF s0
  <2>5. CASE (MayFail(s0) \/ MustFail(s0)) /\ FailProbe(s0)
    <3>1. Turns(Pci, "idle")
      BY <1>0, <2>1, <2>5, Backs, Turning DEF FailProbe, Leave
    <3> QED
      BY <2>1, <2>5, <3>1 DEF s0
  <2> QED
    BY <2>2, <2>3, <2>4, <2>5
<1>3. Probed => /\ at[Pci] = "probed"
                /\ \/ phase' = phase /\ Turns(Pci, "probe")
                   \/ phase' = "unbound" /\ Turns(Pci, "idle")
  BY <1>0, Backs, Turning DEF Probed, Leave
<1>4. Remove => at[Pci] = "idle" /\ Turns(Pci, "remove")
  BY <1>0, Backs, Turning DEF Remove
<1>5. RemoveStep => /\ at[Pci] = "remove"
                    /\ IF step < Len(RemoveSteps) THEN Stands ELSE Turns(Pci, "idle")
  <2>1. RemoveStep => /\ at[Pci] = "remove"
                      /\ IF step < Len(RemoveSteps) THEN UNCHANGED control ELSE Leave(Pci)
    BY DEF RemoveStep
  <2> QED
    BY <1>0, <2>1, Backs, Turning, Standing DEF Leave
<1>6. Sleep => at[Pci] = "idle" /\ Enters(Pci, "wake", "sleep")
  BY <1>0, Backs, CallsFromTop DEF Sleep, Enters
<1>7. ResetPrepare => at[Pci] = "idle" /\ Enters(Pci, "wake", "flr")
  BY <1>0, Backs, CallsFromTop DEF ResetPrepare, Enters
<1>8. ResumeReset => at[Pci] = "sleep" /\ Turns(Pci, "resume")
  BY <1>0, Backs, Turning DEF ResumeReset
<1>9. Resume => at[Pci] = "resume" /\ Enters(Pci, "reset", "resumeGet")
  BY <1>0, Backs, CallsFromTop DEF Resume, Enters
<1>10. ResumeGet => at[Pci] = "resumeGet" /\ Enters(Pci, "getPsys", "resumeGot")
  BY <1>0, Backs, CallsFromTop DEF ResumeGet, Enters
<1>11. ResumeGot => /\ at[Pci] = "resumeGot"
                    /\ Enters(Pci, "authenticate", "resumed") \/ Turns(Pci, "idle")
  <2>1. ResumeGot => at[Pci] = "resumeGot" /\ (Call(Pci, "authenticate", "resumed") \/ Leave(Pci))
    BY DEF ResumeGot
  <2>2. at[Pci] = "resumeGot" /\ Call(Pci, "authenticate", "resumed")
        => Enters(Pci, "authenticate", "resumed")
    BY <1>0, Backs, CallsFromTop DEF Enters
  <2>3. at[Pci] = "resumeGot" /\ Leave(Pci) => Turns(Pci, "idle")
    BY <1>0, Backs, Turning DEF Leave
  <2> QED
    BY <2>1, <2>2, <2>3
<1>12. Resumed => at[Pci] = "resumed" /\ Turns(Pci, "idle")
  BY <1>0, Backs, Turning DEF Resumed, Leave
<1>13. Reset => at[Pci] = "flr" /\ Turns(Pci, "flrDone")
  BY <1>0, Backs, Turning DEF Reset
<1>14. ResetDone => at[Pci] = "flrDone" /\ Turns(Pci, "idle")
  BY <1>0, Backs, Turning DEF ResetDone, Leave
<1> QED
  BY <1>1, <1>2, <1>3, <1>4, <1>5, <1>6, <1>7, <1>8, <1>9, <1>10, <1>11, <1>12, <1>13, <1>14

-----------------------------------------------------------------------------
(* The steps by name *)

LEMMA StepNames ==
  /\ Len(ProbeSteps) = 18 /\ Len(RemoveSteps) = 7
  /\ ProbeSteps[1] = "irq" /\ ProbeSteps[2] = "minFile" /\ ProbeSteps[3] = "maxFile"
  /\ ProbeSteps[4] = "effFile" /\ ProbeSteps[5] = "ipcReset" /\ ProbeSteps[6] = "fw"
  /\ ProbeSteps[7] = "cpd" /\ ProbeSteps[8] = "isysMmu" /\ ProbeSteps[9] = "isysDev"
  /\ ProbeSteps[10] = "psysMmu" /\ ProbeSteps[11] = "psysDev" /\ ProbeSteps[12] = "psysGet"
  /\ ProbeSteps[13] = "psysHw" /\ ProbeSteps[14] = "image" /\ ProbeSteps[15] = "pkgDir"
  /\ ProbeSteps[16] = "auth" /\ ProbeSteps[17] = "put" /\ ProbeSteps[18] = "debugfs"
  /\ RemoveSteps[1] = "debugfs" /\ RemoveSteps[2] = "pkgDir" /\ RemoveSteps[3] = "image"
  /\ RemoveSteps[4] = "devices" /\ RemoveSteps[5] = "files" /\ RemoveSteps[6] = "fw"
  /\ RemoveSteps[7] = "mmus"
<1>1. Len(ProbeSteps) = 18 /\ Len(RemoveSteps) = 7
  BY DEF ProbeSteps, RemoveSteps
<1>2. /\ ProbeSteps[1] = "irq" /\ ProbeSteps[2] = "minFile" /\ ProbeSteps[3] = "maxFile"
      /\ ProbeSteps[4] = "effFile" /\ ProbeSteps[5] = "ipcReset" /\ ProbeSteps[6] = "fw"
  BY DEF ProbeSteps
<1>3. /\ ProbeSteps[7] = "cpd" /\ ProbeSteps[8] = "isysMmu" /\ ProbeSteps[9] = "isysDev"
      /\ ProbeSteps[10] = "psysMmu" /\ ProbeSteps[11] = "psysDev" /\ ProbeSteps[12] = "psysGet"
  BY DEF ProbeSteps
<1>4. /\ ProbeSteps[13] = "psysHw" /\ ProbeSteps[14] = "image" /\ ProbeSteps[15] = "pkgDir"
      /\ ProbeSteps[16] = "auth" /\ ProbeSteps[17] = "put" /\ ProbeSteps[18] = "debugfs"
  BY DEF ProbeSteps
<1>5. /\ RemoveSteps[1] = "debugfs" /\ RemoveSteps[2] = "pkgDir" /\ RemoveSteps[3] = "image"
      /\ RemoveSteps[4] = "devices" /\ RemoveSteps[5] = "files" /\ RemoveSteps[6] = "fw"
      /\ RemoveSteps[7] = "mmus"
  BY DEF RemoveSteps
<1> QED
  BY <1>1, <1>2, <1>3, <1>4, <1>5

LEMMA CallSteps ==
  ASSUME NEW k \in 1 .. 18
  PROVE  /\ ProbeSteps[k] = "ipcReset" => k = 5
         /\ ProbeSteps[k] = "psysGet" => k = 12
         /\ ProbeSteps[k] = "auth" => k = 16
         /\ ProbeSteps[k] = "put" => k = 17
         /\ ProbeSteps[k] \in {"ipcReset", "psysGet", "auth"} => k \in {5, 12, 16}
<1>1. k \in {1, 2, 3, 4, 5, 6, 7, 8, 9, 10, 11, 12, 13, 14, 15, 16, 17, 18}
  OBVIOUS
<1> QED
  BY <1>1, StepNames

-----------------------------------------------------------------------------
(* The kinds of steps that leave the PCI device, what the driver holds and *)
(* the power alone                                                         *)

\* A thread talks to the CSE, or waits for its turn.
Talks(t) ==
  /\ Within(t) /\ at[t] \in Auths \cup Sends
  /\ at'[t] \in Auths \cup Sends \/ (at[t] \in Auths /\ at'[t] = Base(t))
  /\ UNCHANGED << core, rpm >>

\* A thread is in an IPC reset.
Resetting(t) ==
  /\ at[t] \in Resets
  /\ Goes1(t, "resetPoll") \/ FromReset(t)
  /\ UNCHANGED << core, rpm >>

AuthActions(t) ==
  \/ OpenMailbox(t) \/ Ring(t) \/ AwaitTaken(t) \/ NotTaken(t) \/ AwaitAnswer(t) \/ CloseMailbox(t)
  \/ Authenticate(t) \/ Sent(t) \/ PollSetup(t) \/ Reread(t) \/ PollMagic(t) \/ EndAuth(t)

LEMMA Talking ==
  ASSUME Control, NEW t \in Thread, AuthActions(t), UNCHANGED core
  PROVE  Talks(t)
<1>0. /\ \A s \in {"authenticate", "booted", "ran", "poll", "reread", "magic", "endAuth"} : s \in Auths
      /\ \A s \in {"send", "ring", "sent", "received", "closeMailbox"} : s \in Sends
  BY DEF Auths, Sends
<1>1. rpm' = rpm
  BY DEF AuthActions, OpenMailbox, Ring, AwaitTaken, NotTaken, AwaitAnswer, CloseMailbox,
         Authenticate, Sent, PollSetup, Reread, PollMagic, EndAuth
<1>2. CASE OpenMailbox(t) \/ Ring(t) \/ AwaitTaken(t)
  BY <1>0, <1>1, <1>2, SendSteps DEF Talks, Goes1, Decides1, Comes
<1>3. CASE NotTaken(t) \/ AwaitAnswer(t) \/ CloseMailbox(t)
  BY <1>0, <1>1, <1>3, SendSteps DEF Talks, Goes1, Decides1, Comes
<1>4. CASE Authenticate(t) \/ Sent(t)
  BY <1>0, <1>1, <1>4, AuthSteps DEF Talks, Goes1, Decides1, Comes
<1>5. CASE PollSetup(t) \/ Reread(t)
  BY <1>0, <1>1, <1>5, AuthSteps DEF Talks, Goes1, Decides1, Comes
<1>6. CASE PollMagic(t) \/ EndAuth(t)
  BY <1>0, <1>1, <1>6, AuthSteps DEF Talks, Goes1, Decides1, Comes
<1> QED
  BY <1>2, <1>3, <1>4, <1>5, <1>6 DEF AuthActions

LEMMA ResettingSteps ==
  ASSUME Control, NEW t \in Thread, BeginReset(t) \/ PollReset(t), UNCHANGED core
  PROVE  Resetting(t)
BY ResetSteps DEF Resetting

\* A step of the hardware, and none at all.
LEMMA Idling ==
  ASSUME Control,
         \/ (Hardware /\ UNCHANGED core) \/ UNCHANGED vars
         \/ \E t \in Debugfs : FwAuthenticateTimesOut(t)
  PROVE  Stands /\ UNCHANGED << core, rpm >>
<1>1. UNCHANGED << control, core, rpm >>
  BY DEF Hardware, Take, Answer, Finish, Isr, FwAuthenticateTimesOut, vars, buttress, core
<1> QED
  BY <1>1, Standing

\* Everything that may happen.
LEMMA StepsOf ==
  ASSUME [Next]_vars
  PROVE  \/ \E t \in Thread : AuthActions(t) /\ UNCHANGED core
         \/ \E t \in Thread : (BeginReset(t) \/ PollReset(t)) /\ UNCHANGED core
         \/ (Hardware /\ UNCHANGED core) \/ UNCHANGED vars
         \/ \E t \in Debugfs : FwAuthenticateTimesOut(t)
         \/ \E t \in Thread : GetPsys(t) \/ Wake(t) \/ Woken(t) \/ PowerPsys(t)
         \/ \E t \in Debugfs : FwAuthenticate(t) \/ DbgGot(t) \/ DbgDone(t)
         \/ Probe \/ ProbeStep \/ Probed \/ Remove \/ RemoveStep
         \/ Sleep \/ ResumeReset \/ Resume \/ ResumeGet \/ ResumeGot \/ Resumed
         \/ ResetPrepare \/ Reset \/ ResetDone
         \/ RuntimeSuspend
BY Zenon DEF Next, CallStep, Mailbox, AuthActions, PciStep, Environment

-----------------------------------------------------------------------------
(* The phases of the device *)

LEMMA BasesOf ==
  ASSUME Control, Phases
  PROVE  /\ Pci \in Thread /\ Base(Pci) \in PciTop
         /\ \A t \in Debugfs : t \in Thread /\ t # Pci /\ Base(t) \in DbgTop
BY CoreAssumption DEF Phases, Debugfs

\* A step that leaves phase and step alone, and the bases of all threads.
LEMMA PhasesKept ==
  ASSUME Phases, UNCHANGED << phase, step >>,
         \A u \in Thread : Base(u)' = Base(u),
         \/ at'[Pci] = at[Pci] /\ callers'[Pci] = callers[Pci]
         \/ /\ Base(Pci) = "probed" => step \in CallStepOf(at'[Pci])
            /\ Base(Pci) = "probed" /\ at'[Pci] \in Resets =>
                 step = IF Head(callers'[Pci]) = "woken" THEN 12 ELSE 5
  PROVE  Phases'
<1>1. Base(Pci)' = Base(Pci) /\ \A t \in Debugfs : Base(t)' = Base(t)
  BY CoreAssumption DEF Debugfs
<1>2. Base(Pci)' \in PciTop /\ phase' \in PhasesOf(Base(Pci)')
  BY <1>1 DEF Phases
<1>3. step' \in 1 .. 18 /\ (phase' = "removing" => step' \in 1 .. 7)
  BY DEF Phases
<1>4. \A t \in Debugfs :
        /\ Base(t)' \in DbgTop
        /\ Base(t)' # "idle" =>
             phase' \in {"bound", "resetting"} \/ (phase' = "removing" /\ step' = 1)
  BY <1>1 DEF Phases
<1>5. /\ Base(Pci)' = "probed" => step' \in CallStepOf(at'[Pci])
      /\ Base(Pci)' = "probed" /\ at'[Pci] \in Resets =>
           step' = IF Head(callers'[Pci]) = "woken" THEN 12 ELSE 5
  BY <1>1 DEF Phases
<1> QED
  BY <1>2, <1>3, <1>4, <1>5 DEF Phases

LEMMA Shapes ==
  ASSUME NEW t \in Thread, Within(t)
  PROVE  /\ \A u \in Thread : Base(u)' = Base(u)
         /\ t # Pci => at'[Pci] = at[Pci] /\ callers'[Pci] = callers[Pci]
BY CoreAssumption DEF Within, Others

LEMMA Disjoint ==
  /\ \A a \in Gets \cup Wakes : a \notin Resets \cup Auths \cup Sends \cup Top
  /\ \A a \in Resets : a \notin Auths \cup Sends \cup Top
  /\ \A a \in Auths : a \notin Sends \cup Top
  /\ \A a \in Sends : a \notin Top
  /\ \A a \in Gets : a \notin Wakes
  /\ "probed" \in Top /\ "woken" \in Wakes /\ "powerPsys" \in Gets /\ "resetPoll" \in Resets
  /\ "wake" \in Wakes /\ "getPsys" \in Gets /\ "reset" \in Resets /\ "authenticate" \in Auths
BY DEF Top, PciTop, DbgTop, Gets, Wakes, Resets, Auths, Sends

LEMMA PhasesTalks ==
  ASSUME Control, Phases, NEW t \in Thread, Talks(t)
  PROVE  Phases'
<1>1. Within(t) /\ UNCHANGED << phase, step >>
  BY DEF Talks, core, binding
<1>2. CASE t # Pci
  BY <1>1, <1>2, Shapes, PhasesKept
<1>3. CASE t = Pci
  <2>1. Base(Pci) = "probed" => step = 16
    BY <1>3, Disjoint DEF Talks, Phases, CallStepOf
  <2>2. Base(Pci) = "probed" => step \in CallStepOf(at'[Pci]) /\ at'[Pci] \notin Resets
    BY <1>3, <2>1, Disjoint DEF Talks, CallStepOf
  <2> QED
    BY <1>1, <2>2, Shapes, PhasesKept
<1> QED
  BY <1>2, <1>3

LEMMA PhasesResetting ==
  ASSUME Control, Phases, NEW t \in Thread, Resetting(t)
  PROVE  Phases'
<1>1. Within(t) /\ UNCHANGED << phase, step >> /\ at[t] \in Resets
  BY DEF Resetting, Goes1, Comes, FromReset, core, binding
<1>2. CASE t # Pci
  BY <1>1, <1>2, Shapes, PhasesKept
<1>3. CASE t = Pci
  <2>1. Base(Pci) = "probed" => step = IF Head(callers[Pci]) = "woken" THEN 12 ELSE 5
    BY <1>1, <1>3 DEF Phases
  <2>2. CASE Goes1(t, "resetPoll")
    <3>1. Base(Pci) = "probed" =>
            /\ step \in CallStepOf(at'[Pci])
            /\ step = IF Head(callers'[Pci]) = "woken" THEN 12 ELSE 5
      BY <1>3, <2>1, <2>2, Disjoint DEF Goes1, Comes, CallStepOf
    <3> QED
      BY <1>1, <3>1, Shapes, PhasesKept
  <2>3. CASE FromReset(t)
    <3>1. Base(Pci) = "probed" => step \in CallStepOf(at'[Pci]) /\ at'[Pci] \notin Resets
      BY <1>3, <2>1, <2>3, Disjoint DEF FromReset, CallStepOf
    <3> QED
      BY <1>1, <3>1, Shapes, PhasesKept
  <2> QED
    BY <2>2, <2>3 DEF Resetting
<1> QED
  BY <1>2, <1>3

LEMMA PhasesStands ==
  ASSUME Control, Phases, Stands, UNCHANGED << phase, step >>
  PROVE  Phases'
BY CoreAssumption, PhasesKept DEF Stands

LEMMA PhasesPower ==
  ASSUME Control, Phases, NEW t \in Thread,
         GetPsys(t) \/ Wake(t) \/ Woken(t) \/ PowerPsys(t)
  PROVE  Phases'
<1>1. Within(t) /\ UNCHANGED << phase, step >> /\ at[t] \in Gets \cup Wakes
  BY PowerSteps, Disjoint DEF FromWake, GetPsys, Wake, Woken, PowerPsys, binding, Gets, Wakes
<1>2. CASE t # Pci
  BY <1>1, <1>2, Shapes, PhasesKept
<1>3. CASE t = Pci
  <2>1. Base(Pci) = "probed" => step = 12
    BY <1>1, <1>3, Disjoint DEF Phases, CallStepOf
  <2>2. Base(Pci) = "probed" => /\ step \in CallStepOf(at'[Pci])
                                /\ at'[Pci] \in Resets => Head(callers'[Pci]) = "woken"
    <3>1. CASE GetPsys(t) \/ Woken(t) \/ PowerPsys(t)
      BY <3>1, <1>3, <2>1, PowerSteps, Disjoint, Backs DEF CallStepOf, FromWake
    <3>2. CASE Wake(t)
      BY <3>2, <1>3, <2>1, PowerSteps, Disjoint, Backs DEF CallStepOf, FromWake
    <3> QED
      BY <3>1, <3>2
  <2> QED
    BY <1>1, <2>1, <2>2, Shapes, PhasesKept
<1> QED
  BY <1>2, <1>3

LEMMA DebugfsIdle ==
  ASSUME Phases, phase \notin {"bound", "resetting"}, ~ (phase = "removing" /\ step = 1)
  PROVE  \A t \in Debugfs : Base(t) = "idle"
BY DEF Phases

\* A step of a thread of debugfs: the PCI thread stays where it is.
LEMMA PhasesDebugfs ==
  ASSUME Control, Phases, HeldInv, NEW t \in Debugfs,
         FwAuthenticate(t) \/ DbgGot(t) \/ DbgDone(t)
  PROVE  Phases'
<1>1. t \in Thread /\ t # Pci /\ Pci \in Thread
  BY CoreAssumption DEF Debugfs
<1>2. UNCHANGED << phase, step >>
  BY DEF FwAuthenticate, DbgGot, DbgDone, binding
<1>3. /\ Others(t)
      /\ \/ Base(t)' = "idle"
         \/ at[t] = "idle" /\ FwAuthenticate(t) /\ Base(t)' = "dbgGot"
         \/ at[t] = "dbgGot" /\ Base(t)' = "dbgDone"
  BY <1>1, DbgSteps DEF Enters, Turns
<1>4. at[t] = "dbgGot" => Base(t) = "dbgGot"
  BY <1>1, Where, Backs
<1>5. FwAuthenticate(t) => phase \in {"bound", "resetting"} \/ (phase = "removing" /\ step = 1)
  <2> SUFFICES ASSUME FwAuthenticate(t), phase = "removing" PROVE step = 1
    BY DEF FwAuthenticate, DebugfsOpen
  <2>1. "debugfs" \in held
    BY DEF FwAuthenticate, DebugfsOpen
  <2>2. step \in 1 .. 7
    BY DEF Phases
  <2>3. 1 < step => held \cap RemoveTakes("debugfs") = {}
    BY <2>2, StepNames DEF HeldInv
  <2>4. RemoveTakes("debugfs") = {"debugfs"}
    BY DEF RemoveTakes
  <2> QED
    BY <2>1, <2>2, <2>3, <2>4
<1>6. \A u \in Debugfs :
        /\ Base(u)' \in DbgTop
        /\ Base(u)' # "idle" => phase \in {"bound", "resetting"} \/ (phase = "removing" /\ step = 1)
  <2> SUFFICES ASSUME NEW u \in Debugfs
               PROVE /\ Base(u)' \in DbgTop
                     /\ Base(u)' # "idle" =>
                          phase \in {"bound", "resetting"} \/ (phase = "removing" /\ step = 1)
    OBVIOUS
  <2>1. CASE u # t
    <3>1. Base(u)' = Base(u)
      BY <2>1, <1>3 DEF Others, Debugfs
    <3> QED
      BY <3>1 DEF Phases
  <2>2. CASE u = t
    BY <2>2, <1>3, <1>4, <1>5 DEF Phases, DbgTop
  <2> QED
    BY <2>1, <2>2
<1>7. at'[Pci] = at[Pci] /\ callers'[Pci] = callers[Pci] /\ Base(Pci)' = Base(Pci)
  BY <1>1, <1>3 DEF Others
<1>8. Base(Pci)' \in PciTop /\ phase' \in PhasesOf(Base(Pci)')
  BY <1>2, <1>7 DEF Phases
<1>9. step' \in 1 .. 18 /\ (phase' = "removing" => step' \in 1 .. 7)
  BY <1>2 DEF Phases
<1>10. /\ Base(Pci)' = "probed" => step' \in CallStepOf(at'[Pci])
       /\ Base(Pci)' = "probed" /\ at'[Pci] \in Resets =>
            step' = IF Head(callers'[Pci]) = "woken" THEN 12 ELSE 5
  BY <1>2, <1>7 DEF Phases
<1> QED
  BY <1>2, <1>6, <1>8, <1>9, <1>10 DEF Phases

\* A step of the PCI thread outside of its calls.
LEMMA PhasesTurns ==
  ASSUME Phases, Others(Pci), Base(Pci)' \in PciTop, phase' \in PhasesOf(Base(Pci)'),
         step' \in 1 .. 18, phase' = "removing" => step' \in 1 .. 7,
         Base(Pci)' = "probed" =>
           /\ step' \in CallStepOf(at'[Pci])
           /\ at'[Pci] \in Resets =>
                step' = IF Head(callers'[Pci]) = "woken" THEN 12 ELSE 5,
         \/ \A t \in Debugfs : Base(t) = "idle"
         \/ phase' \in {"bound", "resetting"}
         \/ phase' = "removing" /\ step' = 1
  PROVE  Phases'
<1>1. \A t \in Debugfs : Base(t)' = Base(t)
  BY DEF Others, Debugfs
<1>2. \A t \in Debugfs :
        /\ Base(t)' \in DbgTop
        /\ Base(t)' # "idle" =>
             phase' \in {"bound", "resetting"} \/ (phase' = "removing" /\ step' = 1)
  BY <1>1 DEF Phases
<1> QED
  BY <1>2 DEF Phases

LEMMA PhasesPci ==
  ASSUME Control, Phases, HeldInv,
         \/ Probe \/ ProbeStep \/ Probed \/ Remove \/ RemoveStep
         \/ Sleep \/ ResumeReset \/ Resume \/ ResumeGet \/ ResumeGot \/ Resumed
         \/ ResetPrepare \/ Reset \/ ResetDone
  PROVE  Phases'
<1>0. /\ Pci \in Thread /\ (at[Pci] \in Top => Base(Pci) = at[Pci])
      /\ phase \in PhasesOf(Base(Pci)) /\ step \in 1 .. 18
      /\ (phase = "removing" => step \in 1 .. 7)
  BY CoreAssumption, Where DEF Phases
<1>1. ASSUME NEW a \in PciTop, Turns(Pci, a), phase' \in PhasesOf(a), a # "probed",
             step' \in 1 .. 18, phase' = "removing" => step' \in 1 .. 7,
             \/ phase \notin {"bound", "resetting"} /\ ~ (phase = "removing" /\ step = 1)
             \/ phase' \in {"bound", "resetting"}
             \/ phase' = "removing" /\ step' = 1
      PROVE  Phases'
  BY <1>1, DebugfsIdle, PhasesTurns DEF Turns
<1>2. ASSUME NEW b \in PciTop, NEW e, Enters(Pci, e, b), phase' \in PhasesOf(b),
             UNCHANGED step, phase' # "removing",
             b = "probed" => /\ step \in CallStepOf(e)
                             /\ e \in Resets => step = IF Head(<< b >>) = "woken" THEN 12 ELSE 5,
             \/ phase \notin {"bound", "resetting"} /\ ~ (phase = "removing" /\ step = 1)
             \/ phase' \in {"bound", "resetting"}
      PROVE  Phases'
  BY <1>2, <1>0, DebugfsIdle, PhasesTurns DEF Enters
<1>3. CASE Probe
  <2>1. phase = "unbound" /\ phase' = "probing" /\ step' = 1 /\ Turns(Pci, "probe")
    BY <1>3, PciSteps DEF Probe
  <2>2. phase' \in PhasesOf("probe") /\ "probe" \in PciTop
    BY <2>1 DEF PciTop, PhasesOf
  <2> QED
    BY <1>1, <2>1, <2>2
<1>4. CASE ProbeStep
  <2>1. at[Pci] = "probe" /\ phase = "probing"
    BY <1>0, <1>4, PciSteps, Backs DEF PhasesOf
  <2>2. CASE \E s \in {"ipcReset", "psysGet", "auth"} :
               /\ s = ProbeSteps[step] /\ ProbeCall(s)
               /\ Enters(Pci, IF s = "ipcReset" THEN "reset"
                              ELSE IF s = "psysGet" THEN "getPsys" ELSE "authenticate", "probed")
    <3>1. PICK s \in {"ipcReset", "psysGet", "auth"} :
               /\ s = ProbeSteps[step] /\ ProbeCall(s)
               /\ Enters(Pci, IF s = "ipcReset" THEN "reset"
                              ELSE IF s = "psysGet" THEN "getPsys" ELSE "authenticate", "probed")
      BY <2>2
    <3>2. UNCHANGED << phase, step >>
      BY <3>1 DEF ProbeCall, binding
    <3>3. Head(<< "probed" >>) # "woken"
      BY Singles, Backs
    <3>4. CASE s = "ipcReset"
      <4>1. step = 5 /\ Enters(Pci, "reset", "probed")
        BY <3>1, <3>4, <1>0, CallSteps
      <4> QED
        BY <1>2, <2>1, <3>2, <3>3, <4>1, Disjoint DEF CallStepOf, PciTop, PhasesOf
    <3>5. CASE s = "psysGet"
      <4>1. step = 12 /\ Enters(Pci, "getPsys", "probed")
        BY <3>1, <3>5, <1>0, CallSteps
      <4> QED
        BY <1>2, <2>1, <3>2, <3>3, <4>1, Disjoint DEF CallStepOf, PciTop, PhasesOf
    <3>6. CASE s = "auth"
      <4>1. step = 16 /\ Enters(Pci, "authenticate", "probed")
        BY <3>1, <3>6, <1>0, CallSteps
      <4> QED
        BY <1>2, <2>1, <3>2, <3>3, <4>1, Disjoint DEF CallStepOf, PciTop, PhasesOf
    <3> QED
      BY <3>1, <3>4, <3>5, <3>6
  <2>3. CASE Acquire(ProbeSteps[step]) /\ IF step = Len(ProbeSteps) THEN Turns(Pci, "idle") ELSE Stands
    <3>1. CASE step = 18
      BY <1>1, <2>1, <2>3, <3>1, StepNames DEF Acquire, PciTop, PhasesOf
    <3>2. CASE step # 18
      <4>1. Stands /\ phase' = phase /\ step' = step + 1
        BY <2>3, <3>2, StepNames DEF Acquire
      <4>2. Others(Pci) /\ Base(Pci)' = "probe"
        BY <1>0, <2>1, <4>1, Backs DEF Stands, Others
      <4>3. step' \in 1 .. 18
        BY <1>0, <3>2, <4>1
      <4> QED
        BY <2>1, <4>1, <4>2, <4>3, DebugfsIdle, PhasesTurns DEF PciTop, PhasesOf
    <3> QED
      BY <3>1, <3>2
  <2>4. CASE FailProbe(ProbeSteps[step]) /\ Turns(Pci, "idle")
    BY <1>0, <1>1, <2>1, <2>4 DEF FailProbe, PciTop, PhasesOf
  <2> QED
    BY <1>4, <2>2, <2>3, <2>4, PciSteps
<1>5. CASE Probed
  <2>1. at[Pci] = "probed" /\ phase = "probing"
    BY <1>0, <1>5, PciSteps, Backs DEF PhasesOf
  <2>2. step \in {5, 12, 16}
    BY <2>1, <1>0, Backs, Disjoint DEF Phases, CallStepOf
  <2>3. step' \in 1 .. 18
    <3>1. step' \in {step, step + 1}
      BY <1>5 DEF Probed
    <3> QED
      BY <3>1, <2>2
  <2>4. CASE phase' = phase /\ Turns(Pci, "probe")
    BY <1>1, <2>1, <2>3, <2>4 DEF PciTop, PhasesOf
  <2>5. CASE phase' = "unbound" /\ Turns(Pci, "idle")
    BY <1>1, <2>1, <2>3, <2>5 DEF PciTop, PhasesOf
  <2> QED
    BY <1>5, <2>4, <2>5, PciSteps
<1>6. CASE Remove
  BY <1>1, <1>6, PciSteps DEF Remove, PciTop, PhasesOf
<1>7. CASE RemoveStep
  <2>1. at[Pci] = "remove" /\ phase = "removing" /\ step \in 1 .. 7
    BY <1>0, <1>7, PciSteps, Backs DEF PhasesOf
  <2>2. \A t \in Debugfs : Base(t) = "idle"
    <3>1. CASE step = 1
      <4>1. \A t \in Debugfs : at[t] = "idle"
        BY <1>7, <3>1, StepNames DEF RemoveStep
      <4> QED
        BY <4>1, IdleBase DEF Debugfs
    <3>2. CASE step # 1
      BY <2>1, <3>2, DebugfsIdle
    <3> QED
      BY <3>1, <3>2
  <2>3. CASE step = 7
    <3>1. phase' = "unbound" /\ step' = step /\ Turns(Pci, "idle")
      BY <1>7, <2>3, PciSteps, StepNames DEF RemoveStep
    <3> QED
      BY <1>0, <2>2, <3>1, PhasesTurns DEF Turns, PciTop, PhasesOf
  <2>4. CASE step # 7
    <3>1. phase' = phase /\ step' = step + 1 /\ Stands
      BY <1>7, <2>1, <2>4, PciSteps, StepNames DEF RemoveStep
    <3>2. Others(Pci) /\ Base(Pci)' = "remove"
      BY <1>0, <2>1, <3>1, Backs DEF Stands, Others
    <3>3. step' \in 1 .. 7
      BY <2>1, <2>4, <3>1
    <3> QED
      BY <2>1, <2>2, <3>1, <3>2, <3>3, PhasesTurns DEF PciTop, PhasesOf
  <2> QED
    BY <2>3, <2>4
<1>8. CASE Sleep
  <2>1. \A t \in Debugfs : Base(t) = "idle"
    BY <1>8, IdleBase DEF Sleep, Frozen, Debugfs
  <2>2. Enters(Pci, "wake", "sleep") /\ phase' = "asleep" /\ step' = step
    BY <1>8, PciSteps DEF Sleep
  <2> QED
    BY <1>0, <2>1, <2>2, PhasesTurns DEF Enters, PciTop, PhasesOf
<1>9. CASE ResumeReset
  <2>1. phase = "asleep" /\ UNCHANGED << phase, step >> /\ Turns(Pci, "resume")
    BY <1>0, <1>9, PciSteps, Backs DEF PhasesOf, ResumeReset, binding
  <2> QED
    BY <1>0, <1>1, <2>1 DEF PciTop, PhasesOf
<1>10. CASE Resume
  <2>1. phase = "asleep" /\ UNCHANGED << phase, step >> /\ Enters(Pci, "reset", "resumeGet")
    BY <1>0, <1>10, PciSteps, Backs DEF PhasesOf, Resume, binding
  <2> QED
    BY <1>0, <1>2, <2>1 DEF PciTop, PhasesOf
<1>11. CASE ResumeGet
  <2>1. phase' = "bound" /\ UNCHANGED step /\ Enters(Pci, "getPsys", "resumeGot")
    BY <1>11, PciSteps DEF ResumeGet
  <2> QED
    BY <1>0, <1>2, <2>1 DEF PciTop, PhasesOf
<1>12. CASE ResumeGot
  <2>1. /\ phase = "bound" /\ UNCHANGED << phase, step >>
        /\ Enters(Pci, "authenticate", "resumed") \/ Turns(Pci, "idle")
    BY <1>0, <1>12, PciSteps, Backs DEF PhasesOf, ResumeGot, binding
  <2> QED
    BY <1>0, <1>1, <1>2, <2>1 DEF PciTop, PhasesOf
<1>13. CASE Resumed
  <2>1. phase = "bound" /\ UNCHANGED << phase, step >> /\ Turns(Pci, "idle")
    BY <1>0, <1>13, PciSteps, Backs DEF PhasesOf, Resumed, binding
  <2> QED
    BY <1>0, <1>1, <2>1 DEF PciTop, PhasesOf
<1>14. CASE ResetPrepare
  <2>1. phase' = "resetting" /\ UNCHANGED step /\ Enters(Pci, "wake", "flr")
    BY <1>14, PciSteps DEF ResetPrepare
  <2> QED
    BY <1>0, <1>2, <2>1 DEF PciTop, PhasesOf
<1>15. CASE Reset
  <2>1. phase = "resetting" /\ UNCHANGED << phase, step >> /\ Turns(Pci, "flrDone")
    BY <1>0, <1>15, PciSteps, Backs DEF PhasesOf, Reset, binding
  <2> QED
    BY <1>0, <1>1, <2>1 DEF PciTop, PhasesOf
<1>16. CASE ResetDone
  <2>1. phase' = "bound" /\ UNCHANGED step /\ Turns(Pci, "idle")
    BY <1>16, PciSteps DEF ResetDone
  <2> QED
    BY <1>0, <1>1, <2>1 DEF PciTop, PhasesOf
<1> QED
  BY <1>3, <1>4, <1>5, <1>6, <1>7, <1>8, <1>9, <1>10, <1>11, <1>12, <1>13, <1>14, <1>15, <1>16

-----------------------------------------------------------------------------
(* What the driver holds *)

LEMMA StepsDiffer ==
  ASSUME NEW j \in 1 .. 18, NEW k \in 1 .. 18, ProbeSteps[j] = ProbeSteps[k]
  PROVE  j = k
<1> DEFINE I == 1 .. 18
<1>1. /\ j \in {1, 2, 3, 4, 5, 6, 7, 8, 9, 10, 11, 12, 13, 14, 15, 16, 17, 18}
      /\ k \in {1, 2, 3, 4, 5, 6, 7, 8, 9, 10, 11, 12, 13, 14, 15, 16, 17, 18}
  OBVIOUS
<1> QED
  BY <1>1, StepNames

\* What a probe at the step k holds.
Holding(k, h) ==
  \A j \in 1 .. 18 : ProbeSteps[j] \notin TakesNothing =>
    IF j < k THEN ProbeSteps[j] \in h ELSE ProbeSteps[j] \in h => ProbeSteps[j] = "effFile"

LEMMA HoldingNames ==
  ASSUME NEW k \in 1 .. 18, NEW h, Holding(k, h)
  PROVE  /\ "irq" \in h <=> 1 < k
         /\ "minFile" \in h <=> 2 < k
         /\ "maxFile" \in h <=> 3 < k
         /\ "fw" \in h <=> 6 < k
         /\ "isysMmu" \in h <=> 8 < k
         /\ "isysDev" \in h <=> 9 < k
         /\ "psysMmu" \in h <=> 10 < k
         /\ "psysDev" \in h <=> 11 < k
         /\ "image" \in h <=> 14 < k
         /\ "pkgDir" \in h <=> 15 < k
         /\ "debugfs" \in h <=> 18 < k
<1>1. ASSUME NEW j \in 1 .. 18, NEW s, ProbeSteps[j] = s, s \notin TakesNothing, s # "effFile"
      PROVE  s \in h <=> j < k
  <2>1. IF j < k THEN ProbeSteps[j] \in h ELSE ProbeSteps[j] \in h => ProbeSteps[j] = "effFile"
    BY <1>1 DEF Holding
  <2> QED
    BY <1>1, <2>1
<1>2. "irq" \in h <=> 1 < k
  BY <1>1, StepNames DEF TakesNothing
<1>3. "minFile" \in h <=> 2 < k
  BY <1>1, StepNames DEF TakesNothing
<1>4. "maxFile" \in h <=> 3 < k
  BY <1>1, StepNames DEF TakesNothing
<1>5. "fw" \in h <=> 6 < k
  BY <1>1, StepNames DEF TakesNothing
<1>6. "isysMmu" \in h <=> 8 < k
  BY <1>1, StepNames DEF TakesNothing
<1>7. "isysDev" \in h <=> 9 < k
  BY <1>1, StepNames DEF TakesNothing
<1>8. "psysMmu" \in h <=> 10 < k
  BY <1>1, StepNames DEF TakesNothing
<1>9. "psysDev" \in h <=> 11 < k
  BY <1>1, StepNames DEF TakesNothing
<1>10. "image" \in h <=> 14 < k
  BY <1>1, StepNames DEF TakesNothing
<1>11. "pkgDir" \in h <=> 15 < k
  BY <1>1, StepNames DEF TakesNothing
<1>12. "debugfs" \in h <=> 18 < k
  BY <1>1, StepNames DEF TakesNothing
<1> QED
  BY <1>2, <1>3, <1>4, <1>5, <1>6, <1>7, <1>8, <1>9, <1>10, <1>11, <1>12

LEMMA Unwinding ==
  ASSUME NEW k \in 1 .. 18, NEW h \in SUBSET All, Holding(k, h)
  PROVE  /\ Unwound(ProbeSteps[k], h) \subseteq Leaves(ProbeSteps[k]) \cup {"effFile"}
         /\ Unwound(ProbeSteps[k], h) \subseteq All
<1> DEFINE u == Unwound(ProbeSteps[k], h)
<1>1. u \subseteq h
  BY DEF Unwound, DelDevices
<1>2. k \in {1, 2, 3, 4, 5, 6, 7, 8, 9, 10, 11, 12, 13, 14, 15, 16, 17, 18}
  OBVIOUS
<1> DEFINE N == /\ ("irq" \in h <=> 1 < k) /\ ("minFile" \in h <=> 2 < k)
                /\ ("maxFile" \in h <=> 3 < k) /\ ("fw" \in h <=> 6 < k)
                /\ ("isysMmu" \in h <=> 8 < k) /\ ("isysDev" \in h <=> 9 < k)
                /\ ("psysMmu" \in h <=> 10 < k) /\ ("psysDev" \in h <=> 11 < k)
                /\ ("image" \in h <=> 14 < k) /\ ("pkgDir" \in h <=> 15 < k)
                /\ ("debugfs" \in h <=> 18 < k)
<1>3. N
  BY HoldingNames
<1>4. CASE k = 1
  <2>1. ProbeSteps[k] = "irq"
    BY <1>4, StepNames
  <2> QED
    BY <1>4, <1>1, <1>3, <2>1 DEF Unwound, DelDevices, Leaves, Files, Managed, All
<1>5. CASE k = 2
  <2>1. ProbeSteps[k] = "minFile"
    BY <1>5, StepNames
  <2> QED
    BY <1>5, <1>1, <1>3, <2>1 DEF Unwound, DelDevices, Leaves, Files, Managed, All
<1>6. CASE k = 3
  <2>1. ProbeSteps[k] = "maxFile"
    BY <1>6, StepNames
  <2> QED
    BY <1>6, <1>1, <1>3, <2>1 DEF Unwound, DelDevices, Leaves, Files, Managed, All
<1>7. CASE k = 4
  <2>1. ProbeSteps[k] = "effFile"
    BY <1>7, StepNames
  <2> QED
    BY <1>7, <1>1, <1>3, <2>1 DEF Unwound, DelDevices, Leaves, Files, Managed, All
<1>8. CASE k = 5
  <2>1. ProbeSteps[k] = "ipcReset"
    BY <1>8, StepNames
  <2> QED
    BY <1>8, <1>1, <1>3, <2>1 DEF Unwound, DelDevices, Leaves, Files, Managed, All
<1>9. CASE k = 6
  <2>1. ProbeSteps[k] = "fw"
    BY <1>9, StepNames
  <2> QED
    BY <1>9, <1>1, <1>3, <2>1 DEF Unwound, DelDevices, Leaves, Files, Managed, All
<1>10. CASE k = 7
  <2>1. ProbeSteps[k] = "cpd"
    BY <1>10, StepNames
  <2> QED
    BY <1>10, <1>1, <1>3, <2>1 DEF Unwound, DelDevices, Leaves, Files, Managed, All
<1>11. CASE k = 8
  <2>1. ProbeSteps[k] = "isysMmu"
    BY <1>11, StepNames
  <2> QED
    BY <1>11, <1>1, <1>3, <2>1 DEF Unwound, DelDevices, Leaves, Files, Managed, All
<1>12. CASE k = 9
  <2>1. ProbeSteps[k] = "isysDev"
    BY <1>12, StepNames
  <2> QED
    BY <1>12, <1>1, <1>3, <2>1 DEF Unwound, DelDevices, Leaves, Files, Managed, All
<1>13. CASE k = 10
  <2>1. ProbeSteps[k] = "psysMmu"
    BY <1>13, StepNames
  <2> QED
    BY <1>13, <1>1, <1>3, <2>1 DEF Unwound, DelDevices, Leaves, Files, Managed, All
<1>14. CASE k = 11
  <2>1. ProbeSteps[k] = "psysDev"
    BY <1>14, StepNames
  <2> QED
    BY <1>14, <1>1, <1>3, <2>1 DEF Unwound, DelDevices, Leaves, Files, Managed, All
<1>15. CASE k = 12
  <2>1. ProbeSteps[k] = "psysGet"
    BY <1>15, StepNames
  <2> QED
    BY <1>15, <1>1, <1>3, <2>1 DEF Unwound, DelDevices, Leaves, Files, Managed, All
<1>16. CASE k = 13
  <2>1. ProbeSteps[k] = "psysHw"
    BY <1>16, StepNames
  <2> QED
    BY <1>16, <1>1, <1>3, <2>1 DEF Unwound, DelDevices, Leaves, Files, Managed, All
<1>17. CASE k = 14
  <2>1. ProbeSteps[k] = "image"
    BY <1>17, StepNames
  <2> QED
    BY <1>17, <1>1, <1>3, <2>1 DEF Unwound, DelDevices, Leaves, Files, Managed, All
<1>18. CASE k = 15
  <2>1. ProbeSteps[k] = "pkgDir"
    BY <1>18, StepNames
  <2> QED
    BY <1>18, <1>1, <1>3, <2>1 DEF Unwound, DelDevices, Leaves, Files, Managed, All
<1>19. CASE k = 16
  <2>1. ProbeSteps[k] = "auth"
    BY <1>19, StepNames
  <2> QED
    BY <1>19, <1>1, <1>3, <2>1 DEF Unwound, DelDevices, Leaves, Files, Managed, All
<1>20. CASE k = 17
  <2>1. ProbeSteps[k] = "put"
    BY <1>20, StepNames
  <2> QED
    BY <1>20, <1>1, <1>3, <2>1 DEF Unwound, DelDevices, Leaves, Files, Managed, All
<1>21. CASE k = 18
  <2>1. ProbeSteps[k] = "debugfs"
    BY <1>21, StepNames
  <2> QED
    BY <1>21, <1>1, <1>3, <2>1 DEF Unwound, DelDevices, Leaves, Files, Managed, All
<1> QED
  BY <1>2, <1>4, <1>5, <1>6, <1>7, <1>8, <1>9, <1>10, <1>11, <1>12, <1>13, <1>14, <1>15, <1>16, <1>17, <1>18, <1>19, <1>20, <1>21

LEMMA HeldKept ==
  ASSUME HeldInv, UNCHANGED << phase, held, step >>
  PROVE  HeldInv'
BY Zenon DEF HeldInv, NothingHeldUnbound

LEMMA HeldProbing ==
  ASSUME HeldInv, phase = "probing"
  PROVE  Holding(step, held) /\ held \in SUBSET All
BY Zenon DEF HeldInv, Holding

LEMMA HeldWhile ==
  ASSUME held' \subseteq All, phase' = "probing", Holding(step, held)'
  PROVE  HeldInv'
BY Zenon DEF HeldInv, Holding, NothingHeldUnbound

LEMMA HeldWhole ==
  ASSUME held' = All, phase' \in {"bound", "asleep", "resetting"}
  PROVE  HeldInv'
BY DEF HeldInv, NothingHeldUnbound

LEMMA HeldUnbound ==
  ASSUME held' \subseteq All, phase' = "unbound",
         held' \subseteq Leaves(ProbeSteps[step']) \cup {"effFile"}
  PROVE  HeldInv'
BY DEF HeldInv, NothingHeldUnbound

LEMMA Holding18 ==
  ASSUME NEW h \in SUBSET All, Holding(18, h), h # {}
  PROVE  h \cup {"debugfs"} = All
<1> DEFINE k == 18
<1>1. /\ "irq" \in h /\ "minFile" \in h /\ "maxFile" \in h /\ "fw" \in h /\ "isysMmu" \in h
      /\ "isysDev" \in h /\ "psysMmu" \in h /\ "psysDev" \in h /\ "image" \in h /\ "pkgDir" \in h
  BY HoldingNames
<1>2. "effFile" \in h
  <2>1. ProbeSteps[4] = "effFile" /\ ProbeSteps[4] \notin TakesNothing
    BY StepNames DEF TakesNothing
  <2> QED
    BY <2>1 DEF Holding
<1> QED
  BY <1>1, <1>2 DEF All

LEMMA HeldAcquire ==
  ASSUME HeldInv, Phases, phase = "probing", Acquire(ProbeSteps[step])
  PROVE  HeldInv'
<1> DEFINE s == ProbeSteps[step]
<1>1. Holding(step, held) /\ held \in SUBSET All /\ step \in 1 .. 18
  BY HeldProbing DEF Phases
<1>2. held' = IF s \in TakesNothing THEN held ELSE held \cup {s}
  BY DEF Acquire
<1>3. s \notin TakesNothing => s \in All
  <2>1. step \in {1, 2, 3, 4, 5, 6, 7, 8, 9, 10, 11, 12, 13, 14, 15, 16, 17, 18}
    BY <1>1
  <2> QED
    BY <2>1, StepNames DEF All, TakesNothing
<1>4. held' \subseteq All
  BY <1>1, <1>2, <1>3
<1>5. CASE step = 18
  <2>1. s = "debugfs" /\ phase' = "bound" /\ s \notin TakesNothing
    BY <1>5, StepNames DEF Acquire, TakesNothing
  <2>2. held # {}
    BY <1>1, <1>5, HoldingNames
  <2>3. held' = All
    BY <1>1, <1>2, <1>5, <2>1, <2>2, Holding18
  <2> QED
    BY <2>1, <2>3, HeldWhole
<1>6. CASE step # 18
  <2>1. step' = step + 1 /\ phase' = "probing"
    BY <1>6, StepNames DEF Acquire
  <2>2. ASSUME NEW j \in 1 .. 18, ProbeSteps[j] \notin TakesNothing
        PROVE  IF j < step' THEN ProbeSteps[j] \in held'
               ELSE ProbeSteps[j] \in held' => ProbeSteps[j] = "effFile"
    <3>1. IF j < step THEN ProbeSteps[j] \in held
          ELSE ProbeSteps[j] \in held => ProbeSteps[j] = "effFile"
      BY <1>1, <2>2 DEF Holding
    <3>2. CASE j < step
      BY <1>1, <1>2, <2>1, <3>1, <3>2
    <3>3. CASE j = step
      BY <1>1, <1>2, <2>1, <2>2, <3>3
    <3>4. CASE j > step
      <4>1. ProbeSteps[j] # s
        BY <1>1, <3>4, StepsDiffer
      <4>2. ~ (j < step) /\ ~ (j < step')
        BY <1>1, <2>1, <3>4
      <4>3. ProbeSteps[j] \in held' => ProbeSteps[j] \in held
        BY <1>2, <4>1
      <4> QED
        BY <3>1, <4>2, <4>3
    <3> QED
      BY <1>1, <3>2, <3>3, <3>4
  <2>3. Holding(step, held)'
    BY <2>2 DEF Holding
  <2> QED
    BY <1>4, <2>1, <2>3, HeldWhile
<1> QED
  BY <1>5, <1>6

LEMMA HeldProbed ==
  ASSUME Control, Phases, HeldInv, Probed
  PROVE  HeldInv'
<1>0. at[Pci] = "probed" /\ phase = "probing" /\ step \in {5, 12, 16}
  <2>1. at[Pci] = "probed" /\ Base(Pci) = "probed"
    BY BasesOf, Where, Backs DEF Probed
  <2> QED
    BY <2>1, Disjoint DEF Phases, PhasesOf, CallStepOf
<1>1. Holding(step, held) /\ held \in SUBSET All /\ step \in 1 .. 18
  BY <1>0, HeldProbing
<1>2. CASE held' = held /\ step' = step + 1 /\ phase' = phase
  <2>1. ASSUME NEW j \in 1 .. 18, ProbeSteps[j] \notin TakesNothing
        PROVE  IF j < step + 1 THEN ProbeSteps[j] \in held
               ELSE ProbeSteps[j] \in held => ProbeSteps[j] = "effFile"
    <3>1. IF j < step THEN ProbeSteps[j] \in held
          ELSE ProbeSteps[j] \in held => ProbeSteps[j] = "effFile"
      BY <1>1, <2>1 DEF Holding
    <3>2. ProbeSteps[step] \in TakesNothing
      BY <1>0, StepNames DEF TakesNothing
    <3>3. j # step
      BY <2>1, <3>2
    <3>4. j < step + 1 <=> j < step
      BY <1>1, <3>3
    <3> QED
      BY <3>1, <3>4
  <2>2. Holding(step, held)'
    BY <1>2, <2>1 DEF Holding
  <2> QED
    BY <1>0, <1>1, <1>2, <2>2, HeldWhile
<1>3. CASE held' = held /\ step' = step /\ phase' = phase
  BY <1>3, HeldKept
<1>4. CASE held' = Unwound(ProbeSteps[step], held) /\ step' = step /\ phase' = "unbound"
  BY <1>1, <1>4, Unwinding, HeldUnbound
<1> QED
  BY <1>2, <1>3, <1>4 DEF Probed

LEMMA HeldRemove ==
  ASSUME Phases, HeldInv, RemoveStep, phase = "removing"
  PROVE  HeldInv'
<1> DEFINE s == RemoveSteps[step]
<1>1. step \in 1 .. 7 /\ held \subseteq All
  BY DEF Phases, HeldInv
<1>2. \A k \in 1 .. 7 : k < step => held \cap RemoveTakes(RemoveSteps[k]) = {}
  BY DEF HeldInv
<1>3. held' \subseteq held \ RemoveTakes(s)
  BY DEF RemoveStep
<1>4. CASE step = 7
  <2>1. s = "mmus" /\ step' = step /\ phase' = "unbound" /\ held' = (held \ RemoveTakes(s)) \ Managed
    BY <1>4, StepNames DEF RemoveStep
  <2>2. /\ held \cap RemoveTakes("debugfs") = {} /\ held \cap RemoveTakes("pkgDir") = {}
        /\ held \cap RemoveTakes("image") = {} /\ held \cap RemoveTakes("devices") = {}
        /\ held \cap RemoveTakes("files") = {} /\ held \cap RemoveTakes("fw") = {}
    BY <1>2, <1>4, StepNames
  <2>3. held' = {}
    BY <1>1, <2>1, <2>2 DEF RemoveTakes, Managed, Files, All
  <2> QED
    BY <2>1, <2>3, HeldUnbound
<1>5. CASE step # 7
  <2>1. phase' = "removing" /\ step' = step + 1 /\ held' = held \ RemoveTakes(s)
    BY <1>1, <1>5, StepNames DEF RemoveStep
  <2>2. ASSUME NEW k \in 1 .. 7, k < step'
        PROVE  held' \cap RemoveTakes(RemoveSteps[k]) = {}
    <3>1. k < step \/ k = step
      BY <1>1, <2>1, <2>2
    <3> QED
      BY <1>2, <2>1, <3>1
  <2>3. step' # 1
    BY <1>1, <2>1
  <2> QED
    BY <1>1, <2>1, <2>2, <2>3 DEF HeldInv, NothingHeldUnbound
<1> QED
  BY <1>4, <1>5

LEMMA HeldPci ==
  ASSUME Control, Phases, HeldInv,
         \/ Probe \/ ProbeStep \/ Probed \/ Remove \/ RemoveStep
         \/ Sleep \/ ResumeReset \/ Resume \/ ResumeGet \/ ResumeGot \/ Resumed
         \/ ResetPrepare \/ Reset \/ ResetDone
  PROVE  HeldInv'
<1>0. (at[Pci] \in Top => Base(Pci) = at[Pci]) /\ phase \in PhasesOf(Base(Pci)) /\ step \in 1 .. 18
  BY CoreAssumption, Where DEF Phases
<1>1. CASE Probe
  <2>1. phase' = "probing" /\ step' = 1 /\ held' = held \cap {"effFile"}
    BY <1>1 DEF Probe
  <2>2. held' \subseteq All
    BY <2>1 DEF HeldInv
  <2>3. Holding(step, held)'
    BY <2>1 DEF Holding
  <2> QED
    BY <2>1, <2>2, <2>3, HeldWhile
<1>2. CASE ProbeStep
  <2>1. at[Pci] = "probe" /\ phase = "probing"
    BY <1>0, <1>2, PciSteps, Backs DEF PhasesOf
  <2>2. CASE \E s \in {"ipcReset", "psysGet", "auth"} : ProbeCall(s)
    BY <2>2, HeldKept DEF ProbeCall, binding
  <2>3. CASE Acquire(ProbeSteps[step])
    BY <2>1, <2>3, HeldAcquire
  <2>4. CASE FailProbe(ProbeSteps[step])
    <3>1. phase' = "unbound" /\ step' = step /\ held' = Unwound(ProbeSteps[step], held)
      BY <2>4 DEF FailProbe
    <3> QED
      BY <1>0, <2>1, <3>1, HeldProbing, Unwinding, HeldUnbound
  <2> QED
    BY <1>2, <2>2, <2>3, <2>4, PciSteps
<1>3. CASE Probed
  BY <1>3, HeldProbed
<1>4. CASE Remove
  <2>1. held' = All /\ phase' = "removing" /\ step' = 1
    BY <1>4 DEF Remove, HeldInv
  <2> QED
    BY <2>1 DEF HeldInv, NothingHeldUnbound
<1>5. CASE RemoveStep
  <2>1. phase = "removing"
    BY <1>0, <1>5, PciSteps, Backs DEF PhasesOf
  <2> QED
    BY <1>5, <2>1, HeldRemove
<1>6. CASE Sleep \/ ResetPrepare
  <2>1. held' = All /\ phase' \in {"asleep", "resetting"}
    BY <1>6 DEF Sleep, ResetPrepare, HeldInv
  <2> QED
    BY <2>1, HeldWhole
<1>7. CASE ResumeGet \/ ResetDone
  <2>1. phase \in {"asleep", "resetting"}
    BY <1>0, <1>7, PciSteps, Backs DEF PhasesOf
  <2>2. held' = All /\ phase' = "bound"
    BY <1>7, <2>1 DEF ResumeGet, ResetDone, HeldInv
  <2> QED
    BY <2>2, HeldWhole
<1>8. CASE ResumeReset \/ Resume \/ ResumeGot \/ Resumed \/ Reset
  BY <1>8, HeldKept DEF ResumeReset, Resume, ResumeGot, Resumed, Reset, binding
<1> QED
  BY <1>1, <1>2, <1>3, <1>4, <1>5, <1>6, <1>7, <1>8

-----------------------------------------------------------------------------
(* References on psys, and who may rely on the device being active *)

LEMMA Counts ==
  ASSUME NEW H \in SUBSET Thread, NEW G \in SUBSET Thread, NEW t \in Thread
  PROVE  /\ IsFiniteSet(H) /\ Cardinality(H) \in Nat /\ Cardinality(G) \in Nat
         /\ G \subseteq H => Cardinality(G) <= Cardinality(H)
         /\ G \subseteq H \cup {t} => Cardinality(G) <= Cardinality(H) + 1
         /\ G \subseteq H \ {t} /\ t \in H => Cardinality(G) + 1 <= Cardinality(H)
         /\ H = {} => Cardinality(H) = 0
<1>1. IsFiniteSet(Thread)
  BY ButtressAssumption
<1>2. IsFiniteSet(H) /\ IsFiniteSet(G)
  BY <1>1, FS_Subset
<1>3. Cardinality(H) \in Nat /\ Cardinality(G) \in Nat
  BY <1>2, FS_CardinalityType
<1>4. G \subseteq H => Cardinality(G) <= Cardinality(H)
  BY <1>2, FS_Subset
<1>5. G \subseteq H \cup {t} => Cardinality(G) <= Cardinality(H) + 1
  <2>1. IsFiniteSet(H \cup {t}) /\ (Cardinality(H \cup {t}) = Cardinality(H)
                                    \/ Cardinality(H \cup {t}) = Cardinality(H) + 1)
    BY <1>2, FS_AddElement
  <2>2. G \subseteq H \cup {t} => Cardinality(G) <= Cardinality(H \cup {t})
    BY <2>1, FS_Subset
  <2>3. Cardinality(H \cup {t}) \in Nat
    BY <2>1, FS_CardinalityType
  <2> QED
    BY <1>3, <2>1, <2>2, <2>3
<1>6. G \subseteq H \ {t} /\ t \in H => Cardinality(G) + 1 <= Cardinality(H)
  <2> SUFFICES ASSUME G \subseteq H \ {t}, t \in H PROVE Cardinality(G) + 1 <= Cardinality(H)
    OBVIOUS
  <2>1. IsFiniteSet(H \ {t}) /\ Cardinality(H \ {t}) = Cardinality(H) - 1
    BY <1>2, FS_RemoveElement
  <2>2. Cardinality(G) <= Cardinality(H \ {t})
    BY <2>1, FS_Subset
  <2> QED
    BY <1>3, <2>1, <2>2
<1>7. H = {} => Cardinality(H) = 0
  BY FS_EmptySet
<1> QED
  BY <1>2, <1>3, <1>4, <1>5, <1>6, <1>7

\* The other threads hold what they held.
LEMMA OthersHold ==
  ASSUME Phases, NEW t \in Thread, Others(t), step' = step \/ t = Pci,
         NEW u \in Thread, u # t
  PROVE  (Holds(u)' <=> Holds(u)) /\ (Past(u)' <=> Past(u))
<1>1. at'[u] = at[u] /\ Base(u)' = Base(u)
  BY DEF Others
<1>2. CASE step' = step
  <2>1. Holds(u)' <=> Holds(u)
    BY <1>1, <1>2 DEF Holds
  <2> QED
    BY <1>1, <2>1 DEF Past
<1>3. CASE t = Pci
  <2>1. Base(u) \in DbgTop
    BY <1>3 DEF Phases, Debugfs
  <2>2. Holds(u)' <=> Holds(u)
    BY <1>1, <2>1 DEF Holds, DbgTop
  <2> QED
    BY <1>1, <2>2 DEF Past
<1> QED
  BY <1>2, <1>3

\* One thread takes a reference, gives one back or does neither.
LEMMA AwakeBy ==
  ASSUME Phases, Awake, NEW t \in Thread, Others(t), step' = step \/ t = Pci,
         \/ usage' = usage /\ (Holds(t)' => Holds(t))
         \/ usage' = usage + 1
         \/ usage' = usage - 1 /\ Holds(t) /\ ~ (Holds(t)'),
         rpm' \in {"suspended", "resuming", "active"},
         rpm = "active" => rpm' = "active",
         Past(t)' => rpm' = "active"
  PROVE  Awake'
<1> DEFINE H == Holders  G == {u \in Thread : Holds(u)'}
<1>1. H \in SUBSET Thread /\ G \in SUBSET Thread
  BY DEF Holders
<1>2. \A u \in Thread \ {t} : (Holds(u)' <=> Holds(u)) /\ (Past(u)' <=> Past(u))
  BY OthersHold
<1>3. Cardinality(H) \in Nat /\ Cardinality(G) \in Nat /\ Cardinality(H) <= usage /\ usage \in Nat
  BY <1>1, Counts DEF Awake
<1>4. usage' \in Nat /\ Cardinality(G) <= usage'
  <2>1. CASE usage' = usage /\ (Holds(t)' => Holds(t))
    <3>1. G \subseteq H
      BY <1>2, <2>1 DEF Holders
    <3>2. Cardinality(G) <= Cardinality(H)
      BY <1>1, <3>1, Counts
    <3> HIDE DEF G, H
    <3> QED
      BY <1>3, <2>1, <3>2
  <2>2. CASE usage' = usage + 1
    <3>1. G \subseteq H \cup {t}
      BY <1>2 DEF Holders
    <3>2. Cardinality(G) <= Cardinality(H) + 1
      BY <1>1, <3>1, Counts
    <3> HIDE DEF G, H
    <3> QED
      BY <1>3, <2>2, <3>2
  <2>3. CASE usage' = usage - 1 /\ Holds(t) /\ ~ (Holds(t)')
    <3>1. G \subseteq H \ {t} /\ t \in H
      BY <1>2, <2>3 DEF Holders
    <3>2. Cardinality(G) + 1 <= Cardinality(H)
      BY <1>1, <3>1, Counts
    <3> HIDE DEF G, H
    <3> QED
      BY <1>3, <2>3, <3>2
  <2> QED
    BY <2>1, <2>2, <2>3
<1>5. \A u \in Thread : Past(u)' => rpm' = "active"
  BY <1>2 DEF Awake
<1>6. Holders' = G
  BY DEF Holders
<1> QED
  BY <1>4, <1>5, <1>6 DEF Awake

\* Nobody has a reference.
LEMMA AwakeNone ==
  ASSUME \A u \in Thread : ~ (Holds(u)'), usage' \in Nat,
         rpm' \in {"suspended", "resuming", "active"}
  PROVE  Awake'
<1>1. Holders' = {}
  BY DEF Holders
<1>2. Cardinality(Holders') = 0
  BY <1>1, FS_EmptySet
<1>3. \A u \in Thread : ~ (Past(u)')
  BY DEF Past
<1> QED
  BY <1>2, <1>3 DEF Awake

LEMMA AwakeStands ==
  ASSUME Phases, Awake, Stands, UNCHANGED << step, usage, rpm >>
  PROVE  Awake'
<1>1. \A u \in Thread : (Holds(u)' <=> Holds(u)) /\ (Past(u)' <=> Past(u))
  BY DEF Stands, Holds, Past
<1>2. Holders' = Holders
  BY <1>1 DEF Holders
<1> QED
  BY <1>1, <1>2 DEF Awake

LEMMA AwakeTalks ==
  ASSUME Phases, Awake, NEW t \in Thread, Talks(t)
  PROVE  Awake'
<1>1. Others(t) /\ Base(t)' = Base(t) /\ UNCHANGED << step, usage, rpm >> /\ at[t] \in Auths \cup Sends
  BY DEF Talks, Within, core, binding, power
<1>2. at[t] # "getPsys" /\ at[t] \notin Wakes \cup Resets
  BY <1>1, Disjoint
<1>3. Holds(t)' => Holds(t)
  BY <1>1, <1>2 DEF Holds
<1>4. Past(t)' => Past(t)
  BY <1>2, <1>3 DEF Past
<1> QED
  BY <1>1, <1>3, <1>4, AwakeBy DEF Awake

LEMMA AwakeResetting ==
  ASSUME Phases, Awake, NEW t \in Thread, Resetting(t)
  PROVE  Awake'
<1>1. Others(t) /\ Base(t)' = Base(t) /\ UNCHANGED << step, usage, rpm >> /\ at[t] \in Resets
  BY DEF Resetting, Goes1, Comes, FromReset, Within, core, binding, power
<1>2. at[t] # "getPsys"
  BY <1>1, Disjoint
<1>3. Holds(t)' => Holds(t)
  BY <1>1, <1>2 DEF Holds
<1>4. ~ (Past(t)')
  <2>1. CASE at'[t] \in Wakes \cup Resets
    BY <2>1 DEF Past
  <2>2. CASE Base(t) \in ResetBack /\ Head(callers[t]) = Base(t)
    <3>1. CASE t = Pci
      <4>1. Base(t) = "probed" => step = 5
        BY <1>1, <2>2, <3>1 DEF Phases
      <4> QED
        BY <1>1, <2>2, <4>1 DEF Past, Holds, ResetBack
    <3>2. CASE t # Pci
      BY <2>2, <3>2 DEF Phases, Debugfs, DbgTop, ResetBack
    <3> QED
      BY <3>1, <3>2
  <2> QED
    BY <2>1, <2>2, Disjoint DEF Resetting, Goes1, Comes, FromReset
<1> QED
  BY <1>1, <1>3, <1>4, AwakeBy DEF Awake

LEMMA AwakePower ==
  ASSUME Control, Phases, Awake, NEW t \in Thread,
         GetPsys(t) \/ Wake(t) \/ Woken(t) \/ PowerPsys(t)
  PROVE  Awake'
<1>1. Others(t) /\ Base(t)' = Base(t) /\ step' = step
  BY PowerSteps DEF FromWake, Within, GetPsys, Wake, Woken, PowerPsys, binding
<1>2. rpm \in {"suspended", "resuming", "active"} /\ (Past(t) => rpm = "active")
  BY DEF Awake
<1>3. CASE GetPsys(t)
  <2>1. at'[t] \in Wakes /\ rpm' = rpm /\ usage' = usage + 1
    BY <1>3, PowerSteps, Disjoint DEF GetPsys
  <2> QED
    BY <1>1, <1>2, <2>1, AwakeBy DEF Past
<1>4. CASE Wake(t)
  <2>1. at[t] = "wake" /\ usage' = usage
    BY <1>4, PowerSteps DEF Wake
  <2>2. Holds(t)' => Holds(t)
    BY <1>1, <2>1 DEF Holds
  <2>3. CASE rpm = "active"
    <3>1. rpm' = rpm
      BY <1>4, <2>3 DEF Wake
    <3> QED
      BY <1>1, <1>2, <2>1, <2>2, <2>3, <3>1, AwakeBy
  <2>4. CASE rpm # "active"
    <3>1. rpm' = "resuming" /\ at'[t] \in Wakes \cup Resets
      BY <1>4, <2>4, PowerSteps, Disjoint DEF Wake
    <3> QED
      BY <1>1, <2>1, <2>2, <2>4, <3>1, AwakeBy DEF Past
  <2> QED
    BY <2>3, <2>4
<1>5. CASE Woken(t)
  <2>1. at[t] = "woken" /\ usage' = usage /\ rpm' = "active"
    BY <1>5, PowerSteps DEF Woken, power
  <2>2. Holds(t)' => Holds(t)
    BY <1>1, <2>1 DEF Holds
  <2> QED
    BY <1>1, <2>1, <2>2, AwakeBy
<1>6. CASE PowerPsys(t)
  <2>1. at[t] = "powerPsys" /\ usage' = usage /\ rpm' = rpm
    BY <1>6, PowerSteps DEF PowerPsys, power
  <2>2. Holds(t)' => Holds(t)
    BY <1>1, <2>1 DEF Holds
  <2>3. at[t] \notin Wakes \cup Resets
    BY <2>1, Disjoint
  <2>4. Past(t)' => Past(t)
    BY <2>2, <2>3 DEF Past
  <2> QED
    BY <1>1, <1>2, <2>1, <2>2, <2>4, AwakeBy
<1> QED
  BY <1>3, <1>4, <1>5, <1>6

LEMMA AwakeSuspend ==
  ASSUME Control, Awake, RuntimeSuspend
  PROVE  Awake'
<1>1. usage = 0 /\ usage' = 0 /\ UNCHANGED << control, step >> /\ rpm' = "suspended"
  BY DEF RuntimeSuspend, binding
<1>2. Stands
  BY <1>1, Standing
<1>3. Holders = {}
  <2>1. Holders \in SUBSET Thread /\ Cardinality(Holders) <= 0
    BY <1>1 DEF Holders, Awake
  <2> SUFFICES ASSUME NEW u \in Holders PROVE FALSE
    OBVIOUS
  <2>2. Cardinality(Holders) \in Nat /\ Cardinality(Holders) = 0 + Cardinality(Holders)
    BY <2>1, Counts DEF Holders
  <2>3. {} \subseteq Holders \ {u} /\ u \in Thread /\ {} \in SUBSET Thread
    BY DEF Holders
  <2>4. Cardinality({}) + 1 <= Cardinality(Holders) /\ Cardinality({}) \in Nat
    BY <2>1, <2>3, Counts
  <2> QED
    BY <2>1, <2>2, <2>4
<1>4. \A u \in Thread : ~ Holds(u)
  BY <1>3 DEF Holders
<1>5. \A u \in Thread : ~ (Holds(u)')
  BY <1>1, <1>2, <1>4 DEF Stands, Holds
<1> QED
  BY <1>1, <1>5, AwakeNone

LEMMA AwakeDebugfs ==
  ASSUME Control, Phases, Awake, NEW t \in Debugfs,
         FwAuthenticate(t) \/ DbgGot(t) \/ DbgDone(t)
  PROVE  Awake'
<1>1. t \in Thread /\ t # Pci /\ rpm' = rpm /\ step' = step
  BY DEF Debugfs, FwAuthenticate, DbgGot, DbgDone, binding
<1>2. rpm \in {"suspended", "resuming", "active"} /\ (Past(t) => rpm = "active")
  BY <1>1 DEF Awake
<1>3. CASE FwAuthenticate(t)
  <2>1. Others(t) /\ at'[t] = "getPsys" /\ Base(t)' = "dbgGot" /\ usage' = usage
    BY <1>1, <1>3, DbgSteps DEF Enters, FwAuthenticate, power
  <2>2. ~ (Holds(t)')
    BY <2>1 DEF Holds
  <2> QED
    BY <1>1, <1>2, <2>1, <2>2, AwakeBy DEF Past
<1>4. CASE DbgGot(t)
  <2>1. Others(t) /\ at[t] = "dbgGot" /\ Base(t) = "dbgGot" /\ usage' = usage
    BY <1>1, <1>4, DbgSteps, Where, Backs DEF Enters, Turns, DbgGot, power
  <2>2. Holds(t) /\ Past(t)
    BY <2>1, Disjoint, Backs DEF Holds, Past, Wakes, Resets
  <2> QED
    BY <1>1, <1>2, <2>1, <2>2, AwakeBy
<1>5. CASE DbgDone(t)
  <2>1. Others(t) /\ Base(t) = "dbgDone" /\ Base(t)' = "idle"
    BY <1>1, <1>5, DbgSteps, Where, Backs DEF Turns
  <2>2. Holds(t) /\ ~ (Holds(t)')
    BY <2>1 DEF Holds
  <2>3. usage' = usage - 1 \/ usage' = usage
    BY <1>5 DEF DbgDone
  <2> QED
    BY <1>1, <1>2, <2>1, <2>2, <2>3, AwakeBy DEF Past
<1> QED
  BY <1>3, <1>4, <1>5

LEMMA AwakeProbeStep ==
  ASSUME Control, Phases, Awake, ProbeStep
  PROVE  Awake'
<1>0. /\ Pci \in Thread /\ at[Pci] = "probe" /\ Base(Pci) = "probe" /\ step \in 1 .. 18
      /\ rpm \in {"suspended", "resuming", "active"} /\ phase = "probing"
      /\ \A t \in Debugfs : Base(t) = "idle"
  <2>1. Pci \in Thread /\ at[Pci] = "probe" /\ Base(Pci) = "probe" /\ step \in 1 .. 18
    BY CoreAssumption, PciSteps, Where, Backs DEF Phases
  <2>2. phase = "probing"
    BY <2>1 DEF Phases, PhasesOf
  <2> QED
    BY <2>1, <2>2, DebugfsIdle DEF Awake
<1>1. step \in 13 .. 17 => Holds(Pci) /\ Past(Pci) /\ rpm = "active"
  BY <1>0 DEF Holds, Past, Wakes, Resets, Awake
<1>2. CASE \E s \in {"ipcReset", "psysGet", "auth"} :
             /\ s = ProbeSteps[step] /\ ProbeCall(s)
             /\ Enters(Pci, IF s = "ipcReset" THEN "reset"
                            ELSE IF s = "psysGet" THEN "getPsys" ELSE "authenticate", "probed")
  <2>1. PICK s \in {"ipcReset", "psysGet", "auth"} :
             /\ s = ProbeSteps[step] /\ ProbeCall(s)
             /\ Enters(Pci, IF s = "ipcReset" THEN "reset"
                            ELSE IF s = "psysGet" THEN "getPsys" ELSE "authenticate", "probed")
    BY <1>2
  <2>2. Others(Pci) /\ Base(Pci)' = "probed" /\ UNCHANGED << step, usage, rpm >>
    BY <2>1 DEF Enters, ProbeCall, binding
  <2>3. CASE s = "auth"
    <3>1. step = 16
      BY <1>0, <2>1, <2>3, CallSteps
    <3> QED
      BY <1>0, <1>1, <2>2, <3>1, AwakeBy
  <2>4. CASE s \in {"ipcReset", "psysGet"}
    <3>1. step = 5 \/ (step = 12 /\ at'[Pci] = "getPsys")
      BY <1>0, <2>1, <2>4, CallSteps DEF Enters
    <3>2. ~ (Holds(Pci)')
      BY <2>2, <3>1 DEF Holds
    <3> QED
      BY <1>0, <2>2, <3>2, AwakeBy DEF Past
  <2> QED
    BY <2>3, <2>4
<1>3. CASE /\ ProbeSteps[step] \notin {"ipcReset", "psysGet", "auth"} /\ Acquire(ProbeSteps[step])
           /\ IF step = Len(ProbeSteps) THEN Turns(Pci, "idle") ELSE Stands
  <2>1. /\ Others(Pci) /\ rpm' = rpm
        /\ IF step = 18 THEN Base(Pci)' = "idle" /\ step' = step
           ELSE Base(Pci)' = "probe" /\ step' = step + 1
    BY <1>0, <1>3, StepNames DEF Acquire, Turns, Stands, Others
  <2>2. step \notin {5, 12, 16}
    BY <1>3, StepNames
  <2>3. CASE step = 17
    <3>1. usage' = usage - 1 /\ ~ (Holds(Pci)')
      BY <1>3, <2>1, <2>3, StepNames DEF Acquire, Holds
    <3> QED
      BY <1>0, <1>1, <2>1, <2>3, <3>1, AwakeBy DEF Past
  <2>4. CASE step # 17
    <3>1. usage' = usage
      BY <1>0, <1>3, <2>4, CallSteps DEF Acquire
    <3>2. Holds(Pci)' => step \in 13 .. 17
      BY <1>0, <2>1, <2>2, <2>4 DEF Holds
    <3> QED
      BY <1>0, <1>1, <2>1, <3>1, <3>2, AwakeBy DEF Past
  <2> QED
    BY <2>3, <2>4
<1>4. CASE FailProbe(ProbeSteps[step]) /\ Turns(Pci, "idle")
  <2>1. \A u \in Thread : Base(u)' = "idle"
    BY <1>0, <1>4 DEF Turns, Others, Debugfs
  <2>2. \A u \in Thread : ~ (Holds(u)')
    BY <2>1 DEF Holds
  <2>3. usage' = 0 /\ rpm' = rpm
    BY <1>4 DEF FailProbe
  <2> QED
    BY <1>0, <2>2, <2>3, AwakeNone
<1> QED
  BY <1>2, <1>3, <1>4, PciSteps

LEMMA AwakePci ==
  ASSUME Control, Phases, Awake,
         \/ Probe \/ ProbeStep \/ Probed \/ Remove \/ RemoveStep
         \/ Sleep \/ ResumeReset \/ Resume \/ ResumeGet \/ ResumeGot \/ Resumed
         \/ ResetPrepare \/ Reset \/ ResetDone
  PROVE  Awake'
<1>0. /\ Pci \in Thread /\ (at[Pci] \in Top => Base(Pci) = at[Pci])
      /\ phase \in PhasesOf(Base(Pci)) /\ step \in 1 .. 18
      /\ rpm \in {"suspended", "resuming", "active"}
      /\ (Past(Pci) => rpm = "active")
  BY CoreAssumption, Where DEF Phases, Awake
<1>1. ASSUME Others(Pci), ~ (Holds(Pci)'), usage' = usage, rpm' = rpm
      PROVE  Awake'
  BY <1>0, <1>1, AwakeBy DEF Past
<1>2. ASSUME \A u \in Debugfs : Base(u) = "idle", Others(Pci), ~ (Holds(Pci)'), usage' = 0, rpm' = rpm
      PROVE  Awake'
  <2>1. \A u \in Thread \ {Pci} : Base(u)' = "idle"
    BY <1>2 DEF Others, Debugfs
  <2>2. \A u \in Thread : ~ (Holds(u)')
    BY <1>2, <2>1 DEF Holds
  <2> QED
    BY <1>0, <1>2, <2>2, AwakeNone
<1>3. CASE Probe
  <2>1. Others(Pci) /\ Base(Pci)' = "probe" /\ step' = 1 /\ usage' = usage /\ rpm' = "active"
    BY <1>3, PciSteps DEF Turns, Probe
  <2>2. ~ (Holds(Pci)')
    BY <2>1 DEF Holds
  <2> QED
    BY <1>0, <2>1, <2>2, AwakeBy
<1>4. CASE ProbeStep
  BY <1>4, AwakeProbeStep
<1>5. CASE Probed
  <2>1. at[Pci] = "probed" /\ Base(Pci) = "probed" /\ phase = "probing" /\ rpm' = rpm
    BY <1>0, <1>5, PciSteps, Backs DEF PhasesOf, Probed
  <2>2. step \in {5, 12, 16}
    BY <2>1, Disjoint, Backs DEF Phases, CallStepOf
  <2>3. CASE phase' = phase /\ Turns(Pci, "probe")
    <3>1. Others(Pci) /\ Base(Pci)' = "probe" /\ usage' = usage
          /\ (step' = step + 1 \/ (step' = step /\ ProbeSteps[step] = "ipcReset"))
      BY <1>5, <2>1, <2>3 DEF Turns, Probed
    <3>2. step' = step => step = 5
      BY <1>0, <3>1, CallSteps
    <3>3. Holds(Pci)' => Holds(Pci) /\ Past(Pci)
      <4>1. Holds(Pci)' => step \in {12, 16}
        BY <2>2, <3>1, <3>2 DEF Holds
      <4>2. step \in {12, 16} => Holds(Pci)
        BY <2>1 DEF Holds
      <4> QED
        BY <2>1, <4>1, <4>2 DEF Past, Wakes, Resets
    <3> QED
      BY <1>0, <2>1, <3>1, <3>3, AwakeBy DEF Past
  <2>4. CASE phase' = "unbound" /\ Turns(Pci, "idle")
    <3>1. usage' = 0 /\ Others(Pci) /\ Base(Pci)' = "idle"
      BY <1>5, <2>1, <2>4 DEF Probed, Turns
    <3> QED
      BY <1>2, <2>1, <3>1, DebugfsIdle DEF Holds
  <2> QED
    BY <1>5, <2>3, <2>4, PciSteps
<1>6. CASE Remove
  <2>1. Others(Pci) /\ Base(Pci)' = "remove" /\ usage' = usage /\ rpm' = rpm
    BY <1>6, PciSteps DEF Turns, Remove, power
  <2> QED
    BY <1>1, <2>1 DEF Holds
<1>7. CASE RemoveStep
  <2>1. /\ at[Pci] = "remove" /\ Base(Pci) = "remove" /\ phase = "removing"
        /\ rpm' = rpm /\ step \in 1 .. 7
    BY <1>0, <1>7, PciSteps, Backs DEF PhasesOf, RemoveStep, Phases
  <2>2. Others(Pci) /\ Base(Pci)' \in {"remove", "idle"}
    BY <1>0, <1>7, <2>1, PciSteps DEF Stands, Turns, Others
  <2>3. CASE RemoveSteps[step] = "devices"
    <3>1. step # 1
      BY <2>3, StepNames
    <3>2. usage' = 0
      BY <1>7, <2>3 DEF RemoveStep
    <3> QED
      BY <1>2, <2>1, <2>2, <3>1, <3>2, DebugfsIdle DEF Holds
  <2>4. CASE RemoveSteps[step] # "devices"
    <3>1. usage' = usage
      BY <1>7, <2>4 DEF RemoveStep
    <3> QED
      BY <1>1, <2>1, <2>2, <3>1 DEF Holds
  <2> QED
    BY <2>3, <2>4
<1>8. CASE Sleep \/ ResetPrepare
  <2>1. Others(Pci) /\ Base(Pci)' \in {"sleep", "flr"} /\ usage' = usage /\ rpm' = rpm
    BY <1>8, PciSteps DEF Enters, Sleep, ResetPrepare, power
  <2> QED
    BY <1>1, <2>1 DEF Holds
<1>9. CASE ResumeReset \/ Resume
  <2>1. Others(Pci) /\ Base(Pci)' \in {"resume", "resumeGet"} /\ usage' = usage /\ rpm' = rpm
    BY <1>9, PciSteps DEF Enters, Turns, ResumeReset, Resume
  <2> QED
    BY <1>1, <2>1 DEF Holds
<1>10. CASE ResumeGet
  <2>1. Others(Pci) /\ Base(Pci)' = "resumeGot" /\ at'[Pci] = "getPsys" /\ usage' = usage /\ rpm' = rpm
    BY <1>10, PciSteps DEF Enters, ResumeGet, power
  <2> QED
    BY <1>1, <2>1 DEF Holds
<1>11. CASE ResumeGot
  <2>1. /\ Base(Pci) = "resumeGot" /\ at[Pci] = "resumeGot" /\ Others(Pci)
        /\ usage' = usage /\ rpm' = rpm
    BY <1>0, <1>11, PciSteps, Backs DEF Enters, Turns, ResumeGot, power
  <2>2. Holds(Pci) /\ Past(Pci)
    BY <2>1 DEF Holds, Past, Wakes, Resets
  <2> QED
    BY <1>0, <2>1, <2>2, AwakeBy
<1>12. CASE Resumed
  <2>1. /\ Base(Pci) = "resumed" /\ Others(Pci) /\ Base(Pci)' = "idle"
        /\ (usage' = IF usage > 0 THEN usage - 1 ELSE 0) /\ rpm' = rpm
    BY <1>0, <1>12, PciSteps, Backs DEF Turns, Resumed
  <2>2. Holds(Pci) /\ ~ (Holds(Pci)')
    BY <2>1 DEF Holds
  <2>3. usage' = usage - 1 \/ usage' = usage
    BY <2>1 DEF Awake
  <2> QED
    BY <1>0, <2>1, <2>2, <2>3, AwakeBy DEF Past
<1>13. CASE Reset \/ ResetDone
  <2>1. Others(Pci) /\ Base(Pci)' \in {"flrDone", "idle"} /\ usage' = usage /\ rpm' = rpm
    BY <1>13, PciSteps DEF Turns, Reset, ResetDone
  <2> QED
    BY <1>1, <2>1 DEF Holds
<1> QED
  BY <1>3, <1>4, <1>5, <1>6, <1>7, <1>8, <1>9, <1>10, <1>11, <1>12, <1>13

-----------------------------------------------------------------------------
(* The IPC session with the CSE *)

LEMMA SessionsKept ==
  ASSUME Sessions, UNCHANGED << phase, step >>, Base(Pci)' = Base(Pci), stale' => stale,
         ipcReinit' = ipcReinit \/ (stale' => ~ ipcReinit)
  PROVE  Sessions'
BY DEF Sessions

LEMMA SessionsThread ==
  ASSUME Control, Phases, Sessions, NEW t \in Thread,
         \/ Talks(t) \/ Resetting(t) \/ GetPsys(t) \/ Wake(t) \/ Woken(t) \/ PowerPsys(t)
         \/ t # Pci /\ (FwAuthenticate(t) \/ DbgGot(t) \/ DbgDone(t))
  PROVE  Sessions'
<1>0. Pci \in Thread
  BY CoreAssumption
<1>1. CASE Talks(t) \/ Resetting(t)
  <2>1. Within(t) /\ UNCHANGED << phase, step, stale, ipcReinit >>
    BY <1>1 DEF Talks, Resetting, Goes1, Comes, FromReset, core, binding, power
  <2> QED
    BY <1>0, <2>1, Shapes, SessionsKept
<1>2. CASE GetPsys(t) \/ Woken(t) \/ PowerPsys(t)
  <2>1. Within(t) /\ UNCHANGED << phase, step, stale, ipcReinit >>
    BY <1>2, PowerSteps DEF FromWake, GetPsys, Woken, PowerPsys, binding, power
  <2> QED
    BY <1>0, <2>1, Shapes, SessionsKept
<1>3. CASE Wake(t)
  <2>1. Within(t) /\ UNCHANGED << phase, step >>
    BY <1>3, PowerSteps DEF FromWake, Wake, binding
  <2>2. (stale' => stale) /\ (ipcReinit' = ipcReinit \/ (stale' => ~ ipcReinit))
    BY <1>3 DEF Wake
  <2> QED
    BY <1>0, <2>1, <2>2, Shapes, SessionsKept
<1>4. CASE t # Pci /\ (FwAuthenticate(t) \/ DbgGot(t) \/ DbgDone(t))
  <2>1. Others(t) /\ UNCHANGED << phase, step, stale, ipcReinit >>
    BY <1>4, DbgSteps DEF Enters, Turns, FwAuthenticate, DbgGot, DbgDone, binding, power
  <2> QED
    BY <1>0, <1>4, <2>1, SessionsKept DEF Others
<1> QED
  BY <1>1, <1>2, <1>3, <1>4

LEMMA SessionsStands ==
  ASSUME Sessions, Stands, UNCHANGED << phase, step, stale, ipcReinit >>
  PROVE  Sessions'
BY CoreAssumption, SessionsKept DEF Stands

LEMMA SessionsPci ==
  ASSUME Control, Phases, Sessions,
         \/ Probe \/ ProbeStep \/ Probed \/ Remove \/ RemoveStep
         \/ Sleep \/ ResumeReset \/ Resume \/ ResumeGet \/ ResumeGot \/ Resumed
         \/ ResetPrepare \/ Reset \/ ResetDone
  PROVE  Sessions'
<1>0. /\ Pci \in Thread /\ (at[Pci] \in Top => Base(Pci) = at[Pci])
      /\ phase \in PhasesOf(Base(Pci)) /\ step \in 1 .. 18
  BY CoreAssumption, Where DEF Phases
<1>1. CASE Probe
  <2>1. step' = 1 /\ phase' = "probing" /\ Base(Pci)' = "probe"
    BY <1>1, PciSteps DEF Probe, Turns
  <2>2. ~ (step' > 5)
    BY <2>1
  <2> QED
    BY <2>1, <2>2 DEF Sessions
<1>2. CASE ProbeStep
  <2>1. at[Pci] = "probe" /\ Base(Pci) = "probe" /\ phase = "probing"
    BY <1>0, <1>2, PciSteps, Backs DEF PhasesOf
  <2>2. CASE \E s \in {"ipcReset", "psysGet", "auth"} :
               /\ s = ProbeSteps[step] /\ ProbeCall(s) /\ Base(Pci)' = "probed"
    <3>1. PICK s \in {"ipcReset", "psysGet", "auth"} :
               /\ s = ProbeSteps[step] /\ ProbeCall(s) /\ Base(Pci)' = "probed"
      BY <2>2
    <3>2. UNCHANGED << phase, step >> /\ (stale' <=> stale /\ s # "ipcReset")
      BY <3>1 DEF ProbeCall, binding
    <3>3. IF s = "ipcReset" THEN step = 5 ELSE step \in {12, 16}
      BY <1>0, <3>1, CallSteps
    <3> QED
      BY <2>1, <3>1, <3>2, <3>3 DEF Sessions
  <2>3. CASE /\ ProbeSteps[step] \notin {"ipcReset", "psysGet", "auth"} /\ Acquire(ProbeSteps[step])
             /\ IF step = Len(ProbeSteps) THEN Turns(Pci, "idle") ELSE Stands
    <3>1. stale' = stale /\ Base(Pci)' \in {"idle", "probe"}
      BY <1>0, <2>1, <2>3 DEF Acquire, Turns, Stands
    <3>2. step # 5
      BY <2>3, StepNames
    <3>3. CASE step = 18
      BY <2>1, <2>3, <3>1, <3>3, StepNames DEF Acquire, Sessions
    <3>4. CASE step # 18
      <4>1. phase' = "probing" /\ step' = step + 1
        BY <2>1, <2>3, <3>4, StepNames DEF Acquire
      <4>2. step' > 5 => step > 5
        BY <1>0, <3>2, <4>1
      <4> QED
        BY <2>1, <3>1, <4>1, <4>2 DEF Sessions
    <3> QED
      BY <3>3, <3>4
  <2>4. CASE FailProbe(ProbeSteps[step]) /\ Turns(Pci, "idle")
    BY <2>4 DEF FailProbe, Turns, Sessions
  <2> QED
    BY <1>2, <2>2, <2>3, <2>4, PciSteps DEF Enters
<1>3. CASE Probed
  <2>1. at[Pci] = "probed" /\ Base(Pci) = "probed" /\ phase = "probing" /\ stale' = stale
    BY <1>0, <1>3, PciSteps, Backs DEF PhasesOf, Probed
  <2>2. step \in {5, 12, 16}
    BY <2>1, Disjoint, Backs DEF Phases, CallStepOf
  <2>3. ~ stale
    BY <2>1, <2>2 DEF Sessions
  <2> QED
    BY <1>3, <2>1, <2>3 DEF Sessions
<1>4. CASE Remove \/ Sleep \/ ResetPrepare
  BY <1>4, PciSteps DEF Sessions, Remove, Sleep, ResetPrepare, Turns, Enters
<1>5. CASE RemoveStep
  <2>1. at[Pci] = "remove" /\ Base(Pci) = "remove" /\ phase = "removing"
    BY <1>0, <1>5, PciSteps, Backs DEF PhasesOf
  <2>2. Base(Pci)' \in {"remove", "idle"} /\ phase' \in {"removing", "unbound"}
    BY <1>0, <1>5, <2>1, PciSteps DEF Stands, Turns, RemoveStep
  <2> QED
    BY <2>2 DEF Sessions
<1>6. CASE ResumeReset \/ Reset
  <2>1. phase \in {"asleep", "resetting"} /\ phase' = phase
    BY <1>0, <1>6, PciSteps, Backs DEF PhasesOf, ResumeReset, Reset, binding
  <2>2. Base(Pci)' \in {"resume", "flrDone"}
    BY <1>6, PciSteps DEF Turns
  <2> QED
    BY <2>1, <2>2 DEF Sessions
<1>7. CASE Resume
  BY <1>7 DEF Resume, Sessions
<1>8. CASE ResumeGet
  <2>1. Base(Pci) = "resumeGet" /\ Base(Pci)' = "resumeGot" /\ phase' = "bound" /\ stale' = stale
    BY <1>0, <1>8, PciSteps, Backs DEF Enters, ResumeGet, power
  <2> QED
    BY <2>1 DEF Sessions
<1>9. CASE ResumeGot \/ Resumed
  <2>1. /\ UNCHANGED << phase, step, stale, ipcReinit >>
        /\ Base(Pci) \in {"resumeGot", "resumed"} /\ Base(Pci)' \in {"resumed", "idle"}
    BY <1>0, <1>9, PciSteps, Backs DEF Enters, Turns, ResumeGot, Resumed, binding, power
  <2>2. phase = "bound"
    BY <1>0, <2>1 DEF PhasesOf
  <2> QED
    BY <2>1, <2>2 DEF Sessions
<1>10. CASE ResetDone
  BY <1>10, PciSteps DEF Sessions, ResetDone, Turns
<1> QED
  BY <1>1, <1>2, <1>3, <1>4, <1>5, <1>6, <1>7, <1>8, <1>9, <1>10

-----------------------------------------------------------------------------
(* Commands: who holds auth_mutex sends them *)

\* A step of a thread that does not authenticate: nothing of the CSE changes.
Apart(t) ==
  /\ Others(t) /\ ~ InAuth(t) /\ ~ (InAuth(t)')
  /\ UNCHANGED << authMutex, cmd, secure, door, jobs, setup, gaveUp, verdict >>
  /\ Waits(t) => Waits(t)'

LEMMA OthersAuth ==
  ASSUME NEW t \in Thread, Others(t), NEW u \in Thread, u # t
  PROVE  /\ InAuth(u)' <=> InAuth(u)
         /\ Waits(u)' <=> Waits(u)
BY DEF Others, InAuth, Waits

\* A step of one thread.
LEMMA CommandsBy ==
  ASSUME Commands, NEW t \in Thread, Others(t), secure' = secure,
         \A u \in Thread : u # t => cmd'[u] = cmd[u] /\ (authMutex' = u <=> authMutex = u),
         cmd' \in [Thread -> Command \cup {NoCommand}], authMutex' \in Thread \cup {Free},
         authMutex' = t <=> InAuth(t)', InAuth(t)' => secure,
         ~ (InAuth(t)') => cmd'[t] = NoCommand,
         at'[t] \in Sends => cmd'[t] = IF Head(callers'[t]) = "booted" THEN "boot" ELSE "run",
         at'[t] \in {"booted", "magic"} => cmd'[t] = "boot",
         at'[t] = "ran" => cmd'[t] = "run",
         at'[t] \in {"poll", "reread"} => cmd'[t] \in Command
  PROVE  Commands'
<1>1. ASSUME NEW u \in Thread, u # t
      PROVE  /\ authMutex' = u <=> InAuth(u)'
             /\ InAuth(u)' => secure'
             /\ ~ (InAuth(u)') => cmd'[u] = NoCommand
             /\ at'[u] \in Sends => cmd'[u] = IF Head(callers'[u]) = "booted" THEN "boot" ELSE "run"
             /\ at'[u] \in {"booted", "magic"} => cmd'[u] = "boot"
             /\ at'[u] = "ran" => cmd'[u] = "run"
             /\ at'[u] \in {"poll", "reread"} => cmd'[u] \in Command
  <2>1. InAuth(u)' <=> InAuth(u)
    BY <1>1, OthersAuth
  <2>2. at'[u] = at[u] /\ callers'[u] = callers[u] /\ cmd'[u] = cmd[u]
    BY <1>1 DEF Others
  <2> QED
    BY <1>1, <2>1, <2>2 DEF Commands
<1> QED
  BY <1>1 DEF Commands

LEMMA CommandsApart ==
  ASSUME Commands, NEW t \in Thread, Apart(t)
  PROVE  Commands'
<1>1. /\ at'[t] \notin Sends /\ at'[t] \notin {"booted", "magic", "ran", "poll", "reread"}
  BY DEF Apart, InAuth, Auths
<1> QED
  BY <1>1, CommandsBy DEF Apart, Commands

LEMMA CommandsStands ==
  ASSUME Commands, Stands, UNCHANGED << authMutex, cmd, secure >>
  PROVE  Commands'
BY DEF Stands, Commands, InAuth

\* Inside an authentication.
LEMMA CommandsInside ==
  ASSUME Commands, NEW t \in Thread, Within(t), UNCHANGED << authMutex, cmd, secure >>,
         InAuth(t), InAuth(t)',
         at'[t] \in Sends => at[t] \in Sends /\ callers'[t] = callers[t],
         at'[t] \in {"booted", "magic"} => cmd[t] = "boot",
         at'[t] = "ran" => cmd[t] = "run",
         at'[t] \in {"poll", "reread"} => cmd[t] \in Command
  PROVE  Commands'
BY CommandsBy DEF Commands, Within

LEMMA CommandsAuth ==
  ASSUME Control, Commands, NEW t \in Thread, AuthActions(t)
  PROVE  Commands'
<1>0. /\ \A s \in {"booted", "ran", "poll", "reread", "magic", "endAuth"} :
           s \in Auths \ {"authenticate"} /\ s \notin Sends
      /\ \A s \in {"send", "ring", "sent", "received", "closeMailbox"} : s \in Sends
      /\ cmd \in [Thread -> Command \cup {NoCommand}] /\ NoCommand \notin Command
  BY DEF Auths, Sends, Commands, NoCommand, Command
<1>1. CASE OpenMailbox(t) \/ Ring(t) \/ AwaitTaken(t)
  <2>1. /\ at[t] \in Sends /\ at'[t] \in {"ring", "sent", "received", "closeMailbox"}
        /\ Within(t) /\ callers'[t] = callers[t] /\ UNCHANGED << authMutex, cmd, secure >>
    BY <1>1, <1>0, SendSteps DEF Goes1, Decides1, Comes, OpenMailbox, Ring, AwaitTaken, locks
  <2> QED
    BY <1>0, <2>1, CommandsInside DEF InAuth
<1>2. CASE NotTaken(t) \/ AwaitAnswer(t)
  <2>1. /\ at[t] \in Sends /\ at'[t] \in {"ring", "closeMailbox"}
        /\ Within(t) /\ callers'[t] = callers[t] /\ UNCHANGED << authMutex, cmd, secure >>
    BY <1>2, <1>0, SendSteps DEF Goes1, Decides1, Comes, NotTaken, AwaitAnswer, locks
  <2> QED
    BY <1>0, <2>1, CommandsInside DEF InAuth
<1>3. CASE CloseMailbox(t)
  <2>1. /\ at[t] \in Sends /\ at'[t] = Head(callers[t]) /\ at'[t] \in {"booted", "ran"}
        /\ Within(t) /\ UNCHANGED << authMutex, cmd, secure >>
    BY <1>3, <1>0, SendSteps DEF Comes, CloseMailbox
  <2>2. cmd[t] = IF Head(callers[t]) = "booted" THEN "boot" ELSE "run"
    BY <2>1 DEF Commands
  <2> QED
    BY <1>0, <2>1, <2>2, CommandsInside DEF InAuth
<1>4. CASE Sent(t)
  <2>1. /\ at[t] \in {"booted", "ran"} /\ at'[t] \in {"poll", "endAuth"}
        /\ Within(t) /\ UNCHANGED << authMutex, cmd, secure >>
    BY <1>4, <1>0, AuthSteps DEF Goes1, Comes, Sent, locks
  <2>2. cmd[t] \in Command
    BY <2>1 DEF Commands, Command
  <2> QED
    BY <1>0, <2>1, <2>2, CommandsInside DEF InAuth
<1>5. CASE PollSetup(t)
  <2>1. /\ at[t] = "poll" /\ at'[t] \in {"reread", "endAuth"}
        /\ Within(t) /\ UNCHANGED << authMutex, cmd, secure >>
    BY <1>5, <1>0, AuthSteps DEF Goes1, Decides1, Comes, PollSetup, locks
  <2>2. cmd[t] \in Command
    BY <2>1 DEF Commands
  <2> QED
    BY <1>0, <2>1, <2>2, CommandsInside DEF InAuth
<1>6. CASE Reread(t)
  <2>1. /\ at[t] = "reread" /\ (at'[t] = "endAuth" \/ (at'[t] = "magic" /\ cmd[t] = "boot"))
        /\ Within(t) /\ UNCHANGED << authMutex, cmd, secure >>
    BY <1>6, <1>0, AuthSteps DEF Goes1, Decides1, Comes, Reread, locks
  <2> QED
    BY <1>0, <2>1, CommandsInside DEF InAuth
<1>7. CASE PollMagic(t)
  <2>1. at[t] = "magic" /\ Within(t) /\ UNCHANGED << authMutex, secure >>
    BY <1>7, AuthSteps DEF PollMagic, locks
  <2>2. InAuth(t)
    BY <1>0, <2>1 DEF InAuth
  <2>3. CASE magic
    <3>1. at'[t] = "send" /\ Head(callers'[t]) = "ran" /\ cmd' = [cmd EXCEPT ![t] = "run"]
      BY <1>7, <2>3, AuthSteps DEF PollMagic
    <3>2. /\ cmd'[t] = "run" /\ cmd' \in [Thread -> Command \cup {NoCommand}]
          /\ \A u \in Thread : u # t => cmd'[u] = cmd[u]
      BY <1>0, <3>1 DEF Command
    <3>3. InAuth(t)'
      BY <1>0, <3>1 DEF InAuth
    <3> QED
      BY <1>0, <2>1, <2>2, <3>1, <3>2, <3>3, CommandsBy DEF Commands, Within
  <2>4. CASE ~ magic
    <3>1. at'[t] = "endAuth" /\ cmd' = cmd
      BY <1>7, <2>4, AuthSteps DEF PollMagic, Decides1, Comes
    <3>2. InAuth(t)'
      BY <1>0, <3>1 DEF InAuth
    <3> QED
      BY <1>0, <2>1, <2>2, <3>1, <3>2, CommandsInside
  <2> QED
    BY <2>3, <2>4
<1>8. CASE EndAuth(t)
  <2>1. /\ at[t] = "endAuth" /\ Within(t) /\ at'[t] = Base(t) /\ secure' = secure
        /\ authMutex' = Free /\ cmd' = [cmd EXCEPT ![t] = NoCommand]
    BY <1>8, AuthSteps DEF EndAuth, Comes
  <2>2. InAuth(t) /\ authMutex = t
    BY <1>0, <2>1 DEF InAuth, Commands
  <2>3. at'[t] \in AuthBack
    BY <1>0, <2>1, Where
  <2>4. at'[t] \notin Sends \cup Auths
    BY <2>3, Backs, Disjoint DEF AuthBack
  <2>5. ~ (InAuth(t)') /\ at'[t] \notin {"booted", "magic", "ran", "poll", "reread"}
    BY <1>0, <2>4 DEF InAuth
  <2>6. /\ cmd'[t] = NoCommand /\ cmd' \in [Thread -> Command \cup {NoCommand}]
        /\ \A u \in Thread : u # t => cmd'[u] = cmd[u]
    BY <1>0, <2>1
  <2>7. authMutex' # t /\ \A u \in Thread : u # t => authMutex' # u /\ authMutex # u
    BY <2>1, <2>2, ButtressAssumption
  <2>8. authMutex' \in Thread \cup {Free}
    BY <2>1
  <2> QED
    BY <2>1, <2>4, <2>5, <2>6, <2>7, <2>8, CommandsBy DEF Within
<1>9. CASE Authenticate(t)
  <2>1. /\ at[t] = "authenticate" /\ at[t] \in Auths /\ Within(t) /\ secure' = secure
        /\ authMutex # t /\ ~ InAuth(t) /\ cmd[t] = NoCommand
    BY <1>9, AuthSteps, Disjoint DEF Authenticate, Commands, InAuth
  <2>2. CASE ~ secure
    <3>1. at'[t] = Base(t) /\ UNCHANGED << authMutex, cmd >>
      BY <1>9, <2>2, AuthSteps DEF Authenticate
    <3>2. at'[t] \in AuthBack
      BY <2>1, <3>1, Where
    <3>3. at'[t] \notin Sends \cup Auths
      BY <3>2, Backs, Disjoint DEF AuthBack
    <3>4. ~ (InAuth(t)') /\ at'[t] \notin {"booted", "magic", "ran", "poll", "reread"}
      BY <1>0, <3>3 DEF InAuth
    <3>5. authMutex' \in Thread \cup {Free} /\ authMutex' # t
      BY <2>1, <3>1 DEF Commands
    <3> QED
      BY <1>0, <2>1, <3>1, <3>3, <3>4, <3>5, CommandsBy DEF Within
  <2>3. CASE secure
    <3>1. authMutex = Free /\ authMutex' = t /\ \A u \in Thread : authMutex # u
      BY <1>9, <2>3, ButtressAssumption DEF Authenticate
    <3>2. CASE AuthDone
      <4>1. at'[t] = "endAuth" /\ cmd' = cmd
        BY <1>9, <2>3, <3>2, AuthSteps DEF Authenticate, Decides1, Comes
      <4>2. InAuth(t)'
        BY <1>0, <4>1 DEF InAuth
      <4> QED
        BY <1>0, <2>1, <2>3, <3>1, <4>1, <4>2, CommandsBy DEF Within
    <3>3. CASE ~ AuthDone
      <4>1. at'[t] = "send" /\ Head(callers'[t]) = "booted" /\ cmd' = [cmd EXCEPT ![t] = "boot"]
        BY <1>9, <2>3, <3>3, AuthSteps DEF Authenticate
      <4>2. /\ cmd'[t] = "boot" /\ cmd' \in [Thread -> Command \cup {NoCommand}]
            /\ \A u \in Thread : u # t => cmd'[u] = cmd[u]
        BY <1>0, <4>1 DEF Command
      <4>3. InAuth(t)'
        BY <1>0, <4>1 DEF InAuth
      <4> QED
        BY <1>0, <2>1, <2>3, <3>1, <4>1, <4>2, <4>3, CommandsBy DEF Within
    <3> QED
      BY <3>2, <3>3
  <2> QED
    BY <2>2, <2>3
<1> QED
  BY <1>1, <1>2, <1>3, <1>4, <1>5, <1>6, <1>7, <1>8, <1>9 DEF AuthActions

LEMMA ApartThreads ==
  ASSUME Control, gaveUp \in GaveUp, NEW t \in Thread,
         \/ BeginReset(t) \/ PollReset(t) \/ GetPsys(t) \/ Wake(t) \/ Woken(t) \/ PowerPsys(t)
         \/ DbgDone(t) \/ (DbgGot(t) /\ rc[t] = "ok")
  PROVE  Apart(t)
<1>0. \A a \in Top \cup Gets \cup Wakes \cup Resets \cup {"authenticate"} :
        a \notin Sends \cup (Auths \ {"authenticate"})
  BY Disjoint
<1>1. ASSUME Within(t), at[t] \in Gets \cup Wakes \cup Resets,
             at'[t] \in Top \cup Gets \cup Wakes \cup Resets,
             UNCHANGED << authMutex, cmd, secure, door, jobs, setup, gaveUp, verdict >>
      PROVE  Apart(t)
  BY <1>0, <1>1, Disjoint DEF Apart, InAuth, Waits, Within
<1>2. \A b \in GetBack \cup SleepBack \cup ResetBack : b \in Top
  BY DEF GetBack, SleepBack, ResetBack, Top, PciTop, DbgTop
<1>3. CASE BeginReset(t) \/ PollReset(t)
  BY <1>1, <1>2, <1>3, ResetSteps, Disjoint DEF Goes1, Comes, FromReset
<1>4. CASE GetPsys(t) \/ Wake(t) \/ Woken(t) \/ PowerPsys(t)
  <2>1. UNCHANGED << authMutex, cmd, secure, door, jobs, setup, gaveUp, verdict >>
    BY <1>4 DEF GetPsys, Wake, Woken, PowerPsys, ipcState, locks, mailbox, security
  <2>2. CASE GetPsys(t) \/ PowerPsys(t)
    <3>1. at[t] \in Gets /\ Within(t) /\ at'[t] \in {"wake", Base(t)} /\ Base(t) \in GetBack
      BY <2>2, PowerSteps, Where DEF Gets
    <3> QED
      BY <1>1, <1>2, <2>1, <3>1, Disjoint
  <2>3. CASE Wake(t) \/ Woken(t)
    <3>1. at[t] \in Wakes /\ Within(t) /\ at'[t] \in Top \cup Gets \cup Wakes \cup Resets
      BY <2>3, <1>2, PowerSteps, Disjoint DEF FromWake, Wakes
    <3> QED
      BY <1>1, <2>1, <3>1
  <2> QED
    BY <1>4, <2>2, <2>3
<1>5. CASE DbgDone(t)
  <2>1. at[t] = "dbgDone" /\ Base(t) = "dbgDone" /\ at'[t] = "idle" /\ Others(t)
    BY <1>5, DbgSteps, Where, Backs DEF Turns
  <2>2. UNCHANGED << authMutex, cmd, secure, door, jobs, setup, gaveUp, verdict >>
    BY <1>5 DEF DbgDone, ipcState, locks, mailbox, security
  <2> QED
    BY <1>0, <2>1, <2>2, Backs DEF Apart, InAuth, Waits
<1>6. CASE DbgGot(t) /\ rc[t] = "ok"
  <2>1. /\ at[t] = "dbgGot" /\ at'[t] = "authenticate" /\ Base(t)' = "dbgDone" /\ Others(t)
    BY <1>6, DbgSteps DEF Enters
  <2>2. UNCHANGED << authMutex, cmd, secure, door, jobs, setup, verdict >>
    BY <1>6 DEF DbgGot, locks, mailbox, security
  <2>3. gaveUp' = gaveUp
    BY <1>6 DEF DbgGot
  <2> QED
    BY <1>0, <2>1, <2>2, <2>3, Backs DEF Apart, InAuth, Waits
<1> QED
  BY <1>3, <1>4, <1>5, <1>6

\* The PCI thread never waits for its turn.
LEMMA PciApart ==
  ASSUME Control, Phases, NEW a \in Top \cup {"reset", "getPsys", "wake", "authenticate"},
         Others(Pci), at'[Pci] = a, at[Pci] \in Top,
         UNCHANGED << authMutex, cmd, secure, door, jobs, setup, gaveUp, verdict >>
  PROVE  Apart(Pci)
<1>1. \A s \in Top \cup Gets \cup Wakes \cup Resets \cup {"authenticate"} :
        s \notin Sends \cup (Auths \ {"authenticate"})
  BY Disjoint
<1>2. ~ Waits(Pci)
  BY DEF Waits, Phases, PciTop
<1> QED
  BY <1>1, <1>2, Disjoint DEF Apart, InAuth

LEMMA ApartPci ==
  ASSUME Control, Phases,
         \/ Probe \/ ProbeStep \/ Probed \/ Remove \/ RemoveStep
         \/ Sleep \/ Resume \/ ResumeGet \/ ResumeGot \/ Resumed \/ ResetPrepare
  PROVE  Apart(Pci)
<1>0. Pci \in Thread
  BY CoreAssumption
<1>1. UNCHANGED << authMutex, cmd, secure, door, jobs, setup, gaveUp, verdict >>
  BY Zenon DEF Probe, ProbeStep, ProbeCall, Acquire, FailProbe, Probed, Remove, RemoveStep, Sleep,
               Resume, ResumeGet, ResumeGot, Resumed, ResetPrepare, ipcState, locks, mailbox,
               security
<1>2. CASE Probe \/ Probed \/ Remove \/ Resumed
  <2>1. at[Pci] \in Top /\ Others(Pci) /\ at'[Pci] \in Top
    BY <1>2, PciSteps, Backs DEF Turns
  <2> QED
    BY <1>1, <2>1, PciApart
<1>3. CASE ProbeStep
  <2>1. at[Pci] = "probe" /\ at[Pci] \in Top
    BY <1>3, PciSteps, Backs
  <2>2. Others(Pci) /\ at'[Pci] \in {"reset", "getPsys", "authenticate", "idle", "probe"}
    <3>1. \/ Others(Pci) /\ at'[Pci] \in {"reset", "getPsys", "authenticate", "idle"}
          \/ Stands
      BY <1>3, PciSteps DEF Enters, Turns
    <3> QED
      BY <1>0, <2>1, <3>1 DEF Stands, Others
  <2> QED
    BY <1>1, <2>1, <2>2, PciApart, Backs
<1>4. CASE RemoveStep
  <2>1. at[Pci] = "remove" /\ (Turns(Pci, "idle") \/ Stands)
    BY <1>4, PciSteps
  <2>2. Others(Pci) /\ at'[Pci] \in {"idle", "remove"} /\ at[Pci] \in Top
    BY <1>0, <2>1, Backs DEF Turns, Stands, Others
  <2> QED
    BY <1>1, <2>2, PciApart, Backs
<1>5. CASE Sleep \/ ResetPrepare
  <2>1. at[Pci] = "idle" /\ Others(Pci) /\ at'[Pci] = "wake"
    BY <1>5, PciSteps DEF Enters
  <2> QED
    BY <1>1, <2>1, PciApart, Backs
<1>6. CASE Resume \/ ResumeGet
  <2>1. at[Pci] \in {"resume", "resumeGet"} /\ Others(Pci) /\ at'[Pci] \in {"reset", "getPsys"}
    BY <1>6, PciSteps DEF Enters
  <2> QED
    BY <1>1, <2>1, PciApart, Backs
<1>7. CASE ResumeGot
  <2>1. at[Pci] = "resumeGot" /\ Others(Pci) /\ at'[Pci] \in {"authenticate", "idle"}
    BY <1>7, PciSteps DEF Enters, Turns
  <2> QED
    BY <1>1, <2>1, PciApart, Backs
<1> QED
  BY <1>2, <1>3, <1>4, <1>5, <1>6, <1>7

\* The actions that reset the authentication, and the error that concludes one.
LEMMA CommandsForget ==
  ASSUME Control, Phases, Commands, NEW t \in Thread,
         \/ t \in Debugfs /\ (FwAuthenticate(t) \/ (DbgGot(t) /\ rc[t] # "ok"))
         \/ t = Pci /\ (ResumeReset \/ Reset \/ ResetDone)
  PROVE  /\ Commands' /\ Others(t) /\ ~ InAuth(t) /\ ~ (InAuth(t)')
         /\ ResumeReset \/ ((Reset \/ ResetDone) /\ ~ Fails("resetInAuth")) =>
              authMutex = Free /\ \A u \in Thread : ~ InAuth(u)
<1>0. \A s \in Top \cup Gets : s \notin Sends \cup Auths
  BY Disjoint
<1>1. /\ Others(t) /\ at[t] \in Top /\ at'[t] \in {"getPsys", "idle", "resume", "flrDone"}
      /\ authMutex' = authMutex /\ cmd' = cmd
  BY DbgSteps, PciSteps, Backs DEF Enters, Turns, FwAuthenticate, DbgGot, ResumeReset, Reset,
     ResetDone, locks
<1>2. at'[t] \in Top \cup Gets
  BY <1>1, Backs
<1>3. /\ ~ InAuth(t) /\ ~ (InAuth(t)')
      /\ at'[t] \notin Sends /\ at'[t] \notin {"booted", "magic", "ran", "poll", "reread"}
  BY <1>0, <1>1, <1>2 DEF InAuth, Auths
<1>4. ResumeReset \/ ((Reset \/ ResetDone) /\ ~ Fails("resetInAuth")) =>
        authMutex = Free /\ \A u \in Thread : ~ InAuth(u)
  <2>1. (Reset \/ ResetDone) /\ ~ Fails("resetInAuth") => authMutex = Free
    BY DEF Reset, ResetDone, Fails
  <2>2. ResumeReset => \A u \in Thread : ~ InAuth(u)
    <3> SUFFICES ASSUME ResumeReset, NEW u \in Thread PROVE ~ InAuth(u)
      OBVIOUS
    <3>1. at[Pci] = "sleep" /\ Base(Pci) = "sleep" /\ Pci \in Thread
      BY CoreAssumption, PciSteps, Where, Backs
    <3>2. phase = "asleep"
      BY <3>1 DEF Phases, PhasesOf
    <3>3. u # Pci => Base(u) = "idle"
      BY <3>2, DebugfsIdle DEF Debugfs
    <3>4. at[u] \in Top
      BY <3>1, <3>3, IdleBase, Backs
    <3> QED
      BY <1>0, <3>4 DEF InAuth
  <2>3. (\A u \in Thread : ~ InAuth(u)) <=> authMutex = Free
    BY ButtressAssumption DEF Commands
  <2> QED
    BY <2>1, <2>2, <2>3
<1>5. secure' \in BOOLEAN
  BY DEF FwAuthenticate, DbgGot, ResumeReset, Reset, ResetDone, Commands
<1>6. Commands'
  <2>1. CASE secure' = secure
    BY <1>1, <1>3, <2>1, CommandsBy DEF Commands
  <2>2. CASE secure' # secure
    <3>1. ResumeReset
      BY <2>2 DEF FwAuthenticate, DbgGot, Reset, ResetDone
    <3>2. \A u \in Thread : ~ InAuth(u) /\ ~ (InAuth(u)')
      BY <1>1, <1>3, <1>4, <3>1, OthersAuth
    <3>3. authMutex' = Free /\ Free \notin Thread
      BY <1>1, <1>4, <3>1, ButtressAssumption
    <3>4. \A u \in Thread : at'[u] \notin Sends \cup {"booted", "magic", "ran", "poll", "reread"}
      BY <3>2 DEF InAuth, Auths
    <3>5. \A u \in Thread : cmd'[u] = NoCommand
      BY <1>1, <3>2 DEF Commands
    <3>6. cmd' \in [Thread -> Command \cup {NoCommand}]
      BY <1>1 DEF Commands
    <3> QED
      BY <1>5, <3>2, <3>3, <3>4, <3>5, <3>6 DEF Commands
  <2> QED
    BY <2>1, <2>2
<1> QED
  BY <1>1, <1>3, <1>4, <1>6

-----------------------------------------------------------------------------
(* What the CSE works on, and what the thread that authenticates knows *)

LEMMA JobsApart ==
  ASSUME Commands, Jobs, NEW t \in Thread, Apart(t)
  PROVE  Jobs'
<1>1. ASSUME NEW u \in Thread, InAuth(u)', gaveUp = "no"
      PROVE  Knows(u)'
  <2>1. u # t /\ InAuth(u)
    BY <1>1, OthersAuth DEF Apart
  <2>2. at'[u] = at[u] /\ rc'[u] = rc[u] /\ UNCHANGED << cmd, door, jobs, setup >>
    BY <2>1 DEF Apart, Others
  <2>3. Knows(u)
    BY <1>1, <2>1 DEF Jobs
  <2> QED
    BY <2>2, <2>3 DEF Knows, Rung, Quiet
<1> QED
  BY <1>1 DEF Apart, Jobs, Quiet

LEMMA JobsStands ==
  ASSUME Jobs, Stands, UNCHANGED << cmd, door, jobs, setup, gaveUp, authMutex >>
  PROVE  Jobs'
BY DEF Stands, Jobs, Knows, Rung, Quiet, InAuth

\* A step of the thread that has, takes or releases auth_mutex.
LEMMA JobsBy ==
  ASSUME Commands, Jobs, NEW t \in Thread, Others(t), authMutex \in {t, Free},
         gaveUp' \in GaveUp, gaveUp # "no" => gaveUp' # "no", setup' \in SetupState,
         door' \in Command \cup {NoCommand},
         gaveUp' = "no" /\ authMutex' = Free => Quiet' /\ setup' \in {"none", "authDone"},
         gaveUp' = "no" /\ InAuth(t)' => Knows(t)'
  PROVE  Jobs'
<1>1. \A u \in Thread : u # t => ~ (InAuth(u)')
  BY OthersAuth, ButtressAssumption DEF Commands
<1> QED
  BY <1>1 DEF Jobs

LEMMA JobsSend ==
  ASSUME Control, Commands, Jobs, NEW t \in Thread,
         \/ OpenMailbox(t) \/ Ring(t) \/ AwaitTaken(t) \/ NotTaken(t) \/ AwaitAnswer(t)
         \/ CloseMailbox(t)
  PROVE  Jobs'
<1>0. /\ \A s \in {"send", "ring", "sent", "received", "closeMailbox"} : s \in Sends
      /\ gaveUp \in GaveUp /\ setup \in SetupState /\ door \in Command \cup {NoCommand}
  BY DEF Sends, Jobs
<1>1. at[t] \in Sends /\ Others(t)
  BY <1>0, SendSteps DEF Goes1, Decides1, Comes, Within
<1>2. InAuth(t) /\ authMutex = t /\ authMutex # Free
  BY <1>1, ButtressAssumption DEF InAuth, Commands
<1>3. UNCHANGED << authMutex, cmd, secure, jobs, setup >>
  BY DEF OpenMailbox, Ring, AwaitTaken, NotTaken, AwaitAnswer, CloseMailbox, locks, mailbox,
         security
<1>4. gaveUp = "no" => Knows(t)
  BY <1>2 DEF Jobs
<1>5. cmd[t] \in Command
  BY <1>1 DEF Commands, Command
<1>6. CASE NotTaken(t)
  <2>1. gaveUp' \in GaveUp /\ gaveUp' # "no" /\ door' \in Command \cup {NoCommand}
    BY <1>0, <1>6 DEF NotTaken, GaveUp
  <2> QED
    BY <1>0, <1>1, <1>2, <1>3, <2>1, JobsBy
<1>7. CASE Ring(t)
  <2>1. at[t] = "ring" /\ at'[t] = "sent" /\ door' = cmd[t] /\ gaveUp' = gaveUp
    BY <1>7, SendSteps DEF Ring, Goes1, Comes
  <2>2. gaveUp = "no" => Knows(t)'
    BY <1>3, <1>4, <2>1 DEF Knows, Rung, Quiet
  <2> QED
    BY <1>0, <1>1, <1>2, <1>3, <1>5, <2>1, <2>2, JobsBy
<1>8. CASE OpenMailbox(t) \/ AwaitTaken(t) \/ AwaitAnswer(t) \/ CloseMailbox(t)
  <2>1. door' = door /\ gaveUp' = gaveUp
    BY <1>8 DEF OpenMailbox, AwaitTaken, AwaitAnswer, CloseMailbox, mailbox
  <2>2. /\ at[t] \in {"send"} /\ at'[t] \in {"ring", "closeMailbox"}
        \/ /\ at[t] \in {"sent", "received", "closeMailbox"}
           /\ at'[t] \in {"received", "closeMailbox", "booted", "ran"}
    BY <1>8, SendSteps DEF Goes1, Decides1, Comes
  <2>3. gaveUp = "no" => Knows(t)'
    BY <1>3, <1>4, <2>1, <2>2 DEF Knows, Rung, Quiet
  <2> QED
    BY <1>0, <1>1, <1>2, <1>3, <2>1, <2>3, JobsBy
<1> QED
  BY <1>6, <1>7, <1>8

LEMMA JobsAuth ==
  ASSUME Control, Commands, Jobs, NEW t \in Thread,
         Sent(t) \/ PollSetup(t) \/ Reread(t) \/ PollMagic(t) \/ EndAuth(t)
  PROVE  Jobs'
<1>0. /\ \A s \in {"booted", "ran", "poll", "reread", "magic", "endAuth"} : s \in Auths \ {"authenticate"}
      /\ gaveUp \in GaveUp /\ setup \in SetupState /\ door \in Command \cup {NoCommand}
      /\ rc[t] \in {"ok", "error"}
  BY DEF Auths, Jobs, Control
<1>1. at[t] \in Auths \ {"authenticate"} /\ Others(t)
  BY <1>0, AuthSteps DEF Goes1, Decides1, Comes, Within
<1>2. InAuth(t) /\ authMutex = t /\ authMutex # Free
  BY <1>1, ButtressAssumption DEF InAuth, Commands
<1>3. UNCHANGED << secure, door, jobs, setup >>
  BY DEF Sent, PollSetup, Reread, PollMagic, EndAuth, locks, mailbox, security
<1>4. gaveUp = "no" => Knows(t)
  BY <1>2 DEF Jobs
<1>5. CASE Sent(t)
  <2>1. /\ at[t] \in {"booted", "ran"} /\ UNCHANGED << authMutex, cmd, gaveUp >> /\ rc'[t] = rc[t]
        /\ at'[t] = IF rc[t] = "ok" THEN "poll" ELSE "endAuth"
    BY <1>5, AuthSteps DEF Sent, Goes1, Comes, locks
  <2>2. cmd[t] \in Command
    BY <2>1 DEF Commands, Command
  <2>3. gaveUp = "no" => Knows(t)'
    BY <1>3, <1>4, <2>1, <2>2 DEF Knows, Rung, Quiet
  <2> QED
    BY <1>0, <1>1, <1>2, <1>3, <2>1, <2>3, JobsBy
<1>6. CASE PollSetup(t)
  <2>1. /\ at[t] = "poll" /\ UNCHANGED << authMutex, cmd, gaveUp >> /\ cmd[t] \in Command
        /\ IF setup \in Concluded(cmd[t]) THEN at'[t] = "reread"
           ELSE at'[t] = "endAuth" /\ rc'[t] # "ok"
    BY <1>6, AuthSteps DEF PollSetup, Goes1, Decides1, Comes, locks, Commands
  <2>2. CASE setup \in Concluded(cmd[t])
    <3>1. setup \in After(cmd[t]) /\ setup \notin Before(cmd[t])
      BY <2>1, <2>2 DEF Concluded, After, Before, Command
    <3>2. gaveUp = "no" => Quiet
      BY <1>4, <2>1, <3>1 DEF Knows
    <3>3. gaveUp = "no" => Knows(t)'
      BY <1>3, <2>1, <2>2, <3>1, <3>2 DEF Knows, Quiet
    <3> QED
      BY <1>0, <1>1, <1>2, <1>3, <2>1, <3>3, JobsBy
  <2>3. CASE setup \notin Concluded(cmd[t])
    <3>1. gaveUp = "no" => Knows(t)'
      BY <1>3, <1>4, <2>1, <2>3 DEF Knows, Rung, Quiet
    <3> QED
      BY <1>0, <1>1, <1>2, <1>3, <2>1, <3>1, JobsBy
  <2> QED
    BY <2>2, <2>3
<1>7. CASE Reread(t)
  <2>1. /\ at[t] = "reread" /\ UNCHANGED << authMutex, cmd, gaveUp >> /\ cmd[t] \in Command
        /\ \/ setup = "failed" /\ at'[t] = "endAuth" /\ rc'[t] # "ok"
           \/ setup # "failed" /\ cmd[t] = "boot" /\ at'[t] = "magic"
           \/ setup # "failed" /\ cmd[t] # "boot" /\ at'[t] = "endAuth" /\ rc'[t] = "ok"
    BY <1>7, AuthSteps DEF Reread, Goes1, Decides1, Comes, locks, Commands
  <2>2. gaveUp = "no" => Quiet /\ setup \in After(cmd[t]) \cup {"none"}
    BY <1>4, <2>1 DEF Knows
  <2>3. gaveUp = "no" => Knows(t)'
    BY <1>3, <2>1, <2>2 DEF Knows, Quiet, Rung, After, Before, Command
  <2> QED
    BY <1>0, <1>1, <1>2, <1>3, <2>1, <2>3, JobsBy
<1>8. CASE PollMagic(t)
  <2>1. at[t] = "magic" /\ UNCHANGED << authMutex, gaveUp >> /\ cmd[t] = "boot"
    BY <1>8, AuthSteps DEF PollMagic, locks, Commands
  <2>2. gaveUp = "no" => Quiet /\ setup \in Before("run")
    BY <1>4, <2>1 DEF Knows
  <2>3. CASE magic
    <3>1. at'[t] = "send" /\ cmd'[t] = "run"
      BY <1>8, <2>3, AuthSteps DEF PollMagic, Commands
    <3>2. gaveUp = "no" => Knows(t)'
      BY <1>3, <2>2, <3>1 DEF Knows, Quiet
    <3> QED
      BY <1>0, <1>1, <1>2, <1>3, <2>1, <3>2, JobsBy
  <2>4. CASE ~ magic
    <3>1. at'[t] = "endAuth" /\ rc'[t] # "ok" /\ cmd' = cmd
      BY <1>8, <2>4, AuthSteps DEF PollMagic, Decides1, Comes
    <3>2. gaveUp = "no" => Knows(t)'
      BY <1>3, <2>1, <2>2, <3>1 DEF Knows, Quiet, Rung, Before, After, Command
    <3> QED
      BY <1>0, <1>1, <1>2, <1>3, <2>1, <3>2, JobsBy
  <2> QED
    BY <2>3, <2>4
<1>9. CASE EndAuth(t)
  <2>1. /\ at[t] = "endAuth" /\ at'[t] = Base(t)
        /\ gaveUp' = IF rc[t] = "ok" THEN gaveUp ELSE "failed"
    BY <1>9, AuthSteps DEF EndAuth, Reported, Comes
  <2>2. at'[t] \in Top
    BY <1>1, <2>1, Where, Backs DEF AuthBack
  <2>3. ~ (InAuth(t)')
    BY <2>2, Disjoint DEF InAuth
  <2>4. /\ gaveUp' \in GaveUp /\ (gaveUp # "no" => gaveUp' # "no")
        /\ gaveUp' = "no" => gaveUp = "no" /\ rc[t] = "ok"
    BY <1>0, <2>1 DEF GaveUp
  <2>5. gaveUp' = "no" => Quiet /\ setup \in {"none", "authDone"}
    BY <1>4, <2>1, <2>4 DEF Knows
  <2>6. gaveUp' = "no" => Quiet' /\ setup' \in {"none", "authDone"}
    BY <1>3, <2>5 DEF Quiet
  <2> QED
    BY <1>0, <1>1, <1>2, <1>3, <2>3, <2>4, <2>6, JobsBy
<1> QED
  BY <1>5, <1>6, <1>7, <1>8, <1>9

LEMMA JobsAuthenticate ==
  ASSUME Control, Commands, Jobs, NEW t \in Thread, Authenticate(t), secure
  PROVE  Jobs'
<1>0. /\ gaveUp \in GaveUp /\ setup \in SetupState /\ door \in Command \cup {NoCommand}
  BY DEF Jobs
<1>1. /\ Others(t) /\ authMutex = Free /\ authMutex' = t /\ authMutex' # Free
      /\ UNCHANGED << door, jobs, setup, gaveUp >>
  BY AuthSteps, ButtressAssumption DEF Authenticate, Within, mailbox, security
<1>2. gaveUp = "no" => Quiet /\ setup \in {"none", "authDone"}
  BY <1>1 DEF Jobs
<1>3. CASE AuthDone
  <2>1. at'[t] = "endAuth" /\ rc'[t] = "ok"
    BY <1>3, AuthSteps DEF Decides1, Comes
  <2>2. gaveUp = "no" => Knows(t)'
    BY <1>1, <1>2, <2>1 DEF Knows, Quiet
  <2> QED
    BY <1>0, <1>1, <2>2, JobsBy
<1>4. CASE ~ AuthDone
  <2>1. at'[t] = "send" /\ cmd'[t] = "boot"
    BY <1>4, AuthSteps DEF Authenticate, Commands
  <2>2. gaveUp = "no" => Knows(t)'
    BY <1>1, <1>2, <1>4, <2>1 DEF Knows, Quiet, AuthDone, Before
  <2> QED
    BY <1>0, <1>1, <2>2, JobsBy
<1> QED
  BY <1>3, <1>4

LEMMA OneJob ==
  ASSUME NEW x
  PROVE  /\ Append(<< >>, x) = << x >> /\ Head(<< x >>) = x /\ Tail(<< x >>) = << >>
         /\ << x >> \o << >> = << x >> /\ << x >> # << >>
<1>1. Append(<< >>, x) = << x >>
  OBVIOUS
<1>2. Head(<< x >>) = x /\ Tail(<< x >>) = << >> /\ << x >> # << >>
  OBVIOUS
<1>3. << x >> \o << >> = << x >>
  OBVIOUS
<1> QED
  BY <1>1, <1>2, <1>3

LEMMA AnsweredJob ==
  ASSUME NEW j \in Job
  PROVE  [j EXCEPT !.answered = TRUE] \in Job /\ [j EXCEPT !.answered = TRUE].cmd = j.cmd
BY DEF Job

\* What the CSE does with the command of the thread t, its only one.
LEMMA JobsHardware ==
  ASSUME Commands, Jobs, Hardware
  PROVE  Jobs'
<1>0. /\ gaveUp' = gaveUp /\ UNCHANGED << at, callers, rc, authMutex, cmd >>
      /\ gaveUp \in GaveUp /\ setup \in SetupState /\ door \in Command \cup {NoCommand}
  BY DEF Hardware, Take, Answer, Finish, Isr, control, locks, Jobs
<1>1. setup' \in SetupState /\ door' \in Command \cup {NoCommand}
  BY <1>0 DEF Hardware, Take, Answer, Finish, Isr, security, SetupState
<1>2. CASE gaveUp # "no"
  BY <1>0, <1>1, <1>2 DEF Jobs
<1>3. CASE gaveUp = "no" /\ Quiet
  <2>1. UNCHANGED << door, jobs, setup >>
    BY <1>3 DEF Hardware, Take, Answer, Finish, Isr, Quiet, security
  <2>2. \A u \in Thread : InAuth(u)' => Knows(u)'
    BY <1>0, <1>3, <2>1 DEF Jobs, Knows, Rung, Quiet, InAuth
  <2>3. authMutex' = Free => Quiet' /\ setup' \in {"none", "authDone"}
    BY <1>0, <1>3, <2>1 DEF Jobs, Quiet
  <2> QED
    BY <1>0, <1>1, <2>2, <2>3 DEF Jobs
<1>4. CASE gaveUp = "no" /\ ~ Quiet
  <2>1. authMutex # Free
    BY <1>4 DEF Jobs
  <2>2. PICK t \in Thread : authMutex = t
    BY <2>1 DEF Commands
  <2>3. InAuth(t) /\ Knows(t) /\ \A u \in Thread : u # t => ~ InAuth(u)
    BY <1>4, <2>2 DEF Jobs, Commands
  <2>4. /\ Rung(t) /\ setup \in Before(cmd[t])
        /\ \/ at[t] \in {"sent", "received", "closeMailbox", "booted", "ran", "poll"}
           \/ at[t] = "endAuth" /\ rc[t] # "ok"
    BY <1>4, <2>3 DEF Knows
  <2>5. cmd[t] \in Command
    <3>1. at[t] \in Sends => cmd[t] \in Command
      BY DEF Commands, Command
    <3>2. at[t] \in {"booted", "ran", "poll"} => cmd[t] \in Command
      BY DEF Commands, Command
    <3>3. at[t] = "endAuth" /\ rc[t] # "ok" => cmd[t] \in Command
      BY <2>3 DEF Knows
    <3> QED
      BY <2>4, <3>1, <3>2, <3>3 DEF Sends
  <2>6. cmd[t] # NoCommand /\ setup # "authDone" /\ ~ AuthDone
    BY <2>4, <2>5 DEF Command, NoCommand, Before, AuthDone
  <2>7. ASSUME \/ Quiet' \/ (Rung(t)' /\ setup' \in Before(cmd[t])),
               setup' \in Before(cmd[t]) \cup After(cmd[t])
        PROVE  Jobs'
    <3>1. Knows(t)'
      BY <1>0, <2>4, <2>5, <2>7 DEF Knows
    <3>2. \A u \in Thread : InAuth(u)' => Knows(u)'
      BY <1>0, <2>3, <3>1 DEF InAuth
    <3> QED
      BY <1>0, <1>1, <2>1, <3>2 DEF Jobs
  <2>8. CASE Take
    <3>1. jobs = << >> /\ door = cmd[t]
      BY <2>4, <2>8 DEF Take, Rung
    <3>2. jobs' = << [cmd |-> cmd[t], answered |-> FALSE] >> /\ door' = NoCommand /\ setup' = setup
      BY <2>8, <3>1, OneJob DEF Take, security
    <3>3. [cmd |-> cmd[t], answered |-> FALSE] \in Job
      BY <2>5 DEF Job
    <3>4. Rung(t)'
      BY <1>0, <3>2, <3>3 DEF Rung
    <3> QED
      BY <2>4, <2>7, <3>2, <3>4
  <2>9. CASE Answer \/ Finish
    <3>1. door = NoCommand /\ \E j \in Job : jobs = << j >> /\ j.cmd = cmd[t]
      BY <2>4, <2>9 DEF Answer, Finish, Rung
    <3>2. PICK j \in Job : jobs = << j >> /\ j.cmd = cmd[t]
      BY <3>1
    <3>3. Head(jobs) = j /\ Tail(jobs) = << >>
      BY <3>2, OneJob
    <3>4. CASE Answer
      <4>1. door' = door /\ setup' = setup
        BY <3>4 DEF Answer, security
      <4>2. \/ \E k \in Job : jobs' = << k >> /\ k.cmd = cmd[t]
            \/ jobs' = << >>
        <5>1. [j EXCEPT !.answered = TRUE] \in Job /\ [j EXCEPT !.answered = TRUE].cmd = cmd[t]
          BY <3>2, AnsweredJob
        <5> QED
          BY <3>3, <3>4, <5>1, OneJob DEF Answer
      <4>3. Rung(t)' \/ Quiet'
        BY <1>0, <3>1, <4>1, <4>2 DEF Rung, Quiet
      <4> QED
        BY <2>4, <2>7, <4>1, <4>3
    <3>5. CASE Finish
      <4>1. door' = NoCommand /\ jobs' = << >>
        BY <3>1, <3>3, <3>5 DEF Finish
      <4>2. setup' \in After(cmd[t])
        <5>1. Head(jobs).cmd = cmd[t] /\ cmd[t] \in {"boot", "run"}
          BY <2>5, <3>2, <3>3 DEF Command
        <5> QED
          BY <2>6, <3>5, <5>1 DEF Finish, After
      <4> QED
        BY <2>7, <4>1, <4>2 DEF Quiet
    <3> QED
      BY <2>9, <3>4, <3>5
  <2>10. CASE Isr
    <3>1. UNCHANGED << door, jobs, setup >>
      BY <2>10 DEF Isr, security
    <3>2. Rung(t)'
      BY <1>0, <2>4, <3>1 DEF Rung
    <3> QED
      BY <2>4, <2>7, <3>1, <3>2
  <2> QED
    BY <2>8, <2>9, <2>10 DEF Hardware
<1> QED
  BY <1>2, <1>3, <1>4

LEMMA JobsForget ==
  ASSUME Control, Phases, Commands, Jobs, "resetInAuth" \notin Faults, NEW t \in Thread,
         \/ t \in Debugfs /\ (FwAuthenticate(t) \/ (DbgGot(t) /\ rc[t] # "ok"))
         \/ t = Pci /\ (ResumeReset \/ Reset \/ ResetDone)
  PROVE  Jobs'
<1>0. /\ gaveUp \in GaveUp /\ setup \in SetupState /\ door \in Command \cup {NoCommand}
  BY DEF Jobs
<1>1. /\ Others(t) /\ ~ InAuth(t) /\ ~ (InAuth(t)')
      /\ ResumeReset \/ Reset \/ ResetDone => authMutex = Free /\ \A u \in Thread : ~ InAuth(u)
  BY CommandsForget DEF Fails
<1>2. UNCHANGED << authMutex, cmd >> /\ (setup' = setup \/ setup' = "none")
  BY DEF FwAuthenticate, DbgGot, ResumeReset, Reset, ResetDone, HardwareForgets, ForgetAuth,
         locks, security
<1>3. CASE ResumeReset \/ Reset
  <2>1. gaveUp' = "no" /\ door' = NoCommand /\ jobs' = << >> /\ setup' = "none"
    BY <1>3 DEF ResumeReset, Reset, HardwareForgets, ForgetAuth
  <2>2. \A u \in Thread : ~ (InAuth(u)')
    BY <1>1, <1>3, OthersAuth
  <2> QED
    BY <2>1, <2>2 DEF Jobs, Quiet, SetupState, GaveUp
<1>4. CASE FwAuthenticate(t) \/ (DbgGot(t) /\ rc[t] # "ok") \/ ResetDone
  <2>1. UNCHANGED << door, jobs, gaveUp >>
    BY <1>4 DEF FwAuthenticate, DbgGot, ResetDone, mailbox
  <2>2. ASSUME NEW u \in Thread, InAuth(u)', gaveUp' = "no"
        PROVE  Knows(u)'
    <3>1. u # t /\ InAuth(u) /\ gaveUp = "no"
      BY <1>0, <1>1, <2>1, <2>2, OthersAuth
    <3>2. at'[u] = at[u] /\ rc'[u] = rc[u]
      BY <1>1, <3>1 DEF Others
    <3>3. Knows(u) /\ \A c \in Command : "none" \in Before(c)
      BY <3>1 DEF Jobs, Before, Command
    <3>4. cmd[u] \in Command \/ at[u] \notin {"send", "ring", "sent", "received", "closeMailbox",
                                              "booted", "ran", "poll"}
      BY DEF Commands, Command, Sends
    <3> QED
      BY <1>2, <2>1, <3>2, <3>3, <3>4 DEF Knows, Rung, Quiet, Command
  <2>3. gaveUp' = "no" /\ authMutex' = Free => Quiet' /\ setup' \in {"none", "authDone"}
    BY <1>0, <1>2, <2>1 DEF Jobs, Quiet
  <2> QED
    BY <1>0, <1>2, <2>1, <2>2, <2>3 DEF Jobs, SetupState
<1> QED
  BY <1>3, <1>4

-----------------------------------------------------------------------------
(* Answers come in the order of the commands *)

\* Nothing of the other command is left at the CSE.
AllOf(c) == \A k \in 1 .. Len(jobs) : jobs[k].cmd = c
OtherThan(c) == IF c = "boot" THEN "run" ELSE "boot"
Pure(c) == AllOf(c) /\ door # OtherThan(c) /\ answer # OtherThan(c)

\* What is left of the other command comes first.
Sorted(c) ==
  /\ \A i, k \in 1 .. Len(jobs) : i < k /\ jobs[i].cmd = c => jobs[k].cmd = c
  /\ door = OtherThan(c) => AllOf(OtherThan(c))

\* Who has had the answer to its command knows that the other one is over, however
\* often it has sent its own.
Ready(t) ==
  /\ at[t] \in {"send", "ring", "sent", "received"} =>
       /\ Sorted(cmd[t])
       /\ answer = cmd[t] => Pure(cmd[t])
       /\ at[t] \in {"sent", "received"} /\ recvDone /\ recvData = cmd[t] => Pure(cmd[t])
  /\ at[t] \in {"closeMailbox", "booted", "ran"} /\ rc[t] = "ok" => Pure(cmd[t])
  /\ at[t] \in {"poll", "reread", "magic"} => Pure(cmd[t])
  /\ at[t] = "endAuth" /\ rc[t] = "ok" => Pure("run")

Answers ==
  /\ jobs \in Seq(Job)
  /\ gaveUp # "failed" =>
       /\ authMutex = Free => Pure("run")
       /\ \A t \in Thread : InAuth(t) => Ready(t)

\* What an IPC reset may do to the mailbox.
Silent == answer' \in {answer, NoCommand} /\ UNCHANGED << jobs, door, recvDone, recvData >>

LEMMA SilentPure ==
  ASSUME Silent, NEW c \in Command
  PROVE  Pure(c) => Pure(c)'
BY DEF Silent, Pure, AllOf, OtherThan, NoCommand, Command

LEMMA SilentSorted ==
  ASSUME UNCHANGED << jobs, door >>, NEW c
  PROVE  Sorted(c) => Sorted(c)'
BY DEF Sorted, AllOf

\* Who sends, and who has sent.
LEMMA Commanding ==
  ASSUME Commands, NEW t \in Thread,
         at[t] \in Sends \cup {"booted", "ran", "poll", "reread", "magic"}
  PROVE  cmd[t] \in Command
BY DEF Commands, Command

LEMMA ReadySilent ==
  ASSUME Commands, NEW u \in Thread, InAuth(u), Ready(u), Silent,
         at'[u] = at[u], rc'[u] = rc[u], cmd'[u] = cmd[u]
  PROVE  Ready(u)'
<1>1. "run" \in Command /\ (Pure("run") => Pure("run")')
  BY SilentPure DEF Command
<1>2. CASE at[u] = "endAuth"
  BY <1>1, <1>2 DEF Ready
<1>3. CASE at[u] # "endAuth"
  <2>1. PICK c \in Command : c = cmd[u] /\ c = cmd'[u]
    BY <1>3, Commanding DEF InAuth, Auths
  <2>2. (Pure(c) => Pure(c)') /\ (Sorted(c) => Sorted(c)')
    BY SilentPure, SilentSorted DEF Silent
  <2>3. answer' = c => answer = c
    BY DEF Silent, Command, NoCommand
  <2> QED
    BY <1>3, <2>1, <2>2, <2>3 DEF Ready, Silent
<1> QED
  BY <1>2, <1>3

LEMMA AnswersSilent ==
  ASSUME Commands, Answers, NEW t \in Thread, Silent, gaveUp' = gaveUp, authMutex' = authMutex,
         \A u \in Thread : InAuth(u)' => InAuth(u),
         \A u \in Thread : InAuth(u)' => at'[u] = at[u] /\ rc'[u] = rc[u] /\ cmd'[u] = cmd[u]
  PROVE  Answers'
<1>1. ASSUME NEW u \in Thread, InAuth(u)', gaveUp # "failed"
      PROVE  Ready(u)'
  BY <1>1, ReadySilent DEF Answers
<1>2. Pure("run") => Pure("run")'
  BY SilentPure DEF Command
<1> QED
  BY <1>1, <1>2 DEF Answers, Silent

LEMMA AnswersStands ==
  ASSUME Commands, Answers, Stands,
         UNCHANGED << cmd, door, jobs, answer, recvDone, recvData, gaveUp, authMutex >>
  PROVE  Answers'
<1>1. PICK t \in Thread : TRUE
  BY CoreAssumption
<1>2. \A u \in Thread : InAuth(u)' <=> InAuth(u)
  BY DEF Stands, InAuth
<1> QED
  BY <1>1, <1>2, AnswersSilent DEF Silent, Stands

\* A step of the thread that has, takes or releases auth_mutex.
LEMMA AnswersBy ==
  ASSUME Commands, Answers, NEW t \in Thread, Others(t), authMutex \in {t, Free},
         jobs' \in Seq(Job), gaveUp = "failed" => gaveUp' = "failed",
         gaveUp' # "failed" /\ authMutex' = Free => Pure("run")',
         gaveUp' # "failed" /\ InAuth(t)' => Ready(t)'
  PROVE  Answers'
<1>1. \A u \in Thread : u # t => ~ (InAuth(u)')
  BY OthersAuth, ButtressAssumption DEF Commands
<1> QED
  BY <1>1 DEF Answers

LEMMA DoorPure ==
  ASSUME NEW c \in Command, UNCHANGED << jobs, answer >>, door' \in {door, c, NoCommand}
  PROVE  (Pure(c) => Pure(c)') /\ (Sorted(c) => Sorted(c)')
<1>1. c # OtherThan(c) /\ NoCommand # OtherThan(c)
  BY DEF OtherThan, Command, NoCommand
<1> QED
  BY <1>1 DEF Pure, Sorted, AllOf, OtherThan

LEMMA AnswersSend ==
  ASSUME Control, Commands, Answers, NEW t \in Thread,
         \/ OpenMailbox(t) \/ Ring(t) \/ AwaitTaken(t) \/ NotTaken(t) \/ AwaitAnswer(t)
         \/ CloseMailbox(t)
  PROVE  Answers'
<1>0. \A s \in {"send", "ring", "sent", "received", "closeMailbox"} : s \in Sends
  BY DEF Sends
<1>1. at[t] \in Sends /\ Others(t)
  BY <1>0, SendSteps DEF Goes1, Decides1, Comes, Within
<1>2. InAuth(t) /\ authMutex = t /\ authMutex # Free
  BY <1>1, ButtressAssumption DEF InAuth, Commands
<1>3. /\ UNCHANGED << authMutex, cmd, jobs, answer >> /\ (gaveUp = "failed" => gaveUp' = "failed")
  BY DEF OpenMailbox, Ring, AwaitTaken, NotTaken, AwaitAnswer, CloseMailbox, locks, mailbox
<1>4. PICK c \in Command : c = cmd[t] /\ c = cmd'[t]
  BY <1>1, <1>3, Commanding
<1>5. jobs' \in Seq(Job) /\ (gaveUp # "failed" => Ready(t))
  BY <1>2, <1>3 DEF Answers
<1>6. ASSUME gaveUp # "failed" => Ready(t)'
      PROVE  Answers'
  BY <1>1, <1>2, <1>3, <1>5, <1>6, AnswersBy
<1>7. CASE OpenMailbox(t) \/ Ring(t) \/ NotTaken(t)
  <2>1. /\ at[t] \in {"send", "ring", "sent"}
        /\ at'[t] = "ring" \/ (Ring(t) /\ at'[t] = "sent") \/ (at'[t] = "closeMailbox" /\ rc'[t] # "ok")
        /\ Ring(t) => at[t] = "ring"
    BY <1>7, SendSteps DEF Goes1, Decides1, Comes
  <2>2. door' \in {door, c, NoCommand}
    BY <1>4, <1>7 DEF OpenMailbox, Ring, NotTaken, mailbox
  <2>3. (Pure(c) => Pure(c)') /\ (Sorted(c) => Sorted(c)')
    BY <1>3, <2>2, DoorPure
  <2>4. Ring(t) => recvDone' = FALSE
    BY DEF Ring
  <2>5. gaveUp # "failed" => Sorted(c) /\ (answer = c => Pure(c))
    BY <1>4, <1>5, <2>1 DEF Ready
  <2>6. gaveUp # "failed" => Ready(t)'
    BY <1>3, <1>4, <2>1, <2>3, <2>4, <2>5 DEF Ready
  <2> QED
    BY <1>6, <2>6
<1>8. CASE AwaitTaken(t) \/ AwaitAnswer(t) \/ CloseMailbox(t)
  <2>1. door' = door
    BY <1>8 DEF AwaitTaken, AwaitAnswer, CloseMailbox, mailbox
  <2>2. (Pure(c) => Pure(c)') /\ (Sorted(c) => Sorted(c)')
    BY <1>3, <2>1, DoorPure
  <2>3. CASE AwaitTaken(t)
    <3>1. at[t] = "sent" /\ at'[t] = "received" /\ UNCHANGED << recvDone, recvData >>
      BY <2>3, SendSteps DEF AwaitTaken, Goes1, Comes
    <3> QED
      BY <1>3, <1>4, <1>5, <1>6, <2>2, <3>1 DEF Ready
  <2>4. CASE AwaitAnswer(t)
    <3>1. at[t] = "received" /\ at'[t] = "closeMailbox"
      BY <2>4, SendSteps DEF Decides1, Comes
    <3>2. rc'[t] = "ok" => recvDone /\ recvData = cmd[t]
      BY <2>4 DEF AwaitAnswer, Decide, Control
    <3> QED
      BY <1>3, <1>4, <1>5, <1>6, <2>2, <3>1, <3>2 DEF Ready
  <2>5. CASE CloseMailbox(t)
    <3>1. at[t] = "closeMailbox" /\ at'[t] \in {"booted", "ran"} /\ rc'[t] = rc[t]
      BY <2>5, SendSteps DEF Comes
    <3> QED
      BY <1>3, <1>4, <1>5, <1>6, <2>2, <3>1 DEF Ready
  <2> QED
    BY <1>8, <2>3, <2>4, <2>5
<1> QED
  BY <1>7, <1>8

LEMMA AnswersAuth ==
  ASSUME Control, Commands, Answers, NEW t \in Thread,
         Sent(t) \/ PollSetup(t) \/ Reread(t) \/ PollMagic(t) \/ EndAuth(t)
  PROVE  Answers'
<1>0. \A s \in {"booted", "ran", "poll", "reread", "magic", "endAuth"} : s \in Auths \ {"authenticate"}
  BY DEF Auths
<1>1. at[t] \in Auths \ {"authenticate"} /\ Others(t)
  BY <1>0, AuthSteps DEF Goes1, Decides1, Comes, Within
<1>2. InAuth(t) /\ authMutex = t /\ authMutex # Free
  BY <1>1, ButtressAssumption DEF InAuth, Commands
<1>3. UNCHANGED << door, jobs, answer >> /\ jobs' \in Seq(Job)
  BY DEF Sent, PollSetup, Reread, PollMagic, EndAuth, locks, mailbox, Answers
<1>4. gaveUp # "failed" => Ready(t)
  BY <1>2 DEF Answers
<1>5. \A c \in Command : (Pure(c) => Pure(c)') /\ (Sorted(c) => Sorted(c)')
  BY <1>3, DoorPure
<1>6. CASE Sent(t) \/ PollSetup(t) \/ Reread(t)
  <2>1. /\ at[t] \in {"booted", "ran", "poll", "reread"}
        /\ UNCHANGED << authMutex, cmd, gaveUp >>
        /\ \/ at'[t] \in {"poll", "reread", "magic"} /\ (at[t] \in {"booted", "ran"} => rc[t] = "ok")
           \/ at'[t] = "endAuth" /\ rc'[t] # "ok"
           \/ at[t] = "reread" /\ cmd[t] # "boot" /\ at'[t] = "endAuth"
    <3>1. UNCHANGED << authMutex, cmd, gaveUp >>
      BY <1>6 DEF Sent, PollSetup, Reread, locks
    <3>2. CASE Sent(t)
      BY <3>1, <3>2, AuthSteps DEF Goes1, Comes
    <3>3. CASE PollSetup(t)
      BY <3>1, <3>3, AuthSteps DEF Goes1, Decides1, Comes
    <3>4. CASE Reread(t)
      BY <3>1, <3>4, AuthSteps DEF Goes1, Decides1, Comes
    <3> QED
      BY <1>6, <3>2, <3>3, <3>4
  <2>2. PICK c \in Command : c = cmd[t] /\ c = cmd'[t]
    BY <2>1, Commanding
  <2>3. gaveUp # "failed" => Pure(c) \/ (at'[t] = "endAuth" /\ rc'[t] # "ok")
    BY <1>4, <2>1, <2>2 DEF Ready
  <2>4. cmd[t] # "boot" => c = "run"
    BY <2>2 DEF Command
  <2>5. gaveUp # "failed" => Ready(t)'
    BY <1>5, <2>1, <2>2, <2>3, <2>4 DEF Ready
  <2> QED
    BY <1>1, <1>2, <1>3, <2>1, <2>5, AnswersBy
<1>7. CASE PollMagic(t)
  <2>1. at[t] = "magic" /\ cmd[t] = "boot" /\ UNCHANGED << authMutex, gaveUp >>
    BY <1>7, AuthSteps DEF PollMagic, locks, Commands
  <2>2. gaveUp # "failed" => Pure("boot")
    BY <1>4, <2>1 DEF Ready
  <2>3. CASE magic
    <3>1. at'[t] = "send" /\ cmd'[t] = "run"
      BY <1>7, <2>3, AuthSteps DEF PollMagic, Commands
    <3>2. gaveUp # "failed" => Sorted("run")' /\ answer' # "run"
      BY <1>3, <2>2 DEF Pure, Sorted, AllOf, OtherThan
    <3>3. gaveUp # "failed" => Ready(t)'
      BY <3>1, <3>2 DEF Ready
    <3> QED
      BY <1>1, <1>2, <1>3, <2>1, <3>3, AnswersBy
  <2>4. CASE ~ magic
    <3>1. at'[t] = "endAuth" /\ rc'[t] # "ok"
      BY <1>7, <2>4, AuthSteps DEF PollMagic, Decides1, Comes
    <3>2. Ready(t)'
      BY <3>1 DEF Ready
    <3> QED
      BY <1>1, <1>2, <1>3, <2>1, <3>2, AnswersBy
  <2> QED
    BY <2>3, <2>4
<1>8. CASE EndAuth(t)
  <2>1. /\ at[t] = "endAuth" /\ at'[t] = Base(t)
        /\ gaveUp' = IF rc[t] = "ok" THEN gaveUp ELSE "failed"
    BY <1>8, AuthSteps DEF EndAuth, Reported, Comes
  <2>2. ~ (InAuth(t)')
    BY <1>1, <2>1, Where, Backs, Disjoint DEF AuthBack, InAuth
  <2>3. gaveUp' # "failed" => gaveUp # "failed" /\ rc[t] = "ok"
    BY <2>1
  <2>4. gaveUp' # "failed" => Pure("run")'
    BY <1>4, <1>5, <2>1, <2>3 DEF Ready, Command
  <2>5. gaveUp = "failed" => gaveUp' = "failed"
    BY <2>1
  <2> QED
    BY <1>1, <1>2, <1>3, <2>2, <2>4, <2>5, AnswersBy
<1> QED
  BY <1>6, <1>7, <1>8

LEMMA AnswersAuthenticate ==
  ASSUME Control, Commands, Answers, NEW t \in Thread, Authenticate(t)
  PROVE  Answers'
<1>1. Others(t) /\ UNCHANGED << door, jobs, answer, gaveUp >> /\ jobs' \in Seq(Job)
  BY AuthSteps DEF Authenticate, Within, mailbox, Answers
<1>2. Pure("run") => Pure("run")'
  BY <1>1, DoorPure DEF Command
<1>3. CASE ~ secure
  <2>1. \A u \in Thread : ~ InAuth(u)
    BY <1>3 DEF Commands
  <2>2. at'[t] = Base(t) /\ Base(t) \in AuthBack /\ authMutex' = authMutex
    BY <1>3, AuthSteps, Where, Disjoint DEF Authenticate
  <2>3. ~ (InAuth(t)')
    BY <2>2 DEF InAuth, AuthBack, Auths, Sends
  <2>4. \A u \in Thread : ~ (InAuth(u)')
    BY <1>1, <2>1, <2>3, OthersAuth
  <2> QED
    BY <1>1, <1>2, <2>2, <2>4 DEF Answers
<1>4. CASE secure
  <2>1. authMutex = Free /\ authMutex' = t /\ authMutex' # Free
    BY <1>4, ButtressAssumption DEF Authenticate
  <2>2. gaveUp # "failed" => Pure("run")
    BY <2>1 DEF Answers
  <2>3. CASE AuthDone
    <3>1. at'[t] = "endAuth"
      BY <1>4, <2>3, AuthSteps DEF Decides1, Comes
    <3>2. gaveUp # "failed" => Ready(t)'
      BY <1>2, <2>2, <3>1 DEF Ready
    <3> QED
      BY <1>1, <2>1, <3>2, AnswersBy
  <2>4. CASE ~ AuthDone
    <3>1. at'[t] = "send" /\ cmd'[t] = "boot"
      BY <1>4, <2>4, AuthSteps DEF Authenticate, Commands
    <3>2. gaveUp # "failed" => Sorted("boot")' /\ answer' # "boot"
      BY <1>1, <2>2 DEF Pure, Sorted, AllOf, OtherThan
    <3>3. gaveUp # "failed" => Ready(t)'
      BY <3>1, <3>2 DEF Ready
    <3> QED
      BY <1>1, <2>1, <3>3, AnswersBy
  <2> QED
    BY <2>3, <2>4
<1> QED
  BY <1>3, <1>4


LEMMA SilentThreads ==
  ASSUME NEW t \in Thread,
         \/ BeginReset(t) \/ PollReset(t) \/ GetPsys(t) \/ Wake(t) \/ Woken(t) \/ PowerPsys(t)
         \/ DbgDone(t) \/ DbgGot(t)
  PROVE  Silent
BY DEF Silent, BeginReset, PollReset, GetPsys, Wake, Woken, PowerPsys, DbgDone, DbgGot, ipcState,
       mailbox, waits

LEMMA SilentPci ==
  ASSUME \/ Probe \/ ProbeStep \/ Probed \/ Remove \/ RemoveStep
         \/ Sleep \/ Resume \/ ResumeGet \/ ResumeGot \/ Resumed \/ ResetPrepare
  PROVE  Silent
<1>1. UNCHANGED << door, jobs, answer, recvDone, recvData >>
  BY Zenon DEF Probe, ProbeStep, ProbeCall, Acquire, FailProbe, Probed, Remove, RemoveStep, Sleep,
               Resume, ResumeGet, ResumeGot, Resumed, ResetPrepare, ipcState, mailbox, waits
<1> QED
  BY <1>1 DEF Silent

LEMMA AnswersApart ==
  ASSUME Commands, Answers, NEW t \in Thread, Apart(t), Silent
  PROVE  Answers'
<1>1. \A u \in Thread : InAuth(u)' => u # t /\ InAuth(u)
  BY OthersAuth DEF Apart
<1> QED
  BY <1>1, AnswersSilent DEF Apart, Others

LEMMA FirstJob ==
  ASSUME jobs \in Seq(Job), jobs # << >>
  PROVE  /\ Head(jobs) = jobs[1] /\ jobs[1] \in Job /\ Len(jobs) \in Nat /\ 1 <= Len(jobs)
         /\ Tail(jobs) \in Seq(Job) /\ Len(Tail(jobs)) = Len(jobs) - 1
         /\ \A k \in 1 .. Len(jobs) - 1 : Tail(jobs)[k] = jobs[k + 1]
BY HeadTailProperties, LenProperties, ElementOfSeq

\* The CSE takes what was rung after everything it has taken before.
LEMMA TakeOrder ==
  ASSUME jobs \in Seq(Job), door \in Command \cup {NoCommand}, Take, NEW c \in Command
  PROVE  jobs' \in Seq(Job) /\ (Pure(c) => Pure(c)') /\ (Sorted(c) => Sorted(c)')
<1>1. /\ door \in Command /\ answer' = answer /\ door' = NoCommand
      /\ jobs' = Append(jobs, [cmd |-> door, answered |-> FALSE])
  BY DEF Take
<1>2. [cmd |-> door, answered |-> FALSE] \in Job /\ [cmd |-> door, answered |-> FALSE].cmd = door
  BY <1>1 DEF Job
<1>3. /\ jobs' \in Seq(Job) /\ Len(jobs') = Len(jobs) + 1 /\ Len(jobs) \in Nat
      /\ \A k \in 1 .. Len(jobs) : jobs'[k] = jobs[k]
      /\ jobs'[Len(jobs) + 1] = [cmd |-> door, answered |-> FALSE]
  BY <1>1, <1>2, AppendProperties, LenProperties
<1>4. \A k \in 1 .. Len(jobs') : k \in 1 .. Len(jobs) \/ k = Len(jobs) + 1
  BY <1>3
<1>5. \A k \in 1 .. Len(jobs') :
        IF k \in 1 .. Len(jobs) THEN jobs'[k].cmd = jobs[k].cmd ELSE jobs'[k].cmd = door
  BY <1>2, <1>3, <1>4
<1>6. c # OtherThan(c) /\ door \in {c, OtherThan(c)} /\ NoCommand # OtherThan(c)
  BY <1>1 DEF Command, OtherThan, NoCommand
<1>7. Pure(c) => Pure(c)'
  BY <1>1, <1>5, <1>6 DEF Pure, AllOf, OtherThan
<1>8. Sorted(c) => Sorted(c)'
  <2> SUFFICES ASSUME Sorted(c) PROVE Sorted(c)'
    OBVIOUS
  <2>1. ASSUME NEW i \in 1 .. Len(jobs'), NEW k \in 1 .. Len(jobs'), i < k, jobs'[i].cmd = c
        PROVE  jobs'[k].cmd = c
    <3>1. i \in 1 .. Len(jobs) /\ jobs[i].cmd = c
      BY <1>3, <1>4, <1>5, <2>1
    <3>2. door # OtherThan(c)
      BY <1>6, <3>1 DEF Sorted, AllOf
    <3> QED
      BY <1>5, <1>6, <2>1, <3>1, <3>2 DEF Sorted
  <2> QED
    BY <1>1, <1>6, <2>1 DEF Sorted, AllOf, OtherThan
<1> QED
  BY <1>3, <1>7, <1>8

\* It answers, and finishes, the first.
LEMMA WorkOrder ==
  ASSUME jobs \in Seq(Job), Answer \/ Finish, NEW c \in Command
  PROVE  /\ jobs' \in Seq(Job) /\ (Pure(c) => Pure(c)') /\ (Sorted(c) => Sorted(c)')
         /\ Sorted(c) /\ Answer /\ answer' = c => Pure(c)'
<1>0. /\ jobs # << >> /\ door' = door
  BY DEF Answer, Finish
<1>1. /\ Head(jobs) = jobs[1] /\ jobs[1] \in Job /\ Len(jobs) \in Nat /\ 1 <= Len(jobs)
      /\ Tail(jobs) \in Seq(Job) /\ Len(Tail(jobs)) = Len(jobs) - 1
      /\ \A k \in 1 .. Len(jobs) - 1 : Tail(jobs)[k] = jobs[k + 1]
  BY <1>0, FirstJob
<1>2. c # OtherThan(c) /\ jobs[1].cmd \in {c, OtherThan(c)} /\ "nack" # OtherThan(c) /\ "nack" # c
  BY <1>1 DEF Job, Command, OtherThan
<1>3. ASSUME jobs' = Tail(jobs)
      PROVE  jobs' \in Seq(Job) /\ (AllOf(c) => AllOf(c)') /\ (Sorted(c) => Sorted(c)')
  <2>1. \A k \in 1 .. Len(jobs') : k + 1 \in 1 .. Len(jobs) /\ jobs'[k].cmd = jobs[k + 1].cmd
    BY <1>1, <1>3
  <2>2. \A i, k \in 1 .. Len(jobs') : i < k => i + 1 < k + 1
    BY <1>1, <1>3
  <2>3. \A d : AllOf(d) => \A k \in 1 .. Len(jobs') : jobs'[k].cmd = d
    BY <2>1 DEF AllOf
  <2>4. ASSUME Sorted(c), NEW i \in 1 .. Len(jobs'), NEW k \in 1 .. Len(jobs'), i < k,
               jobs'[i].cmd = c
        PROVE  jobs'[k].cmd = c
    BY <2>1, <2>2, <2>4 DEF Sorted
  <2> QED
    BY <1>0, <1>1, <1>3, <2>3, <2>4 DEF AllOf, Sorted, OtherThan
<1>4. ASSUME jobs' = << [Head(jobs) EXCEPT !.answered = TRUE] >> \o Tail(jobs)
      PROVE  jobs' \in Seq(Job) /\ (AllOf(c) => AllOf(c)') /\ (Sorted(c) => Sorted(c)')
  <2> DEFINE j == [Head(jobs) EXCEPT !.answered = TRUE]
  <2>1. j \in Job /\ j.cmd = jobs[1].cmd
    BY <1>1, AnsweredJob
  <2> HIDE DEF j
  <2>2. << j >> \in Seq(Job) /\ Len(<< j >>) = 1 /\ << j >>[1] = j
    BY <2>1
  <2>3. /\ jobs' \in Seq(Job) /\ Len(jobs') = Len(jobs)
        /\ \A k \in 1 .. Len(jobs) : jobs'[k] = IF k <= 1 THEN << j >>[k] ELSE Tail(jobs)[k - 1]
    <3>1. jobs' = << j >> \o Tail(jobs)
      BY <1>4 DEF j
    <3>2. /\ << j >> \o Tail(jobs) \in Seq(Job)
          /\ Len(<< j >> \o Tail(jobs)) = Len(<< j >>) + Len(Tail(jobs))
          /\ \A k \in 1 .. Len(<< j >>) + Len(Tail(jobs)) :
               (<< j >> \o Tail(jobs))[k] =
                 IF k <= Len(<< j >>) THEN << j >>[k] ELSE Tail(jobs)[k - Len(<< j >>)]
      <4>1. << j >> \in Seq(Job) /\ Tail(jobs) \in Seq(Job)
        BY <1>1, <2>2
      <4> QED
        BY <4>1, ConcatProperties, ZenonT(20)
    <3>3. Len(<< j >>) + Len(Tail(jobs)) = Len(jobs)
      BY <1>1, <2>2
    <3> QED
      BY <2>2, <3>1, <3>2, <3>3
  <2>4. \A k \in 1 .. Len(jobs) : jobs'[k].cmd = jobs[k].cmd
    <3> SUFFICES ASSUME NEW k \in 1 .. Len(jobs) PROVE jobs'[k].cmd = jobs[k].cmd
      OBVIOUS
    <3>1. CASE k = 1
      BY <1>1, <2>1, <2>2, <2>3, <3>1
    <3>2. CASE k # 1
      <4>1. k - 1 \in 1 .. Len(jobs) - 1 /\ k - 1 + 1 = k /\ ~ (k <= 1)
        BY <1>1, <3>2
      <4> QED
        BY <1>1, <2>3, <4>1
    <3> QED
      BY <3>1, <3>2
  <2> QED
    BY <1>0, <2>3, <2>4 DEF AllOf, Sorted, OtherThan
<1>5. \/ jobs' = Tail(jobs)
      \/ jobs' = << [Head(jobs) EXCEPT !.answered = TRUE] >> \o Tail(jobs)
  BY DEF Answer, Finish
<1>6. jobs' \in Seq(Job) /\ (AllOf(c) => AllOf(c)') /\ (Sorted(c) => Sorted(c)')
  BY <1>3, <1>4, <1>5
<1>7. \/ Answer /\ answer' \in {jobs[1].cmd, "nack"}
      \/ Finish /\ answer' = answer
  BY <1>1 DEF Answer, Finish
<1>8. Pure(c) => Pure(c)'
  <2> SUFFICES ASSUME Pure(c) PROVE Pure(c)'
    OBVIOUS
  <2>1. jobs[1].cmd = c
    BY <1>1 DEF Pure, AllOf
  <2>2. answer' # OtherThan(c)
    BY <1>2, <1>7, <2>1 DEF Pure
  <2> QED
    BY <1>0, <1>6, <2>2 DEF Pure, OtherThan
<1>9. ASSUME Sorted(c), Answer, answer' = c
      PROVE  Pure(c)'
  <2>1. jobs[1].cmd = c
    BY <1>2, <1>7, <1>9 DEF Answer, Finish
  <2>2. AllOf(c)
    <3> SUFFICES ASSUME NEW k \in 1 .. Len(jobs) PROVE jobs[k].cmd = c
      BY DEF AllOf
    <3>1. k = 1 \/ 1 < k
      BY <1>1
    <3> QED
      BY <1>1, <1>9, <2>1, <3>1 DEF Sorted
  <2>3. door # OtherThan(c)
    BY <1>1, <1>2, <1>9, <2>1 DEF Sorted, AllOf
  <2> QED
    BY <1>0, <1>2, <1>6, <1>9, <2>2, <2>3 DEF Pure, OtherThan
<1> QED
  BY <1>6, <1>8, <1>9

LEMMA ReadyHardware ==
  ASSUME Commands, Jobs, jobs \in Seq(Job), Hardware, NEW u \in Thread, InAuth(u), Ready(u)
  PROVE  Ready(u)'
<1>1. UNCHANGED << at, rc, cmd >>
  BY DEF Hardware, Take, Answer, Finish, Isr, control
<1>2. ASSUME NEW c \in Command
      PROVE  Pure(c) => Pure(c)'
  <2>1. CASE Take
    BY <2>1, TakeOrder DEF Jobs
  <2>2. CASE Answer \/ Finish
    BY <2>2, WorkOrder
  <2>3. CASE Isr
    BY <2>3 DEF Isr, Pure, AllOf, OtherThan, NoCommand, Command
  <2> QED
    BY <2>1, <2>2, <2>3 DEF Hardware
<1>3. CASE at[u] = "endAuth"
  BY <1>1, <1>2, <1>3 DEF Ready, Command
<1>4. CASE at[u] # "endAuth"
  <2>1. PICK c \in Command : c = cmd[u] /\ c = cmd'[u]
    BY <1>1, <1>4, Commanding DEF InAuth, Auths
  <2>2. Pure(c) => Pure(c)'
    BY <1>2
  <2>3. ASSUME Sorted(c), answer = c => Pure(c), NEW b \in BOOLEAN,
               b /\ recvDone /\ recvData = c => Pure(c)
        PROVE  /\ Sorted(c)' /\ (answer' = c => Pure(c)')
               /\ b /\ recvDone' /\ recvData' = c => Pure(c)'
    <3>1. CASE Take
      <4>1. UNCHANGED << answer, recvDone, recvData >>
        BY <3>1 DEF Take, waits
      <4> QED
        BY <2>2, <2>3, <3>1, <4>1, TakeOrder DEF Jobs
    <3>2. CASE Answer
      <4>1. UNCHANGED << recvDone, recvData >>
        BY <3>2 DEF Answer, waits
      <4> QED
        BY <2>2, <2>3, <3>2, <4>1, WorkOrder
    <3>3. CASE Finish
      <4>1. UNCHANGED << answer, recvDone, recvData >>
        BY <3>3 DEF Finish, waits
      <4> QED
        BY <2>2, <2>3, <3>3, <4>1, WorkOrder
    <3>4. CASE Isr
      <4>1. /\ UNCHANGED << jobs, door >>
            /\ \/ UNCHANGED << recvData, answer >> /\ (recvDone' => recvDone)
               \/ recvData' = answer /\ answer' = NoCommand
        <5>1. CASE rpm = "active"
          BY <3>4, <5>1 DEF Isr
        <5>2. CASE rpm # "active"
          BY <3>4, <5>2 DEF Isr, waits
        <5> QED
          BY <5>1, <5>2
      <4>2. Sorted(c)'
        BY <2>3, <4>1, SilentSorted
      <4>3. c # NoCommand
        BY DEF Command, NoCommand
      <4> QED
        BY <2>2, <2>3, <4>1, <4>2, <4>3
    <3> QED
      BY <3>1, <3>2, <3>3, <3>4 DEF Hardware
  <2>4. CASE at[u] \in {"send", "ring", "sent", "received"}
    <3> DEFINE b == at[u] \in {"sent", "received"}
    <3>1. b \in BOOLEAN /\ Sorted(c) /\ (answer = c => Pure(c)) /\ (b /\ recvDone /\ recvData = c => Pure(c))
      BY <2>1, <2>4 DEF Ready
    <3>2. /\ Sorted(c)' /\ (answer' = c => Pure(c)')
          /\ b /\ recvDone' /\ recvData' = c => Pure(c)'
      BY <2>3, <3>1
    <3> QED
      BY <1>1, <2>1, <2>4, <3>2 DEF Ready
  <2>5. CASE at[u] \notin {"send", "ring", "sent", "received"}
    BY <1>1, <1>4, <2>1, <2>2, <2>5 DEF Ready
  <2> QED
    BY <2>4, <2>5
<1> QED
  BY <1>3, <1>4

LEMMA AnswersHardware ==
  ASSUME Commands, Jobs, Answers, Hardware
  PROVE  Answers'
<1>1. UNCHANGED << at, authMutex, gaveUp >> /\ jobs \in Seq(Job)
  BY DEF Hardware, Take, Answer, Finish, Isr, control, locks, Answers
<1>2. ASSUME NEW c \in Command
      PROVE  jobs' \in Seq(Job) /\ (Pure(c) => Pure(c)')
  <2>1. CASE Take
    BY <1>1, <2>1, TakeOrder DEF Jobs
  <2>2. CASE Answer \/ Finish
    BY <1>1, <2>2, WorkOrder
  <2>3. CASE Isr
    BY <1>1, <2>3 DEF Isr, Pure, AllOf, OtherThan, NoCommand, Command
  <2> QED
    BY <2>1, <2>2, <2>3 DEF Hardware
<1>3. ASSUME NEW u \in Thread, InAuth(u)', gaveUp # "failed"
      PROVE  Ready(u)'
  BY <1>1, <1>3, ReadyHardware DEF Answers, InAuth
<1>4. jobs' \in Seq(Job) /\ (Pure("run") => Pure("run")')
  BY <1>2 DEF Command
<1> QED
  BY <1>1, <1>3, <1>4 DEF Answers

LEMMA AnswersForget ==
  ASSUME Control, Phases, Commands, Answers, "resetInAuth" \notin Faults, NEW t \in Thread,
         \/ t \in Debugfs /\ (FwAuthenticate(t) \/ (DbgGot(t) /\ rc[t] # "ok"))
         \/ t = Pci /\ (ResumeReset \/ Reset \/ ResetDone)
  PROVE  Answers'
<1>1. /\ Others(t) /\ ~ InAuth(t) /\ ~ (InAuth(t)')
      /\ ResumeReset \/ Reset \/ ResetDone => authMutex = Free /\ \A u \in Thread : ~ InAuth(u)
  BY CommandsForget DEF Fails
<1>2. CASE ResumeReset \/ Reset
  <2>1. door' = NoCommand /\ jobs' = << >> /\ answer' = NoCommand
    BY <1>2 DEF ResumeReset, Reset, HardwareForgets
  <2>2. \A u \in Thread : ~ (InAuth(u)')
    BY <1>1, <1>2, OthersAuth
  <2>3. << >> \in Seq(Job) /\ Pure("run")'
    BY <2>1 DEF Pure, AllOf, OtherThan, NoCommand
  <2> QED
    BY <2>1, <2>2, <2>3 DEF Answers
<1>3. CASE FwAuthenticate(t) \/ (DbgGot(t) /\ rc[t] # "ok") \/ ResetDone
  <2>1. /\ UNCHANGED << door, jobs, answer, recvDone, recvData, gaveUp, authMutex, cmd >>
    BY <1>3 DEF FwAuthenticate, DbgGot, ResetDone, mailbox, waits, locks
  <2>2. \A u \in Thread : InAuth(u)' => u # t /\ InAuth(u)
    BY <1>1, OthersAuth
  <2> QED
    BY <1>1, <2>1, <2>2, AnswersSilent DEF Silent, Others
<1> QED
  BY <1>2, <1>3


-----------------------------------------------------------------------------
(* An authentication that was reported is real *)

LEMMA VerdictsKept ==
  ASSUME Verdicts, UNCHANGED << setup, verdict, secure >>, gaveUp = "failed" => gaveUp' = "failed",
         \A u \in Thread : (Waits(u) => Waits(u)') /\ (InAuth(u) => InAuth(u)'),
         gaveUp' # "failed" => \A u \in Thread :
           /\ at'[u] = "endAuth" /\ rc'[u] = "ok" => Real \/ (at[u] = "endAuth" /\ rc[u] = "ok")
           /\ at'[u] = "reread" /\ cmd'[u] = "run" /\ setup # "failed" =>
                Real \/ (at[u] = "reread" /\ cmd[u] = "run")
  PROVE  Verdicts'
<1>1. Real => Real'
  BY DEF Real, AuthDone
<1> QED
  BY <1>1 DEF Verdicts

LEMMA VerdictsApart ==
  ASSUME Verdicts, NEW t \in Thread, Apart(t)
  PROVE  Verdicts'
<1>1. \A u \in Thread : (Waits(u) => Waits(u)') /\ (InAuth(u) => InAuth(u)')
  BY OthersAuth DEF Apart
<1>2. at'[t] \notin {"endAuth", "reread"}
  BY DEF Apart, InAuth, Auths
<1>3. \A u \in Thread : u # t => at'[u] = at[u] /\ rc'[u] = rc[u] /\ cmd'[u] = cmd[u]
  BY DEF Apart, Others
<1> QED
  BY <1>1, <1>2, <1>3, VerdictsKept DEF Apart

LEMMA VerdictsStands ==
  ASSUME Verdicts, Stands, UNCHANGED << setup, verdict, secure, gaveUp, cmd >>
  PROVE  Verdicts'
<1>1. \A u \in Thread : (Waits(u) => Waits(u)') /\ (InAuth(u) => InAuth(u)')
  BY DEF Stands, Waits, InAuth
<1> QED
  BY <1>1, VerdictsKept DEF Stands

\* Who authenticates has its turn.
LEMMA InAuthNotWaits ==
  ASSUME Control, NEW t \in Thread, InAuth(t)
  PROVE  ~ Waits(t)
<1>1. Base(t) \in AuthBack /\ at[t] # "authenticate"
  BY Where, Disjoint DEF InAuth
<1> QED
  BY <1>1 DEF Waits, AuthBack

LEMMA VerdictsInside ==
  ASSUME Control, Verdicts, NEW t \in Thread, InAuth(t), InAuth(t)', Others(t),
         UNCHANGED << setup, verdict, secure >>, gaveUp = "failed" => gaveUp' = "failed",
         \A u \in Thread : u # t => cmd'[u] = cmd[u],
         gaveUp' # "failed" /\ at'[t] = "endAuth" => rc'[t] # "ok" \/ Real,
         gaveUp' # "failed" /\ at'[t] = "reread" => cmd'[t] # "run" \/ setup = "failed" \/ Real
  PROVE  Verdicts'
<1>1. ~ Waits(t)
  BY InAuthNotWaits
<1>2. \A u \in Thread : (Waits(u) => Waits(u)') /\ (InAuth(u) => InAuth(u)')
  BY <1>1, OthersAuth
<1>3. \A u \in Thread : u # t => at'[u] = at[u] /\ rc'[u] = rc[u]
  BY DEF Others
<1> QED
  BY <1>2, <1>3, VerdictsKept

LEMMA VerdictsAuth ==
  ASSUME Control, Commands, Verdicts, gaveUp \in GaveUp, NEW t \in Thread, AuthActions(t),
         ~ Authenticate(t)
  PROVE  Verdicts'
<1>0. /\ \A s \in {"booted", "ran", "poll", "reread", "magic", "endAuth"} : s \in Auths \ {"authenticate"}
      /\ \A s \in {"send", "ring", "sent", "received", "closeMailbox"} : s \in Sends
  BY DEF Auths, Sends
<1>1. \A a \in Sends \cup (Auths \ {"authenticate"}) : at'[t] = a => InAuth(t)'
  BY DEF InAuth
<1>2. CASE \/ OpenMailbox(t) \/ Ring(t) \/ AwaitTaken(t) \/ NotTaken(t) \/ AwaitAnswer(t)
           \/ CloseMailbox(t)
  <2>1. at[t] \in Sends /\ Others(t) /\ at'[t] \in Sends \cup {"booted", "ran"}
    BY <1>0, <1>2, SendSteps DEF Goes1, Decides1, Comes, Within
  <2>2. UNCHANGED << cmd, secure, setup, verdict >> /\ (gaveUp = "failed" => gaveUp' = "failed")
    BY <1>2 DEF OpenMailbox, Ring, AwaitTaken, NotTaken, AwaitAnswer, CloseMailbox, locks, security
  <2>3. InAuth(t) /\ InAuth(t)'
    BY <1>0, <1>1, <2>1 DEF InAuth
  <2>4. at'[t] \notin {"endAuth", "reread"}
    BY <2>1 DEF Sends
  <2> QED
    BY <2>1, <2>2, <2>3, <2>4, VerdictsInside
<1>3. CASE Sent(t) \/ PollSetup(t) \/ Reread(t) \/ PollMagic(t)
  <2>1. /\ at[t] \in {"booted", "ran", "poll", "reread", "magic"} /\ Others(t)
        /\ at'[t] \in {"poll", "endAuth", "reread", "magic", "send"}
    BY <1>0, <1>3, AuthSteps DEF Goes1, Decides1, Comes, Within
  <2>2. UNCHANGED << secure, setup, verdict, gaveUp >>
    BY <1>3 DEF Sent, PollSetup, Reread, PollMagic, security
  <2>3. InAuth(t) /\ InAuth(t)'
    BY <1>0, <1>1, <2>1 DEF InAuth
  <2>4. \A u \in Thread : u # t => cmd'[u] = cmd[u]
    BY <1>3 DEF Sent, PollSetup, Reread, PollMagic, Commands
  <2>5. CASE Sent(t)
    <3>1. at'[t] # "reread" /\ (at'[t] = "endAuth" => rc'[t] # "ok")
      BY <2>5, AuthSteps DEF Goes1, Comes
    <3> QED
      BY <2>1, <2>2, <2>3, <2>4, <3>1, VerdictsInside
  <2>6. CASE PollSetup(t)
    <3>1. /\ cmd' = cmd
          /\ IF setup \in Concluded(cmd[t]) THEN at'[t] = "reread"
             ELSE at'[t] = "endAuth" /\ rc'[t] # "ok"
      BY <2>6, AuthSteps DEF Goes1, Decides1, Comes, PollSetup
    <3>2. at'[t] = "reread" => cmd'[t] # "run" \/ setup = "failed" \/ Real
      BY <3>1 DEF Concluded, Real, AuthDone
    <3>3. at'[t] = "endAuth" => rc'[t] # "ok"
      BY <3>1
    <3> QED
      BY <2>1, <2>2, <2>3, <2>4, <3>2, <3>3, VerdictsInside
  <2>7. CASE Reread(t)
    <3>1. /\ at[t] = "reread"
          /\ \/ at'[t] = "endAuth" /\ rc'[t] # "ok"
             \/ at'[t] = "magic"
             \/ setup # "failed" /\ cmd[t] # "boot" /\ at'[t] = "endAuth"
      BY <2>7, AuthSteps DEF Goes1, Decides1, Comes
    <3>2. cmd[t] \in Command
      BY <3>1 DEF Commands
    <3>3. gaveUp # "failed" /\ at'[t] = "endAuth" => rc'[t] # "ok" \/ Real
      BY <3>1, <3>2 DEF Verdicts, Command
    <3>4. at'[t] # "reread"
      BY <3>1
    <3> QED
      BY <2>1, <2>2, <2>3, <2>4, <3>3, <3>4, VerdictsInside
  <2>8. CASE PollMagic(t)
    <3>1. at'[t] = "send" \/ (at'[t] = "endAuth" /\ rc'[t] # "ok")
      BY <2>8, AuthSteps DEF Decides1, Comes
    <3> QED
      BY <2>1, <2>2, <2>3, <2>4, <3>1, VerdictsInside
  <2> QED
    BY <1>3, <2>5, <2>6, <2>7, <2>8
<1>4. CASE EndAuth(t)
  <2>1. /\ at[t] = "endAuth" /\ Others(t) /\ at'[t] = Base(t)
        /\ verdict' = IF rc[t] = "ok" /\ verdict # "void" THEN "ok" ELSE "none"
        /\ gaveUp' = IF rc[t] = "ok" THEN gaveUp ELSE "failed"
        /\ UNCHANGED << secure, setup >>
        /\ \A u \in Thread : u # t => cmd'[u] = cmd[u]
    BY <1>4, AuthSteps DEF EndAuth, Reported, Comes, Within, security, Commands
  <2>2. gaveUp' # "failed" => gaveUp # "failed" /\ rc[t] = "ok"
    BY <2>1
  <2>3. ~ Waits(t) /\ at'[t] \notin {"endAuth", "reread"}
    <3>1. InAuth(t)
      BY <1>0, <2>1 DEF InAuth
    <3>2. Base(t) \in AuthBack
      BY <1>0, <2>1, Where
    <3> QED
      BY <2>1, <3>1, <3>2, InAuthNotWaits DEF AuthBack
  <2>4. Real /\ verdict' = "ok" => Real'
    BY <2>1, <2>3, OthersAuth DEF Real, AuthDone
  <2>5. gaveUp' # "failed" /\ verdict' = "ok" => Real'
    BY <2>1, <2>2, <2>4 DEF Verdicts
  <2>6. \A u \in Thread : at'[u] \notin {"endAuth", "reread"}
    <3>1. InAuth(t)
      BY <1>0, <2>1 DEF InAuth
    <3>2. \A u \in Thread : u # t => ~ InAuth(u)
      BY <3>1 DEF Commands
    <3>3. \A u \in Thread : u # t => at'[u] \notin {"endAuth", "reread"}
      BY <2>1, <3>2 DEF Others, InAuth, Auths
    <3> QED
      BY <2>3, <3>3
  <2> QED
    BY <2>5, <2>6 DEF Verdicts
<1> QED
  BY <1>2, <1>3, <1>4 DEF AuthActions

LEMMA VerdictsAuthenticate ==
  ASSUME Control, Commands, Verdicts, NEW t \in Thread, Authenticate(t)
  PROVE  Verdicts'
<1>1. /\ at[t] = "authenticate" /\ Others(t) /\ UNCHANGED << secure, setup, verdict, gaveUp >>
      /\ \A u \in Thread : u # t => at'[u] = at[u] /\ rc'[u] = rc[u] /\ cmd'[u] = cmd[u]
  BY AuthSteps DEF Authenticate, Within, security, Others, Commands
<1>2. \A u \in Thread : InAuth(u) => secure /\ authMutex = u
  BY DEF Commands
<1>3. CASE ~ secure
  <2>1. at'[t] \notin {"endAuth", "reread"}
    <3>1. at'[t] = Base(t) /\ Base(t) \in AuthBack
      BY <1>1, <1>3, AuthSteps, Where, Disjoint
    <3> QED
      BY <3>1 DEF AuthBack
  <2>2. \A u \in Thread : at[u] \notin {"endAuth", "reread"}
    BY <1>2, <1>3 DEF InAuth, Auths
  <2>3. \A u \in Thread : at'[u] \notin {"endAuth", "reread"}
    BY <1>1, <2>1, <2>2
  <2> QED
    BY <1>1, <1>3, <2>3 DEF Verdicts
<1>4. CASE secure
  <2>1. authMutex = Free
    BY <1>4 DEF Authenticate
  <2>2. \A u \in Thread : at[u] \notin {"endAuth", "reread"}
    <3>1. \A u \in Thread : ~ InAuth(u)
      BY <1>2, <2>1, ButtressAssumption
    <3> QED
      BY <3>1 DEF InAuth, Auths
  <2>3. CASE AuthDone
    BY <1>1, <2>3 DEF Verdicts, Real, AuthDone
  <2>4. CASE ~ AuthDone
    <3>1. at'[t] = "send"
      BY <1>4, <2>4, AuthSteps
    <3>2. InAuth(t)'
      BY <3>1 DEF InAuth, Sends
    <3>3. \A u \in Thread : at'[u] \notin {"endAuth", "reread"}
      BY <1>1, <2>2, <3>1
    <3> QED
      BY <3>2, <3>3 DEF Verdicts
  <2> QED
    BY <2>3, <2>4
<1> QED
  BY <1>3, <1>4

LEMMA VerdictsHardware ==
  ASSUME Commands, Answers, Verdicts, Hardware
  PROVE  Verdicts'
<1>1. UNCHANGED << at, callers, rc, cmd, secure, verdict, gaveUp >>
  BY DEF Hardware, Take, Answer, Finish, Isr, control
<1>2. \A u \in Thread : (Waits(u)' <=> Waits(u)) /\ (InAuth(u)' <=> InAuth(u))
  BY <1>1 DEF Waits, InAuth, Base
<1>3. AuthDone => AuthDone'
  BY DEF Hardware, Take, Answer, Finish, Isr, AuthDone, security
<1>4. Real => Real'
  BY <1>1, <1>2, <1>3 DEF Real
<1>5. ASSUME NEW u \in Thread, gaveUp # "failed", at[u] = "reread", cmd[u] = "run"
      PROVE  setup' = setup \/ setup' \in {"failed", "authDone"}
  <2>1. Pure("run")
    BY <1>5 DEF Answers, Ready, InAuth, Auths
  <2>2. CASE Finish
    <3>1. Head(jobs) = jobs[1] /\ Len(jobs) \in Nat /\ 1 <= Len(jobs)
      BY <2>2, FirstJob DEF Finish, Answers
    <3>2. Head(jobs).cmd = "run"
      BY <2>1, <3>1 DEF Pure, AllOf
    <3> QED
      BY <2>2, <3>2 DEF Finish, security
  <2>3. CASE ~ Finish
    BY <2>3 DEF Hardware, Take, Answer, Isr, security
  <2> QED
    BY <2>2, <2>3
<1>6. CASE gaveUp = "failed"
  BY <1>1, <1>6 DEF Verdicts
<1>7. CASE gaveUp # "failed"
  <2>1. verdict' = "ok" /\ secure' => Real' \/ \E u \in Thread : InAuth(u)'
    BY <1>1, <1>2, <1>4, <1>7 DEF Verdicts
  <2>2. ASSUME NEW u \in Thread
        PROVE  /\ at'[u] = "endAuth" /\ rc'[u] = "ok" => Real'
               /\ at'[u] = "reread" /\ cmd'[u] = "run" /\ setup' # "failed" => Real'
    <3>1. at'[u] = "endAuth" /\ rc'[u] = "ok" => Real'
      BY <1>1, <1>4, <1>7 DEF Verdicts
    <3>2. ASSUME at'[u] = "reread", cmd'[u] = "run", setup' # "failed"
          PROVE  Real'
      <4>1. at[u] = "reread" /\ cmd[u] = "run"
        BY <1>1, <3>2
      <4>2. CASE setup' = setup
        BY <1>4, <1>7, <3>2, <4>1, <4>2 DEF Verdicts
      <4>3. CASE setup' = "authDone"
        BY <4>3 DEF Real, AuthDone
      <4> QED
        BY <1>5, <1>7, <3>2, <4>1, <4>2, <4>3
    <3> QED
      BY <3>1, <3>2
  <2> QED
    BY <2>1, <2>2 DEF Verdicts
<1> QED
  BY <1>6, <1>7

\* A call of debugfs that returns early takes back what had been reported, and
\* makes nothing of what is about to be.
LEMMA VerdictsVoid ==
  ASSUME Commands, ReturnsEarly, UNCHANGED << authMutex >>,
         \A u \in Thread : InAuth(u)' => InAuth(u)
  PROVE  Verdicts'
<1>1. CASE authMutex = Free
  <2>1. verdict' = "none"
    BY <1>1 DEF ReturnsEarly
  <2>2. \A u \in Thread : ~ (InAuth(u)')
    BY <1>1, ButtressAssumption DEF Commands
  <2>3. \A u \in Thread : at'[u] \notin {"endAuth", "reread"}
    BY <2>2 DEF InAuth, Auths
  <2> QED
    BY <2>1, <2>3 DEF Verdicts
<1>2. CASE authMutex # Free
  <2>1. verdict' = "void"
    BY <1>2 DEF ReturnsEarly
  <2> QED
    BY <2>1 DEF Verdicts, Real
<1> QED
  BY <1>1, <1>2

LEMMA VerdictsForget ==
  ASSUME Control, Phases, Commands, Verdicts, gaveUp \in GaveUp, "resetInAuth" \notin Faults,
         NEW t \in Thread,
         \/ t \in Debugfs /\ (FwAuthenticate(t) \/ (DbgGot(t) /\ rc[t] # "ok"))
         \/ t = Pci /\ (ResumeReset \/ Reset \/ ResetDone)
  PROVE  Verdicts'
<1>1. /\ Others(t) /\ ~ InAuth(t) /\ ~ (InAuth(t)')
      /\ ResumeReset \/ Reset \/ ResetDone => \A u \in Thread : ~ InAuth(u)
  BY CommandsForget DEF Fails
<1>2. CASE ResumeReset \/ Reset \/ ResetDone
  <2>1. verdict' = "none"
    BY <1>2 DEF ResumeReset, Reset, ResetDone, HardwareForgets
  <2>2. \A u \in Thread : ~ (InAuth(u)')
    BY <1>1, <1>2, OthersAuth
  <2>3. \A u \in Thread : at'[u] \notin {"endAuth", "reread"}
    BY <2>2 DEF InAuth, Auths
  <2> QED
    BY <2>1, <2>3 DEF Verdicts
<1>3. CASE t \in Debugfs /\ FwAuthenticate(t)
  <2>1. Base(t)' = "dbgGot"
    BY <1>3, DbgSteps DEF Enters
  <2>2. Real'
    BY <2>1 DEF Real, Waits
  <2> QED
    BY <2>2 DEF Verdicts
<1>4. CASE t \in Debugfs /\ DbgGot(t) /\ rc[t] # "ok"
  <2>1. UNCHANGED << secure, setup, cmd, gaveUp, authMutex >> /\ ReturnsEarly
    BY <1>4 DEF DbgGot, security, locks
  <2>2. \A u \in Thread : InAuth(u)' => InAuth(u)
    BY <1>1, OthersAuth
  <2> QED
    BY <2>1, <2>2, VerdictsVoid
<1> QED
  BY <1>2, <1>3, <1>4

\* A call of debugfs that fails at the reset: the CSE is left at what it does.
LEMMA TimesOut ==
  ASSUME Control, Commands, Jobs, Answers, Verdicts, NEW t \in Debugfs, FwAuthenticateTimesOut(t)
  PROVE  Jobs' /\ Answers' /\ Verdicts'
<1>1. /\ UNCHANGED << control, authMutex, cmd, secure, door, jobs, answer, recvDone, recvData, gaveUp >>
      /\ ReturnsEarly /\ setup' \in {setup, "none"}
  BY DEF FwAuthenticateTimesOut, locks, mailbox, waits, ForgetAuth, security
<1>2. Stands
  BY <1>1, Standing
<1>3. \A u \in Thread : InAuth(u)' <=> InAuth(u)
  BY <1>2 DEF Stands, InAuth
<1>4. Answers'
  BY <1>1, <1>2, AnswersStands
<1>5. Verdicts'
  BY <1>1, <1>3, VerdictsVoid
<1>6. ASSUME NEW u \in Thread, InAuth(u)', gaveUp = "no"
      PROVE  Knows(u)'
  <2>1. at'[u] = at[u] /\ rc'[u] = rc[u] /\ Knows(u)
    BY <1>2, <1>3, <1>6 DEF Stands, Jobs
  <2>2. \A c \in Command : "none" \in Before(c)
    BY DEF Before, Command
  <2>3. cmd[u] \in Command \/ at[u] \notin {"send", "ring", "sent", "received", "closeMailbox",
                                            "booted", "ran", "poll"}
    BY DEF Commands, Command, Sends
  <2> QED
    BY <1>1, <2>1, <2>2, <2>3 DEF Knows, Rung, Quiet, Command
<1>7. Jobs'
  BY <1>1, <1>6, <1>3 DEF Jobs, Quiet, SetupState
<1> QED
  BY <1>4, <1>5, <1>7

\* Without secure mode nothing is asked of the CSE.
LEMMA JobsInsecure ==
  ASSUME Control, Commands, Jobs, NEW t \in Thread, Authenticate(t), ~ secure
  PROVE  Jobs'
<1>1. \A u \in Thread : ~ InAuth(u)
  BY DEF Commands
<1>2. /\ Others(t) /\ at'[t] = Base(t) /\ Base(t) \in AuthBack
      /\ UNCHANGED << gaveUp, setup, door, jobs, authMutex >>
  BY AuthSteps, Where, Disjoint DEF Authenticate, Within, security, mailbox
<1>3. ~ (InAuth(t)')
  BY <1>2 DEF InAuth, AuthBack, Auths, Sends
<1>4. \A u \in Thread : ~ (InAuth(u)')
  BY <1>1, <1>2, <1>3, OthersAuth
<1> QED
  BY <1>2, <1>4 DEF Jobs, Quiet

-----------------------------------------------------------------------------
(* The inductive invariants *)

\* What holds whatever fails.
DeviceInv == Control /\ Phases /\ HeldInv /\ Awake /\ Commands /\ Sessions

LEMMA DeviceInit ==
  CoreInit => DeviceInv
<1> SUFFICES ASSUME CoreInit PROVE DeviceInv
  OBVIOUS
<1>1. /\ at = [t \in Thread |-> "idle"] /\ callers = [t \in Thread |-> << >>]
      /\ rc = [t \in Thread |-> "ok"]
  BY DEF CoreInit, ButtressInit
<1>2. "idle" \in Top /\ "idle" \in Place /\ << >> \in Seq(Place)
  BY DEF Top, PciTop, Place
<1>3. \A t \in Thread : at[t] = "idle" /\ callers[t] = << >> /\ Base(t) = "idle"
  BY <1>1 DEF Base, BaseOf
<1>4. Control
  BY <1>1, <1>2 DEF Control, StackAt
<1>5. Pci \in Thread /\ Debugfs \subseteq Thread
  BY CoreAssumption DEF Debugfs
<1>6. phase = "unbound" /\ step = 1 /\ held = {} /\ usage = 0 /\ rpm = "active" /\ stale = TRUE
  BY DEF CoreInit, ButtressInit
<1>7. Phases
  BY <1>3, <1>5, <1>6 DEF Phases, PhasesOf, PciTop, DbgTop
<1>8. HeldInv
  BY <1>6 DEF HeldInv, NothingHeldUnbound
<1>9. Awake
  <2>1. \A t \in Thread : ~ Holds(t)
    BY <1>3 DEF Holds
  <2>2. Holders = {}
    BY <2>1 DEF Holders
  <2> QED
    BY <1>6, <2>1, <2>2, FS_EmptySet DEF Awake, Past
<1>10. Commands
  <2>1. \A t \in Thread : ~ InAuth(t)
    BY <1>3 DEF InAuth, Auths, Sends
  <2>2. /\ cmd = [t \in Thread |-> NoCommand] /\ authMutex = Free /\ secure \in BOOLEAN
    BY DEF CoreInit, ButtressInit
  <2> QED
    BY <1>3, <2>1, <2>2, ButtressAssumption DEF Commands, Sends
<1>11. Sessions
  BY <1>3, <1>5, <1>6 DEF Sessions
<1> QED
  BY <1>4, <1>7, <1>8, <1>9, <1>10, <1>11 DEF DeviceInv

\* Nothing changes the phase, or what is held, but the thread of the device.
LEMMA OffThePci ==
  ASSUME \/ UNCHANGED core
         \/ \E t \in Thread : \/ GetPsys(t) \/ Wake(t) \/ Woken(t) \/ PowerPsys(t)
                              \/ FwAuthenticate(t) \/ DbgGot(t) \/ DbgDone(t)
         \/ RuntimeSuspend \/ UNCHANGED vars
  PROVE  UNCHANGED << phase, held, step >>
BY DEF core, binding, vars, GetPsys, Wake, Woken, PowerPsys, FwAuthenticate, DbgGot, DbgDone,
       RuntimeSuspend

LEMMA ControlKept ==
  ASSUME Control, Phases, [Next]_vars
  PROVE  Control'
<1>1. ASSUME NEW t \in Thread, AuthActions(t), UNCHANGED core PROVE Control'
  BY <1>1, Talking DEF Talks, Within
<1>2. ASSUME NEW t \in Thread, BeginReset(t) \/ PollReset(t) PROVE Control'
  BY <1>2, ResetSteps DEF Goes1, Comes, FromReset, Within
<1>3. CASE \/ (Hardware /\ UNCHANGED core) \/ UNCHANGED vars
           \/ \E t \in Debugfs : FwAuthenticateTimesOut(t)
  BY <1>3, Idling DEF Stands
<1>4. ASSUME NEW t \in Thread, GetPsys(t) \/ Wake(t) \/ Woken(t) \/ PowerPsys(t) PROVE Control'
  BY <1>4, PowerSteps DEF FromWake, Within
<1>5. ASSUME NEW t \in Debugfs, FwAuthenticate(t) \/ DbgGot(t) \/ DbgDone(t) PROVE Control'
  BY <1>5, DbgSteps DEF Enters, Turns, Debugfs
<1>6. CASE Probe \/ ProbeStep \/ Probed \/ Remove \/ RemoveStep
  BY <1>6, PciSteps DEF Enters, Turns, Stands
<1>7. CASE \/ Sleep \/ ResumeReset \/ Resume \/ ResumeGet \/ ResumeGot \/ Resumed
           \/ ResetPrepare \/ Reset \/ ResetDone
  BY <1>7, PciSteps DEF Enters, Turns
<1>8. CASE RuntimeSuspend
  BY <1>8, Standing DEF RuntimeSuspend, Stands
<1> QED
  BY <1>1, <1>2, <1>3, <1>4, <1>5, <1>6, <1>7, <1>8, StepsOf

LEMMA DeviceStep ==
  ASSUME DeviceInv, [Next]_vars
  PROVE  DeviceInv'
<1>0. Control /\ Phases /\ HeldInv /\ Awake /\ Commands /\ Sessions /\ Control'
  BY ControlKept DEF DeviceInv
<1>0a. Pci \in Thread /\ Debugfs \subseteq Thread /\ Pci \notin Debugfs
  BY CoreAssumption DEF Debugfs
<1>1. ASSUME NEW t \in Thread, AuthActions(t), UNCHANGED core
      PROVE  DeviceInv'
  <2>1. Talks(t)
    BY <1>0, <1>1, Talking
  <2>2. HeldInv'
    BY <1>0, <1>1, OffThePci, HeldKept
  <2>3. Phases' /\ Awake' /\ Sessions'
    BY <1>0, <2>1, PhasesTalks, AwakeTalks, SessionsThread
  <2> QED
    BY <1>0, <1>1, <2>2, <2>3, CommandsAuth DEF DeviceInv
<1>2. ASSUME NEW t \in Thread, BeginReset(t) \/ PollReset(t), UNCHANGED core
      PROVE  DeviceInv'
  <2>1. Resetting(t)
    BY <1>0, <1>2, ResettingSteps
  <2>2. HeldInv'
    BY <1>0, <1>2, OffThePci, HeldKept
  <2>3. Phases' /\ Awake' /\ Sessions'
    BY <1>0, <2>1, PhasesResetting, AwakeResetting, SessionsThread
  <2>4. Commands'
    <3>1. UNCHANGED << authMutex, cmd, secure >> /\ Others(t) /\ at[t] \in Resets
          /\ at'[t] \in Resets \cup Wakes \cup ResetBack
      BY <1>0, <1>2, ResetSteps DEF Goes1, Comes, FromReset, Within, Resets, Wakes
    <3>2. ~ InAuth(t) /\ ~ (InAuth(t)') /\ at'[t] \notin Sends \cup Auths
      BY <3>1, Disjoint, Backs DEF InAuth, ResetBack
    <3> QED
      BY <1>0, <3>1, <3>2, CommandsBy DEF Commands, Auths
  <2> QED
    BY <1>0, <2>2, <2>3, <2>4 DEF DeviceInv
<1>3. CASE \/ (Hardware /\ UNCHANGED core) \/ UNCHANGED vars
           \/ \E t \in Debugfs : FwAuthenticateTimesOut(t)
  <2>1. Stands /\ UNCHANGED << core, rpm >>
    BY <1>0, <1>3, Idling
  <2>2. UNCHANGED << authMutex, cmd, secure >>
    BY <1>3 DEF Hardware, Take, Answer, Finish, Isr, FwAuthenticateTimesOut, vars, buttress, locks
  <2>3. UNCHANGED << phase, held, step, usage, stale, ipcReinit >>
    BY <2>1 DEF core, binding, power
  <2> QED
    BY <1>0, <2>1, <2>2, <2>3, PhasesStands, HeldKept, AwakeStands, CommandsStands,
       SessionsStands DEF DeviceInv
<1>4. ASSUME NEW t \in Thread, GetPsys(t) \/ Wake(t) \/ Woken(t) \/ PowerPsys(t)
      PROVE  DeviceInv'
  <2>1. HeldInv'
    BY <1>0, <1>4, OffThePci, HeldKept
  <2>2. Phases' /\ Awake' /\ Sessions'
    BY <1>0, <1>4, PhasesPower, AwakePower, SessionsThread
  <2>3. Commands'
    <3>1. /\ UNCHANGED << authMutex, cmd, secure >> /\ Others(t) /\ at[t] \in Gets \cup Wakes
          /\ at'[t] \in Gets \cup Wakes \cup Resets \cup GetBack \cup SleepBack
      BY <1>0, <1>4, PowerSteps, Where, Disjoint
         DEF GetPsys, Wake, Woken, PowerPsys, FromWake, Within, ipcState, locks, Gets, Wakes, Resets
    <3>2. ~ InAuth(t) /\ ~ (InAuth(t)') /\ at'[t] \notin Sends \cup Auths
      BY <3>1, Disjoint, Backs DEF InAuth, GetBack, SleepBack
    <3> QED
      BY <1>0, <3>1, <3>2, CommandsBy DEF Commands, Auths
  <2> QED
    BY <1>0, <2>1, <2>2, <2>3 DEF DeviceInv
<1>5. ASSUME NEW t \in Debugfs, FwAuthenticate(t) \/ DbgGot(t) \/ DbgDone(t)
      PROVE  DeviceInv'
  <2>1. t \in Thread /\ t # Pci
    BY DEF Debugfs
  <2>2. HeldInv'
    BY <1>0, <1>5, <2>1, OffThePci, HeldKept
  <2>3. Phases' /\ Awake' /\ Sessions'
    BY <1>0, <1>5, <2>1, PhasesDebugfs, AwakeDebugfs, SessionsThread
  <2>4. CASE FwAuthenticate(t) \/ (DbgGot(t) /\ rc[t] # "ok")
    BY <1>0, <2>1, <2>2, <2>3, <2>4, CommandsForget DEF DeviceInv
  <2>5. CASE DbgDone(t) \/ (DbgGot(t) /\ rc[t] = "ok")
    <3>1. /\ UNCHANGED << authMutex, cmd, secure >> /\ Others(t)
          /\ at[t] \in {"dbgGot", "dbgDone"} /\ at'[t] \in {"authenticate", "idle"}
      BY <1>0, <2>1, <2>5, DbgSteps DEF DbgGot, DbgDone, Enters, Turns, ipcState, locks
    <3>2. ~ InAuth(t) /\ ~ (InAuth(t)') /\ at'[t] \notin Sends
      BY <3>1 DEF InAuth, Auths, Sends
    <3>3. at'[t] \notin {"booted", "magic", "ran", "poll", "reread"}
      BY <3>1
    <3> QED
      BY <1>0, <2>1, <2>2, <2>3, <3>1, <3>2, <3>3, CommandsBy DEF Commands, DeviceInv
  <2> QED
    BY <1>5, <2>4, <2>5
<1>6. CASE Probe \/ ProbeStep \/ Probed \/ Remove \/ RemoveStep
  <2>1. Phases' /\ HeldInv' /\ Awake' /\ Sessions'
    BY <1>0, <1>6, PhasesPci, HeldPci, AwakePci, SessionsPci
  <2>2. Commands'
    BY <1>0, <1>0a, <1>6, ApartPci, CommandsApart
  <2> QED
    BY <1>0, <2>1, <2>2 DEF DeviceInv
<1>7. CASE \/ Sleep \/ ResumeReset \/ Resume \/ ResumeGet \/ ResumeGot \/ Resumed
           \/ ResetPrepare \/ Reset \/ ResetDone
  <2>1. Phases' /\ HeldInv' /\ Awake' /\ Sessions'
    BY <1>0, <1>7, PhasesPci, HeldPci, AwakePci, SessionsPci
  <2>2. CASE ResumeReset \/ Reset \/ ResetDone
    BY <1>0, <1>0a, <2>1, <2>2, CommandsForget DEF DeviceInv
  <2>3. CASE Sleep \/ Resume \/ ResumeGet \/ ResumeGot \/ Resumed \/ ResetPrepare
    BY <1>0, <1>0a, <2>1, <2>3, ApartPci, CommandsApart DEF DeviceInv
  <2> QED
    BY <1>7, <2>2, <2>3
<1>8. CASE RuntimeSuspend
  <2>1. Stands
    BY <1>0, <1>8, Standing DEF RuntimeSuspend
  <2>2. UNCHANGED << authMutex, cmd, secure, phase, held, step, stale, ipcReinit >>
    BY <1>8 DEF RuntimeSuspend, ipcState, locks, binding
  <2> QED
    BY <1>0, <1>8, <2>1, <2>2, PhasesStands, HeldKept, AwakeSuspend, CommandsStands,
       SessionsStands DEF DeviceInv
<1> QED
  BY <1>1, <1>2, <1>3, <1>4, <1>5, <1>6, <1>7, <1>8, StepsOf

\* The device is not reset while a thread authenticates.
ResetsBetween == "resetInAuth" \notin Faults

IInv == DeviceInv /\ Jobs /\ Answers /\ Verdicts

LEMMA IInvInit ==
  CoreInit => IInv
<1> SUFFICES ASSUME CoreInit PROVE IInv
  OBVIOUS
<1>1. /\ door = NoCommand /\ jobs = << >> /\ setup = "none" /\ gaveUp = "no" /\ verdict = "none"
      /\ at = [t \in Thread |-> "idle"] /\ answer = NoCommand
  BY DEF CoreInit, ButtressInit
<1>2. \A t \in Thread : at[t] = "idle" /\ ~ InAuth(t)
  BY <1>1 DEF InAuth, Auths, Sends
<1>3. Jobs
  BY <1>1, <1>2 DEF Jobs, Quiet, SetupState, GaveUp
<1>4. Verdicts
  BY <1>1, <1>2 DEF Verdicts
<1>5. Answers
  BY <1>1, <1>2 DEF Answers, Pure, AllOf, OtherThan, NoCommand
<1> QED
  BY <1>3, <1>4, <1>5, DeviceInit DEF IInv

LEMMA IInvStep ==
  ASSUME IInv, [Next]_vars, ResetsBetween
  PROVE  IInv'
<1>0. /\ Control /\ Phases /\ Commands /\ Jobs /\ Answers /\ Verdicts /\ DeviceInv'
      /\ gaveUp \in GaveUp /\ "resetInAuth" \notin Faults
  BY DeviceStep DEF IInv, DeviceInv, Jobs, ResetsBetween
<1>0a. Pci \in Thread /\ Debugfs \subseteq Thread /\ Pci \notin Debugfs
  BY CoreAssumption DEF Debugfs
<1>1. ASSUME NEW t \in Thread, Apart(t), Silent
      PROVE  Jobs' /\ Answers' /\ Verdicts'
  BY <1>0, <1>1, JobsApart, AnswersApart, VerdictsApart
<1>2. ASSUME NEW t \in Thread, AuthActions(t)
      PROVE  Jobs' /\ Answers' /\ Verdicts'
  <2>1. CASE Authenticate(t)
    BY <1>0, <2>1, JobsAuthenticate, JobsInsecure, AnswersAuthenticate, VerdictsAuthenticate
  <2>2. CASE ~ Authenticate(t)
    <3>1. Verdicts'
      BY <1>0, <1>2, <2>2, VerdictsAuth
    <3>2. Jobs'
      BY <1>0, <1>2, <2>2, JobsSend, JobsAuth DEF AuthActions
    <3>3. Answers'
      BY <1>0, <1>2, <2>2, AnswersSend, AnswersAuth DEF AuthActions
    <3> QED
      BY <3>1, <3>2, <3>3
  <2> QED
    BY <2>1, <2>2
<1>3. ASSUME NEW t \in Thread,
             \/ BeginReset(t) \/ PollReset(t) \/ GetPsys(t) \/ Wake(t) \/ Woken(t) \/ PowerPsys(t)
      PROVE  Jobs' /\ Answers' /\ Verdicts'
  BY <1>0, <1>1, <1>3, ApartThreads, SilentThreads
<1>4. Hardware => Jobs' /\ Answers' /\ Verdicts'
  BY <1>0, JobsHardware, AnswersHardware, VerdictsHardware
<1>5. ASSUME UNCHANGED vars \/ RuntimeSuspend
      PROVE  Jobs' /\ Answers' /\ Verdicts'
  <2>1. /\ Stands
        /\ UNCHANGED << cmd, door, jobs, setup, gaveUp, authMutex, verdict, secure >>
        /\ UNCHANGED << answer, recvDone, recvData >>
    BY <1>0, <1>5, Standing
       DEF RuntimeSuspend, vars, buttress, ipcState, locks, mailbox, waits, security
  <2> QED
    BY <1>0, <2>1, JobsStands, AnswersStands, VerdictsStands
<1>6. ASSUME NEW t \in Debugfs, FwAuthenticate(t) \/ DbgGot(t) \/ DbgDone(t)
      PROVE  Jobs' /\ Answers' /\ Verdicts'
  <2>1. t \in Thread
    BY DEF Debugfs
  <2>2. CASE DbgDone(t) \/ (DbgGot(t) /\ rc[t] = "ok")
    BY <1>0, <1>1, <2>1, <2>2, ApartThreads, SilentThreads
  <2>3. CASE FwAuthenticate(t) \/ (DbgGot(t) /\ rc[t] # "ok")
    BY <1>0, <2>1, <2>3, JobsForget, AnswersForget, VerdictsForget
  <2> QED
    BY <1>6, <2>2, <2>3
<1>7. ASSUME \/ Probe \/ ProbeStep \/ Probed \/ Remove \/ RemoveStep
             \/ Sleep \/ Resume \/ ResumeGet \/ ResumeGot \/ Resumed \/ ResetPrepare
      PROVE  Jobs' /\ Answers' /\ Verdicts'
  BY <1>0, <1>0a, <1>1, <1>7, ApartPci, SilentPci
<1>8. ASSUME ResumeReset \/ Reset \/ ResetDone
      PROVE  Jobs' /\ Answers' /\ Verdicts'
  BY <1>0, <1>0a, <1>8, JobsForget, AnswersForget, VerdictsForget
<1>9. ASSUME NEW t \in Debugfs, FwAuthenticateTimesOut(t)
      PROVE  Jobs' /\ Answers' /\ Verdicts'
  BY <1>0, <1>9, TimesOut
<1>10. Jobs' /\ Answers' /\ Verdicts'
  BY <1>2, <1>3, <1>4, <1>5, <1>6, <1>7, <1>8, <1>9, StepsOf
<1> QED
  BY <1>0, <1>10 DEF IInv

-----------------------------------------------------------------------------
(* The theorems *)

LEMMA DeviceHolds ==
  Spec => []DeviceInv
<1>1. DeviceInv /\ [Next]_vars => DeviceInv'
  BY DeviceStep
<1> QED
  BY <1>1, DeviceInit, PTL DEF Spec

LEMMA IInvHolds ==
  ASSUME ResetsBetween
  PROVE  Spec => []IInv
<1>1. IInv /\ [Next]_vars => IInv'
  BY IInvStep
<1> QED
  BY <1>1, IInvInit, PTL DEF Spec

\* Of a thread in the middle of an authentication: what its caller has done.
LEMMA Authentic ==
  ASSUME DeviceInv, NEW t \in Thread, InAuth(t)
  PROVE  /\ Past(t)
         /\ \/ phase \in {"bound", "resetting"} \/ (phase = "removing" /\ step = 1)
            \/ phase = "probing" /\ step = 16
<1>0. Control /\ Phases
  BY DEF DeviceInv
<1>1. at[t] \in Auths \cup Sends /\ at[t] \notin Wakes \cup Resets /\ Base(t) \in AuthBack
  BY <1>0, Where, Disjoint DEF InAuth
<1>2. CASE Base(t) = "dbgDone"
  <2>1. t \in Debugfs
    BY <1>0, <1>2 DEF Phases, PciTop, Debugfs
  <2>2. phase \in {"bound", "resetting"} \/ (phase = "removing" /\ step = 1)
    BY <1>0, <1>2, <2>1 DEF Phases
  <2> QED
    BY <1>1, <1>2, <2>2 DEF Past, Holds
<1>3. CASE Base(t) = "resumed"
  <2>1. t = Pci
    BY <1>0, <1>3 DEF Phases, DbgTop, Debugfs
  <2>2. phase = "bound"
    BY <1>0, <1>3, <2>1 DEF Phases, PhasesOf
  <2> QED
    BY <1>1, <1>3, <2>2 DEF Past, Holds
<1>4. CASE Base(t) = "probed"
  <2>1. t = Pci
    BY <1>0, <1>4 DEF Phases, DbgTop, Debugfs
  <2>2. phase = "probing"
    BY <1>0, <1>4, <2>1 DEF Phases, PhasesOf
  <2>3. at[t] \notin Gets \cup Wakes \cup Resets
    BY <1>1, Disjoint
  <2>4. step \in CallStepOf(at[t])
    BY <1>0, <1>4, <2>1 DEF Phases
  <2>5. step = 16
    BY <1>1, <2>3, <2>4 DEF CallStepOf
  <2> QED
    BY <1>1, <1>4, <2>2, <2>5 DEF Past, Holds
<1> QED
  BY <1>1, <1>2, <1>3, <1>4 DEF AuthBack

\* The device is awake for everybody who has sent a command to the CSE: the
\* reference on psys is taken before, and given back after, the authentication.
THEOREM AwakeForCse == Spec => []AuthenticatesAwake
<1>1. DeviceInv => AuthenticatesAwake
  <2> SUFFICES ASSUME DeviceInv, NEW t \in Thread, cmd[t] # NoCommand PROVE rpm = "active"
    BY DEF AuthenticatesAwake, Authenticating
  <2>1. InAuth(t)
    BY DEF DeviceInv, Commands
  <2>2. Past(t)
    BY <2>1, Authentic
  <2> QED
    BY <2>2 DEF DeviceInv, Awake
<1> QED
  BY <1>1, DeviceHolds, PTL

\* A driver that is not bound holds nothing but what its failed probe is known
\* to leave behind: the labels of ipu_pci_probe() and ipu_pci_remove().
THEOREM UnboundHoldsNothing == Spec => []NothingHeldUnbound
<1>1. DeviceInv => NothingHeldUnbound
  BY DEF DeviceInv, HeldInv
<1> QED
  BY <1>1, DeviceHolds, PTL

\* A driver that is bound tries an IPC reset after the hardware has lost the
\* session, or remembers in ipc_reinit that one is due.
THEOREM SessionRemembered == Spec => []ResetRemembered
<1>1. DeviceInv => ResetRemembered
  BY DEF DeviceInv, Sessions, ResetRemembered
<1> QED
  BY <1>1, DeviceHolds, PTL

\* When the device is not reset while a thread authenticates, the CSE works on
\* the image only while the image and its package directory are mapped.
THEOREM ImageStaysMapped ==
  ASSUME ResetsBetween
  PROVE  Spec => []CseReadsMappedImage
<1>1. IInv => CseReadsMappedImage
  <2> SUFFICES ASSUME IInv, jobs # << >>, gaveUp = "no" PROVE {"image", "pkgDir"} \subseteq held
    BY DEF CseReadsMappedImage
  <2>1. DeviceInv /\ Jobs /\ Commands /\ HeldInv
    BY DEF IInv, DeviceInv
  <2>2. authMutex # Free
    BY <2>1 DEF Jobs, Quiet
  <2>3. PICK t \in Thread : InAuth(t)
    BY <2>1, <2>2 DEF Commands
  <2>4. \/ phase \in {"bound", "resetting"} \/ (phase = "removing" /\ step = 1)
        \/ phase = "probing" /\ step = 16
    BY <2>1, <2>3, Authentic
  <2>5. CASE phase = "probing" /\ step = 16
    <3>1. Holding(16, held)
      BY <2>1, <2>5, HeldProbing
    <3>2. "image" \in held <=> 14 < 16
      BY <3>1, HoldingNames
    <3>3. "pkgDir" \in held <=> 15 < 16
      BY <3>1, HoldingNames
    <3> QED
      BY <3>2, <3>3
  <2>6. CASE phase \in {"bound", "resetting"} \/ (phase = "removing" /\ step = 1)
    <3>1. held = All
      BY <2>1, <2>6 DEF HeldInv
    <3> QED
      BY <3>1 DEF All
  <2> QED
    BY <2>4, <2>5, <2>6
<1> QED
  BY <1>1, IInvHolds, PTL

\* When the device is not reset while a thread authenticates, nobody is inside
\* the driver and no authentication has failed, the success that was reported
\* last is what the hardware says, however often the commands were sent: the CSE
\* answers them in order, so the answer to one proves the other over.
THEOREM SuccessHolds ==
  ASSUME ResetsBetween
  PROVE  Spec => []SuccessIsReal
<1>1. IInv => SuccessIsReal
  <2> SUFFICES ASSUME IInv, verdict = "ok", secure, gaveUp # "failed", \A t \in Thread : at[t] = "idle"
               PROVE  AuthDone
    BY DEF SuccessIsReal
  <2>1. Control /\ Verdicts
    BY DEF IInv, DeviceInv
  <2>2. \A t \in Thread : ~ InAuth(t)
    BY DEF InAuth, Auths, Sends
  <2>3. \A t \in Thread : ~ Waits(t)
    BY <2>1, IdleBase DEF Waits
  <2> QED
    BY <2>1, <2>2, <2>3 DEF Verdicts, Real
<1> QED
  BY <1>1, IInvHolds, PTL
=============================================================================
