---------------------------- MODULE AccountProofs ----------------------------
(****************************************************************************)
(* Proofs about Account: logins and the setup command on one account.  What  *)
(* a login does to the invariant was proved in PamLoginProofs; here it is     *)
(* what the command does to it.                                               *)
(****************************************************************************)
EXTENDS Account, PamLoginProofs

USE DEF Phase, Working, Holding, Saving, Command!SetupPhase

\* An option that is accepted keeps the options within their bounds.
LEMMA ApplyParsed ==
    ASSUME NEW o, Parsed(o), NEW c \in Command!CommandOption, Command!Accepts(o, c)
    PROVE  Parsed([Command!Apply(o, c) EXCEPT !.count = o.count + 1])
<1> DEFINE r == Command!Apply(o, c)
<1> USE DEF Command!Apply, Command!Accepts
<1>1. o \in OptionType /\ (o.r_limit = -1 <=> o.r_time = -1)
  BY DEF Parsed
<1>2. c.name \in {"-c", "-t", "-d", "-D", "-f", "-u", "-W", "-r", "-R", "-w"}
  BY DEF Command!CommandOption, Command!Flag
<1>3. r \in OptionType /\ (r.r_limit = -1 <=> r.r_time = -1)
  <2>1. CASE c.name = "-c"
    BY <1>1, <2>1 DEF OptionType
  <2>2. CASE c.name = "-t"
    BY <1>1, <2>2 DEF OptionType
  <2>3. CASE c.name = "-d"
    BY <1>1, <2>3 DEF OptionType
  <2>4. CASE c.name = "-D"
    BY <1>1, <2>4 DEF OptionType
  <2>5. CASE c.name = "-f"
    <3>1. r = [o EXCEPT !.force = TRUE]
      BY <2>5
    <3> HIDE DEF r
    <3>2. r.r_limit = o.r_limit /\ r.r_time = o.r_time
      BY <1>1, <3>1 DEF OptionType
    <3>3. r \in OptionType
      <4> DEFINE yes == TRUE
      <4>1. yes \in BOOLEAN /\ r = [o EXCEPT !.force = yes]
        BY <3>1
      <4> HIDE DEF yes
      <4> QED BY <1>1, <4>1 DEF OptionType
    <3> QED BY <1>1, <3>2, <3>3
  <2>6. CASE c.name = "-u"
    <3>1. r = [o EXCEPT !.r_limit = -1, !.r_time = -1]
      BY <2>6
    <3> HIDE DEF r
    <3>2. r \in OptionType
      <4> DEFINE m == -1
      <4>1. m \in -1..10 /\ m \in {-1, 0} \cup 15..600
        OBVIOUS
      <4> DEFINE q == [o EXCEPT !.r_limit = m]
      <4> HIDE DEF m
      <4>2. q \in OptionType
        BY <1>1, <4>1 DEF OptionType
      <4>3. r = [q EXCEPT !.r_time = m]
        BY <3>1 DEF m
      <4> HIDE DEF q
      <4> QED BY <4>1, <4>2, <4>3 DEF OptionType
    <3>3. r.r_limit = -1 /\ r.r_time = -1
      BY <1>1, <3>1 DEF OptionType
    <3> QED BY <3>2, <3>3
  <2>7. CASE c.name = "-W"
    BY <1>1, <2>7 DEF OptionType
  <2>8. CASE c.name = "-r"
    BY <1>1, <2>8 DEF OptionType
  <2>9. CASE c.name = "-R"
    BY <1>1, <2>9 DEF OptionType
  <2>10. CASE c.name = "-w"
    BY <1>1, <2>10 DEF OptionType
  <2> QED BY <1>2, <2>1, <2>2, <2>3, <2>4, <2>5, <2>6, <2>7, <2>8, <2>9, <2>10
<1> DEFINE m == o.count + 1
<1>4. m \in Int
  BY <1>1 DEF OptionType
<1> HIDE DEF r, m
<1>5. [r EXCEPT !.count = m] \in OptionType
  BY <1>3, <1>4 DEF OptionType
<1>6. [r EXCEPT !.count = m].r_limit = r.r_limit /\ [r EXCEPT !.count = m].r_time = r.r_time
  BY <1>3 DEF OptionType
<1> QED BY <1>3, <1>5, <1>6 DEF Parsed, r, m

\* What the options and the answers make is a file.
LEMMA NewFileDrafted ==
    ASSUME NEW o, Parsed(o), Command!Complete(o), NEW k \in Secret,
           NEW codes \in Drawn, NEW totp \in BOOLEAN, NEW disallow \in BOOLEAN,
           NEW bigger \in BOOLEAN, NEW limit \in BOOLEAN, bigger => o.window_size = 0
    PROVE  Drafted(Command!NewFile(o, k, codes, totp, disallow, bigger, limit))
<1> DEFINE w == Command!WindowOf(o, totp, bigger)
           h == IF totp THEN 0 ELSE 1
           d == totp /\ disallow
           n == IF o.r_limit > 0 THEN o.r_limit ELSE IF o.r_limit = 0 /\ limit THEN 3 ELSE 0
           t == IF o.r_limit > 0 THEN o.r_time ELSE IF o.r_limit = 0 /\ limit THEN 30 ELSE 0
           ls == IF o.window_size # 0 \/ bigger THEN {"WINDOW_SIZE"} ELSE {}
           f == Command!NewFile(o, k, codes, totp, disallow, bigger, limit)
<1>1. /\ o.r_limit \in -1..10 /\ o.r_time \in {-1, 0} \cup 15..600 /\ o.window_size \in -1..21
      /\ (o.r_limit = -1) = (o.r_time = -1)
  BY DEF Parsed, OptionType
<1>2. (o.r_limit = 0) = (o.r_time = 0)
  BY DEF Command!Complete
<1>3. w \in -1..21 /\ w # 0
  BY <1>1 DEF Command!WindowOf
<1>4. n \in Nat /\ t \in Nat /\ (n = 0 \/ (n \in 1..10 /\ t \in 15..600))
  BY <1>1, <1>2
<1>5. h \in Nat /\ totp = (h = 0)
  OBVIOUS
<1>6. codes \in SUBSET ScratchCode /\ IsFiniteSet(codes) /\ IsFiniteSet({})
  BY DrawAssumption, FS_EmptySet
<1>7. d \in BOOLEAN /\ (d => totp)
  OBVIOUS
<1>8. ls \in SUBSET Option
  BY DEF Option
<1>9. <<>> \in Seq(Nat) /\ <<>> \in Seq([tm : Int, skew : Int])
  OBVIOUS
<1>10. f = [secret |-> k, totp |-> totp, hotp |-> h, scratch |-> codes, window |-> w,
            disallow_reuse |-> d, blocked |-> {}, attempts |-> n, interval |-> t,
            stamps |-> <<>>, skew |-> 0, resetting |-> <<>>, lines |-> ls]
  BY DEF Command!NewFile
<1> HIDE DEF w, h, d, n, t, ls, f
<1>11. f \in Lines
  <2>1. w \in Int
    BY <1>3
  <2> QED BY <1>4, <1>5, <1>6, <1>7, <1>8, <1>9, <1>10, <2>1 DEF Lines
<1>12. /\ f.scratch = codes /\ f.blocked = {} /\ f.window = w /\ f.stamps = <<>>
       /\ f.attempts = n /\ f.interval = t /\ f.totp = totp /\ f.hotp = h
       /\ f.disallow_reuse = d
  BY <1>10
<1>13. f \in File
  BY <1>6, <1>11, <1>12 DEF File
<1> QED BY <1>3, <1>4, <1>5, <1>7, <1>12, <1>13 DEF Drafted, f

-------------------------------------------------------------------------------
(* What a step of the command does.                                          *)

Drafting == {"create", "write", "rename"}
SetupLocals ==
    /\ spc \in [Setter -> Command!SetupPhase]
    /\ opt \in [Setter -> OptionType] /\ \A s \in Setter : Parsed(opt[s])
    /\ wtime \in [Setter -> Nat]
    /\ draft \in [Setter -> File \cup {NoFile}]
    /\ \A s \in Setter : IF spc[s] \in Drafting THEN Drafted(draft[s]) ELSE draft[s] = NoFile

LEMMA TypesOfSetup == SetupTypes <=> SetupLocals /\ tmp \in Login \cup Setter \cup {NoOne}
BY DEF SetupTypes, SetupLocals, Drafting

LEMMA NoOptionsParsed == Parsed(Command!NoOptions) /\ Command!NoOptions \in OptionType
<1> DEFINE o == Command!NoOptions
<1>1. o = [mode |-> "ASK", reuse |-> "ASK", force |-> FALSE, r_limit |-> 0, r_time |-> 0,
           window_size |-> 0, count |-> 0]
  BY DEF Command!NoOptions
<1>2. /\ o.r_limit \in -1..10 /\ o.r_time \in {-1, 0} \cup 15..600 /\ o.window_size \in -1..21
      /\ o.count \in Int /\ o.r_limit # -1 /\ o.r_time # -1
  BY <1>1
<1>3. o.force \in BOOLEAN /\ o.mode = "ASK" /\ o.reuse = "ASK"
  BY <1>1
<1>4. o = [mode |-> o.mode, reuse |-> o.reuse, force |-> o.force, r_limit |-> o.r_limit,
           r_time |-> o.r_time, window_size |-> o.window_size, count |-> o.count]
  BY <1>1
<1> HIDE DEF o
<1>5. o \in OptionType
  BY <1>2, <1>3, <1>4 DEF OptionType
<1> QED BY <1>2, <1>5 DEF Parsed, o

\* The local variables of one command change.
LEMMA SetupMoves ==
    ASSUME SetupLocals, NEW s \in Setter, NEW phase \in Command!SetupPhase,
           NEW o, Parsed(o), NEW f, NEW t \in Nat,
           IF phase \in Drafting THEN Drafted(f) ELSE f = NoFile,
           spc' = [spc EXCEPT ![s] = phase], opt' = [opt EXCEPT ![s] = o],
           draft' = [draft EXCEPT ![s] = f], wtime' = [wtime EXCEPT ![s] = t]
    PROVE  SetupLocals'
<1>1. o \in OptionType /\ f \in File \cup {NoFile}
  BY DEF Parsed, Drafted
<1>2. /\ spc' \in [Setter -> Command!SetupPhase] /\ opt' \in [Setter -> OptionType]
      /\ wtime' \in [Setter -> Nat] /\ draft' \in [Setter -> File \cup {NoFile}]
  BY <1>1 DEF SetupLocals
<1>3. ASSUME NEW q \in Setter
      PROVE  /\ Parsed(opt'[q])
             /\ IF spc'[q] \in Drafting THEN Drafted(draft'[q]) ELSE draft'[q] = NoFile
  <2>1. CASE q = s
    <3>1. spc'[q] = phase /\ opt'[q] = o /\ draft'[q] = f
      BY <2>1 DEF SetupLocals
    <3> QED BY <3>1
  <2>2. CASE q # s
    <3>1. spc'[q] = spc[q] /\ opt'[q] = opt[q] /\ draft'[q] = draft[q]
      BY <2>2 DEF SetupLocals
    <3> QED BY <3>1 DEF SetupLocals
  <2> QED BY <2>1, <2>2
<1> QED BY <1>2, <1>3 DEF SetupLocals

\* The command ends.
LEMMA SetupExits ==
    ASSUME SetupLocals, NEW s \in Setter, NEW phase \in Command!SetupPhase, phase \notin Drafting,
           Command!Exit(s, phase)
    PROVE  SetupLocals'
<1>1. /\ spc' = [spc EXCEPT ![s] = phase] /\ opt' = [opt EXCEPT ![s] = Command!NoOptions]
      /\ draft' = [draft EXCEPT ![s] = NoFile] /\ wtime' = [wtime EXCEPT ![s] = 0]
  BY DEF Command!Exit, Command!To
<1>2. 0 \in Nat
  OBVIOUS
<1> QED BY <1>1, <1>2, NoOptionsParsed, SetupMoves

\* The command goes on to write what it has drafted.
LEMMA SetupGoes ==
    ASSUME SetupLocals, NEW s \in Setter, NEW phase \in Drafting, spc[s] \in Drafting,
           NEW t \in Nat, Command!To(s, phase), wtime' = [wtime EXCEPT ![s] = t],
           opt' = [opt EXCEPT ![s] = opt[s]], draft' = [draft EXCEPT ![s] = draft[s]]
    PROVE  SetupLocals'
<1>1. spc' = [spc EXCEPT ![s] = phase]
  BY DEF Command!To
<1>2. phase \in Command!SetupPhase /\ Parsed(opt[s]) /\ Drafted(draft[s])
  BY DEF SetupLocals, Drafting
<1>3. IF phase \in Drafting THEN Drafted(draft[s]) ELSE draft[s] = NoFile
  BY <1>2
<1> DEFINE o == opt[s]
           f == draft[s]
<1>4. /\ Parsed(o) /\ (IF phase \in Drafting THEN Drafted(f) ELSE f = NoFile)
      /\ opt' = [opt EXCEPT ![s] = o] /\ draft' = [draft EXCEPT ![s] = f]
  BY <1>2, <1>3
<1> HIDE DEF o, f, Command!SetupPhase
<1> QED BY <1>1, <1>2, <1>4, SetupMoves

LEMMA SetupLocalsStep ==
    ASSUME SetupLocals, now \in Nat, NEW s \in Setter, Command!SetupStep(s)
    PROVE  SetupLocals'
<1>1. CASE Command!ParseOption(s)
  <2>1. CASE Command!Exit(s, "failed")
    <3>1. "failed" \in Command!SetupPhase /\ "failed" \notin Drafting
      BY DEF Drafting
    <3> QED BY <2>1, <3>1, SetupExits
  <2>2. CASE ~Command!Exit(s, "failed")
    <3>1. PICK c \in Command!CommandOption :
            /\ Command!Accepts(opt[s], c)
            /\ opt' = [opt EXCEPT ![s] = [Command!Apply(opt[s], c) EXCEPT !.count = opt[s].count + 1]]
            /\ UNCHANGED <<spc, draft, wtime>>
      BY <1>1, <2>2 DEF Command!ParseOption
    <3>2. Parsed(opt[s]) /\ spc[s] \in Command!SetupPhase /\ wtime[s] \in Nat
      BY DEF SetupLocals
    <3>3. Parsed([Command!Apply(opt[s], c) EXCEPT !.count = opt[s].count + 1])
      BY <3>1, <3>2, ApplyParsed
    <3>4. /\ spc' = [spc EXCEPT ![s] = spc[s]] /\ draft' = [draft EXCEPT ![s] = draft[s]]
          /\ wtime' = [wtime EXCEPT ![s] = wtime[s]]
      BY <3>1 DEF SetupLocals
    <3>5. IF spc[s] \in Drafting THEN Drafted(draft[s]) ELSE draft[s] = NoFile
      BY DEF SetupLocals
    <3> DEFINE o == [Command!Apply(opt[s], c) EXCEPT !.count = opt[s].count + 1]
               f == draft[s]
               t == wtime[s]
               at == spc[s]
    <3>6. /\ Parsed(o) /\ (IF at \in Drafting THEN Drafted(f) ELSE f = NoFile)
          /\ at \in Command!SetupPhase /\ t \in Nat
          /\ spc' = [spc EXCEPT ![s] = at] /\ opt' = [opt EXCEPT ![s] = o]
          /\ draft' = [draft EXCEPT ![s] = f] /\ wtime' = [wtime EXCEPT ![s] = t]
      BY <3>1, <3>2, <3>3, <3>4, <3>5
    <3> HIDE DEF o, f, t, at
    <3> QED BY <3>6, SetupMoves
  <2> QED BY <2>1, <2>2
<1>2. CASE Command!Prepare(s)
  <2>0. PICK codes \in Drawn, bigger, limit \in BOOLEAN,
             totp \in (IF opt[s].mode = "ASK" THEN BOOLEAN ELSE {opt[s].mode = "TOTP"}),
             disallow \in (IF opt[s].reuse = "ASK" THEN BOOLEAN ELSE {opt[s].reuse = "DISALLOW"}) :
          draft' = [draft EXCEPT ![s] =
                      Command!NewFile(opt[s], SecretOf(s), codes, totp, disallow,
                                      opt[s].window_size = 0 /\ bigger, limit)]
    BY <1>2 DEF Command!Prepare
  <2>1. bigger \in BOOLEAN /\ totp \in BOOLEAN /\ disallow \in BOOLEAN
    OBVIOUS
  <2> DEFINE more == opt[s].window_size = 0 /\ bigger
             f == Command!NewFile(opt[s], SecretOf(s), codes, totp, disallow, more, limit)
  <2>2. more \in BOOLEAN /\ (more => opt[s].window_size = 0)
    OBVIOUS
  <2>3. Parsed(opt[s]) /\ Command!Complete(opt[s]) /\ SecretOf(s) \in Secret
    BY <1>2, DrawAssumption DEF SetupLocals, Command!Prepare
  <2> HIDE DEF more
  <2>4. Drafted(f)
    BY <2>1, <2>2, <2>3, NewFileDrafted
  <2>5. draft' = [draft EXCEPT ![s] = f]
    BY <2>0 DEF more
  <2> HIDE DEF f
  <2>6. /\ spc' = [spc EXCEPT ![s] = "create"] /\ opt' = [opt EXCEPT ![s] = Command!NoOptions]
        /\ wtime' = [wtime EXCEPT ![s] = wtime[s]] /\ wtime[s] \in Nat
    BY <1>2 DEF Command!Prepare, Command!To, SetupLocals
  <2>7. "create" \in Command!SetupPhase /\ "create" \in Drafting
    BY DEF Drafting
  <2> QED BY <2>4, <2>5, <2>6, <2>7, NoOptionsParsed, SetupMoves
<1>3. ASSUME NEW phase \in {"done", "declined", "failed", "killed"}, Command!Exit(s, phase)
      PROVE  SetupLocals'
  <2>1. phase \in Command!SetupPhase /\ phase \notin Drafting
    BY DEF Drafting
  <2> QED BY <1>3, <2>1, SetupExits
<1>4. CASE Command!PrepareFails(s) \/ Command!Decline(s) \/ Command!SetupCreateFails(s)
           \/ Command!SetupRename(s) \/ Command!SetupSaveFails(s) \/ Command!SetupKill(s)
  BY <1>3, <1>4
  DEF Command!PrepareFails, Command!Decline, Command!SetupCreateFails, Command!SetupRename,
      Command!SetupSaveFails, Command!SetupKill
<1>5. CASE Command!SetupCreate(s)
  <2>1. /\ Command!To(s, "write") /\ opt' = [opt EXCEPT ![s] = opt[s]]
        /\ draft' = [draft EXCEPT ![s] = draft[s]] /\ wtime[s] \in Nat
        /\ wtime' = [wtime EXCEPT ![s] = wtime[s]]
        /\ spc[s] \in Drafting /\ "write" \in Drafting
    BY <1>5 DEF Command!SetupCreate, SetupLocals, Drafting
  <2> QED BY <2>1, SetupGoes
<1>6. CASE Command!SetupWrite(s)
  <2>1. /\ Command!To(s, "rename") /\ opt' = [opt EXCEPT ![s] = opt[s]]
        /\ draft' = [draft EXCEPT ![s] = draft[s]]
        /\ wtime' = [wtime EXCEPT ![s] = now]
        /\ spc[s] \in Drafting /\ "rename" \in Drafting
    BY <1>6 DEF Command!SetupWrite, SetupLocals, Drafting
  <2> QED BY <2>1, SetupGoes
<1> QED BY <1>1, <1>2, <1>4, <1>5, <1>6 DEF Command!SetupStep


\* A step of one command is a step of no other.
LEMMA OtherSetters ==
    ASSUME SetupLocals, NEW s \in Setter, Command!SetupStep(s), NEW q \in Setter, q # s
    PROVE  spc'[q] = spc[q]
<1>1. (\E to : spc' = [spc EXCEPT ![s] = to]) \/ spc' = spc => spc'[q] = spc[q]
  BY DEF SetupLocals
<1>2. (\E to : spc' = [spc EXCEPT ![s] = to]) \/ spc' = spc
  BY DEF Command!SetupStep, Command!ParseOption, Command!Prepare, Command!PrepareFails,
         Command!Decline, Command!SetupCreate, Command!SetupCreateFails, Command!SetupWrite,
         Command!SetupRename, Command!SetupSaveFails, Command!SetupKill, Command!Exit, Command!To
<1> QED BY <1>1, <1>2

\* What the command does to the file, and when.
Replaces(s) ==
    /\ spc[s] = "rename" /\ file' = draft[s] /\ mtime' = wtime[s] /\ tmp' = NoOne
    /\ version' = version + 1
    /\ seen' = seen \cup {Stamp(version + 1, draft[s], wtime[s])}
    /\ spc' = [spc EXCEPT ![s] = "done"]
Removes(s) ==
    /\ spc[s] \in {"write", "rename"} /\ file' = NoFile /\ tmp' = tmp
    /\ UNCHANGED <<mtime, version, seen>>
    /\ spc' = [spc EXCEPT ![s] = "failed"]
Creates(s) ==
    /\ tmp = NoOne /\ tmp' = s /\ UNCHANGED <<file, mtime, version, seen>>
    /\ spc' = [spc EXCEPT ![s] = "write"]
Elsewhere(s) ==
    /\ UNCHANGED <<file, mtime, tmp, version, seen>>
    /\ spc[s] \notin {"done", "declined", "failed", "killed"}
    /\ spc' = spc \/ \E to : /\ spc' = [spc EXCEPT ![s] = to]
                             /\ to \in {"write", "rename"} => spc[s] \in {"write", "rename"}

LEMMA SetupEffect ==
    ASSUME NEW s \in Setter, Command!SetupStep(s)
    PROVE  now' = now /\ (Replaces(s) \/ Removes(s) \/ Creates(s) \/ Elsewhere(s))
<1>1. CASE Command!SetupRename(s)
  BY <1>1 DEF Command!SetupRename, Command!Exit, Command!To, Replaces, Stamp
<1>2. CASE Command!SetupSaveFails(s)
  BY <1>2 DEF Command!SetupSaveFails, Command!Exit, Command!To, Removes
<1>3. CASE Command!SetupCreate(s)
  BY <1>3 DEF Command!SetupCreate, Command!To, Creates
<1>4. CASE Command!ParseOption(s)
  BY <1>4 DEF Command!ParseOption, Command!Exit, Command!To, Elsewhere
<1>5. CASE Command!Prepare(s)
  <2>1. /\ UNCHANGED <<now, file, mtime, tmp, version, seen>> /\ spc[s] = "parse"
        /\ spc' = [spc EXCEPT ![s] = "create"]
    BY <1>5 DEF Command!Prepare, Command!To
  <2>2. "create" \notin {"write", "rename"}
    OBVIOUS
  <2>3. \E to : spc' = [spc EXCEPT ![s] = to] /\ to \notin {"write", "rename"}
    BY <2>1, <2>2
  <2> QED BY <2>1, <2>3 DEF Elsewhere
<1>6. CASE Command!PrepareFails(s) \/ Command!Decline(s) \/ Command!SetupCreateFails(s)
  BY <1>6 DEF Command!PrepareFails, Command!Decline, Command!SetupCreateFails, Command!Exit,
              Command!To, Elsewhere
<1>7. CASE Command!SetupWrite(s)
  BY <1>7 DEF Command!SetupWrite, Command!To, Elsewhere
<1>8. CASE Command!SetupKill(s)
  <2>1. /\ UNCHANGED <<now, file, mtime, tmp, version, seen>>
        /\ spc[s] \notin {"done", "declined", "failed", "killed"}
        /\ spc' = [spc EXCEPT ![s] = "killed"]
    BY <1>8 DEF Command!SetupKill, Command!Exit, Command!To
  <2>2. "killed" \notin {"write", "rename"}
    OBVIOUS
  <2>3. \E to : spc' = [spc EXCEPT ![s] = to] /\ to \notin {"write", "rename"}
    BY <2>1, <2>2
  <2> QED BY <2>1, <2>3 DEF Elsewhere
<1> QED BY <1>1, <1>2, <1>3, <1>4, <1>5, <1>6, <1>7, <1>8 DEF Command!SetupStep

LEMMA SetupInv == AccountInv /\ SetupNext => AccountInv'
<1> SUFFICES ASSUME AccountInv, SetupNext PROVE AccountInv'
  OBVIOUS
<1>1. PICK s \in Setter : Command!SetupStep(s)
  BY DEF SetupNext
<1>2. UNCHANGED <<pc, sess, logins, grants>>
  BY DEF SetupNext
<1>3. now' = now /\ (Replaces(s) \/ Removes(s) \/ Creates(s) \/ Elsewhere(s))
  BY <1>1, SetupEffect
<1>4. LoginTypes /\ SetupLocals /\ now \in Nat /\ tmp \in Login \cup Setter \cup {NoOne}
  BY TypesOfSetup DEF AccountInv, LoginTypes
<1>5. OneWriter /\ TmpExclusive
  BY DEF AccountInv, OneWriter
<1>6. NoOne \notin Login /\ NoOne \notin Setter /\ s \notin Login
  BY LoginAssumption, SetterAssumption
<1>7. spc \in [Setter -> Command!SetupPhase]
  BY <1>4 DEF SetupLocals
<1>8. spc[s] = "rename" => draft[s] \in File /\ draft[s] # NoFile /\ wtime[s] \in Nat
  BY <1>4, NoFileFresh DEF SetupLocals, Drafting, Drafted
<1>9. LoginTypes'
  <2>1. /\ now' \in Nat /\ mtime' \in Nat /\ logins' \in Nat /\ version' \in Nat
        /\ file' \in File \cup {NoFile}
    BY <1>2, <1>3, <1>4, <1>8 DEF LoginTypes, Replaces, Removes, Creates, Elsewhere
  <2> QED BY <1>2, <1>4, <2>1 DEF LoginTypes
<1>10. SetupTypes'
  <2>1. SetupLocals'
    BY <1>1, <1>4, SetupLocalsStep
  <2>2. tmp' \in Login \cup Setter \cup {NoOne}
    BY <1>3, <1>4 DEF Replaces, Removes, Creates, Elsewhere
  <2> QED BY <2>1, <2>2 DEF SetupTypes, SetupLocals, Drafting
<1>11. OneWriter'
  <2>1. TmpExclusive'
    BY <1>2, <1>3, <1>5, <1>6 DEF TmpExclusive, OneWriter, Replaces, Removes, Creates, Elsewhere
  <2>2. ASSUME NEW q \in Setter, spc'[q] \in {"write", "rename"}
        PROVE  tmp' = q
    <3>1. CASE q # s
      <4>1. tmp = q
        BY <1>1, <1>4, <1>5, <2>2, <3>1, OtherSetters DEF OneWriter
      <4> QED BY <1>3, <1>5, <1>6, <3>1, <4>1 DEF OneWriter, Replaces, Removes, Creates, Elsewhere
    <3>2. CASE q = s
      BY <1>3, <1>5, <1>7, <2>2, <3>2 DEF OneWriter, Replaces, Removes, Creates, Elsewhere
    <3> QED BY <3>1, <3>2
  <2> QED BY <2>1, <2>2 DEF OneWriter
<1>12. Lost' => tmp' \in Setter /\ spc'[tmp'] = "failed"
  <2> SUFFICES ASSUME Lost' PROVE tmp' \in Setter /\ spc'[tmp'] = "failed"
    OBVIOUS
  <2>1. CASE Replaces(s)
    BY <1>8, <2>1 DEF Replaces, Lost
  <2>2. CASE Removes(s)
    BY <1>5, <1>7, <2>2 DEF Removes, OneWriter
  <2>3. CASE Creates(s) \/ Elsewhere(s)
    <3>1. Lost
      BY <2>3 DEF Lost, Creates, Elsewhere
    <3>2. tmp \in Setter /\ spc[tmp] = "failed"
      BY <3>1 DEF AccountInv
    <3> QED BY <1>6, <1>7, <2>3, <3>2 DEF Creates, Elsewhere
  <2> QED BY <1>3, <2>1, <2>2, <2>3
<1>13. Current'
  BY <1>3, <1>8 DEF AccountInv, Current, Stamp, Replaces, Removes, Creates, Elsewhere
<1>14. seen \subseteq seen' /\ (FreshStamps' => FreshStamps)
  BY <1>3 DEF FreshStamps, Replaces, Removes, Creates, Elsewhere
<1>15. ASSUME NEW p \in Login, pc'[p] \in Working
       PROVE  HasRead(p)' /\ (Replaces(s) => sess[p].ver # version')
  <2>1. HasRead(p) /\ sess[p].ver \in Nat /\ version \in Nat
    BY <1>2, <1>4, <1>15 DEF AccountInv, LoginTypes, LocalType
  <2>2. version' = version \/ (version' = version + 1)
    BY <1>3 DEF Replaces, Removes, Creates, Elsewhere
  <2>3. HasRead(p)'
    BY <1>2, <1>14, <2>1, <2>2 DEF HasRead
  <2>4. Replaces(s) => sess[p].ver # version'
    BY <2>1 DEF HasRead, Replaces
  <2> QED BY <2>3, <2>4
<1>16. ASSUME NEW p \in Login
       PROVE  Marked(p)' /\ Derived(p)'
  <2>1. Marked(p)'
    BY <1>2 DEF AccountInv, Marked
  <2>2. CASE Replaces(s)
    BY <1>2, <1>15, <2>1, <2>2 DEF Derived
  <2>3. CASE Removes(s)
    BY <2>1, <2>3 DEF Derived, Removes
  <2>4. CASE Creates(s) \/ Elsewhere(s)
    BY <1>2, <2>1, <2>4 DEF AccountInv, Derived, Creates, Elsewhere
  <2> QED BY <1>3, <2>2, <2>3, <2>4
<1>17. ASSUME NEW p \in Login, pc'[p] \in Saving
       PROVE  UNCHANGED <<file, version>>
  <2>1. tmp = p
    BY <1>2, <1>5, <1>17 DEF TmpExclusive
  <2> QED BY <1>3, <1>5, <1>6, <2>1 DEF OneWriter, Replaces, Removes, Creates, Elsewhere
<1>18. NoLostUpdate' /\ \A p \in Login : pc'[p] \in Saving => file' # NoFile
  BY <1>2, <1>14, <1>17 DEF AccountInv, NoLostUpdate
<1> QED BY <1>9, <1>10, <1>11, <1>12, <1>13, <1>15, <1>16, <1>18 DEF AccountInv
-------------------------------------------------------------------------------
(* What a step of a login does.                                              *)

\* A temporary file that is not a login's keeps the logins from replacing the file.
LEMMA Barred ==
    ASSUME TmpExclusive, tmp \notin Login \cup {NoOne}, [Next]_vars
    PROVE  UNCHANGED <<file, mtime, version, seen, tmp>>
<1>1. CASE Tick \/ UNCHANGED vars
  BY <1>1 DEF Tick, vars, history
<1>2. ASSUME NEW p \in Login, Act(p)
      PROVE  UNCHANGED <<file, mtime, version, seen, tmp>>
  <2>1. pc[p] \notin Holding /\ tmp # NoOne
    BY DEF TmpExclusive
  <2>2. ~Rename(p)
    BY <2>1 DEF Rename
  <2>3. tmp' = tmp
    BY <1>2, <2>1
    DEF Act, Open, OpenMissing, OpenFails, Step, RateLimit, TryCode, SkipMode, Conclude,
        CreateTmp, CreateFails, StatSame, StatChanged, WriteTmp, Rename, SaveFails, Kill, shared
  <2> QED BY <1>2, <2>2, <2>3, OnlyRename
<1> QED BY <1>1, <1>2 DEF Next, Act

\* A login that is about to save has found the file.
LEMMA SavingStep ==
    ASSUME LoginTypes, \A p \in Login : pc[p] \in Saving => file # NoFile, [Next]_vars
    PROVE  \A p \in Login : pc'[p] \in Saving => file' # NoFile
<1> SUFFICES ASSUME NEW q \in Login, pc'[q] \in Saving PROVE file # NoFile
  BY FileStays
<1>1. CASE Tick \/ UNCHANGED vars
  BY <1>1 DEF Tick, vars
<1>2. ASSUME NEW p \in Login, Act(p)
      PROVE  file # NoFile
  <2>1. CASE q # p
    BY <1>2, <2>1, Others
  <2>2. CASE q = p
    <3>1. pc \in [Login -> Phase]
      BY DEF LoginTypes
    <3>2. StatSame(p) \/ WriteTmp(p)
      BY <1>2, <2>2, <3>1
      DEF Act, Open, OpenMissing, OpenFails, Step, RateLimit, TryCode, SkipMode, Conclude,
          CreateTmp, CreateFails, StatChanged, Rename, SaveFails, Kill, Deny, Return, Goto
    <3> QED BY <2>2, <3>2 DEF StatSame, Unchanged, WriteTmp
  <2> QED BY <2>1, <2>2
<1> QED BY <1>1, <1>2 DEF Next, Act

LEMMA LoginInv == AccountInv /\ [Next]_vars /\ UNCHANGED <<spc, opt, draft, wtime>> => AccountInv'
<1> SUFFICES ASSUME AccountInv, [Next]_vars, UNCHANGED <<spc, opt, draft, wtime>>
             PROVE  AccountInv'
  OBVIOUS
<1>1. /\ LoginTypes /\ TmpExclusive /\ Current /\ AllRead /\ AllMarked /\ AllDerived
      /\ NoLostUpdate
  BY DEF AccountInv, OneWriter, AllRead, AllMarked, AllDerived
<1>2. /\ LoginTypes' /\ TmpExclusive' /\ Current' /\ AllRead' /\ AllMarked' /\ AllDerived'
      /\ NoLostUpdate'
  BY <1>1, TypeStep, TmpStep, CurrentStep, ReadStep, MarkedStep, DerivedStep, NoLostStep
<1>3. \A p \in Login : pc'[p] \in Saving => file' # NoFile
  BY <1>1, SavingStep DEF AccountInv
<1>4. SetupTypes'
  <2>1. tmp' \in Login \cup Setter \cup {NoOne}
    BY TmpType DEF AccountInv, SetupTypes
  <2> QED BY <2>1 DEF AccountInv, SetupTypes
<1>5. tmp \in Setter => UNCHANGED <<file, seen, tmp>>
  BY <1>1, Barred, SetterAssumption
<1>6. OneWriter'
  BY <1>2, <1>5 DEF AccountInv, OneWriter
<1>7. Lost' => tmp' \in Setter /\ spc'[tmp'] = "failed"
  <2> SUFFICES ASSUME Lost' PROVE tmp' \in Setter /\ spc'[tmp'] = "failed"
    OBVIOUS
  <2>1. file = NoFile
    BY <1>1, FileStays DEF Lost
  <2>2. seen' = seen
    <3>1. CASE Tick \/ UNCHANGED vars
      BY <3>1 DEF Tick, vars, history
    <3>2. ASSUME NEW p \in Login, Act(p)
          PROVE  seen' = seen
      <4>1. ~Rename(p)
        BY <1>1, NoFileFresh DEF Lost, Rename, LoginTypes
      <4> QED BY <3>2, <4>1, OnlyRename
    <3> QED BY <3>1, <3>2 DEF Next, Act
  <2>3. Lost
    BY <2>1, <2>2 DEF Lost
  <2> QED BY <1>5, <2>3 DEF AccountInv
<1> QED BY <1>2, <1>3, <1>4, <1>6, <1>7 DEF AccountInv, AllRead, AllMarked, AllDerived

LEMMA AccountStep == AccountInv /\ [AccountNext]_accountVars => AccountInv'
<1>1. [AccountNext]_accountVars =>
        SetupNext \/ ([Next]_vars /\ UNCHANGED <<spc, opt, draft, wtime>>)
  BY DEF AccountNext, LoginNext, accountVars
<1> QED BY <1>1, SetupInv, LoginInv

LEMMA AccountBegin == AccountInit => AccountInv
<1> SUFFICES ASSUME AccountInit PROVE AccountInv
  OBVIOUS
<1>1. Init /\ TypeOK
  BY TypeInit DEF AccountInit
<1>2. /\ \A s \in Setter : spc[s] = "parse" /\ opt[s] = Command!NoOptions /\ draft[s] = NoFile
      /\ spc \in [Setter -> Command!SetupPhase] /\ wtime \in [Setter -> Nat]
      /\ draft \in [Setter -> File \cup {NoFile}]
  BY DEF AccountInit, Command!SetupInit
<1>3. opt \in [Setter -> OptionType]
  BY NoOptionsParsed DEF AccountInit, Command!SetupInit
<1>4. SetupTypes
  BY <1>1, <1>2, <1>3, NoOptionsParsed DEF SetupTypes, TypeOK
<1>5. \A p \in Login : pc[p] = "idle"
  BY <1>1 DEF Init
<1>6. OneWriter /\ Current /\ ~Lost
  BY <1>1, <1>2, <1>5 DEF OneWriter, TmpExclusive, Init, Current, Lost
<1> QED BY <1>1, <1>4, <1>5, <1>6 DEF AccountInv, TypeOK, NoLostUpdate, Marked, Derived

\* The invariant of logins and setup commands that share an account.
THEOREM AccountInductive == AccountSpec => []AccountInv
BY AccountBegin, AccountStep, PTL DEF AccountSpec
-------------------------------------------------------------------------------
(* What follows.                                                             *)

\* The temporary file is written by one process at a time, be it a login or the
\* setup command.
THEOREM WriterIsAlone == AccountSpec => []OneWriter
<1>1. AccountInv => OneWriter
  BY DEF AccountInv
<1> QED BY <1>1, AccountInductive, PTL

\* A file that the setup command has removed when it failed to save is never
\* written again: the temporary file it leaves behind stops everybody.
THEOREM LostStaysLost == AccountSpec => LostForGood
<1>1. AccountInv /\ [AccountNext]_accountVars => [Lost => Lost']_accountVars
  <2> SUFFICES ASSUME AccountInv, [AccountNext]_accountVars, Lost PROVE Lost'
    OBVIOUS
  <2>1. tmp \in Setter /\ spc[tmp] = "failed"
    BY DEF AccountInv
  <2>2. CASE SetupNext
    <3>1. PICK s \in Setter : Command!SetupStep(s)
      BY <2>2 DEF SetupNext
    <3>2. Creates(s) \/ Elsewhere(s)
      BY <2>1, <3>1, SetupEffect DEF AccountInv, OneWriter, Replaces, Removes
    <3> QED BY <3>2 DEF Lost, Creates, Elsewhere
  <2>3. CASE [Next]_vars
    BY <2>1, <2>3, Barred, SetterAssumption DEF AccountInv, OneWriter, Lost
  <2> QED BY <2>2, <2>3 DEF AccountNext, LoginNext, accountVars
<1> QED BY <1>1, AccountInductive, PTL DEF AccountSpec, LostForGood

\* Whoever is let in by a code that has to be recorded used the secret that is in
\* force at that moment, however often the account is set up again.
THEOREM SecretsAreCurrent == AccountSpec => NoStaleSecret
<1>1. AccountInv /\ [AccountNext]_accountVars =>
        [FreshStamps' =>
           \A g \in grants' \ grants : OneTime(g.cred) =>
               file # NoFile /\ file.secret = g.cred.secret]_accountVars
  <2> SUFFICES ASSUME AccountInv, [AccountNext]_accountVars, FreshStamps',
                      NEW g \in grants', g \notin grants, OneTime(g.cred)
               PROVE  file # NoFile /\ file.secret = g.cred.secret
    OBVIOUS
  <2>1. [Next]_vars
    BY DEF AccountNext, LoginNext, SetupNext, accountVars
  <2>2. PICK p \in Login : Act(p)
    BY <2>1 DEF Next, Act, Tick, vars, history
  <2>3. LoginTypes /\ Marked(p) /\ Derived(p)
    BY DEF AccountInv
  <2>4. Rename(p) /\ g.cred = sess[p].cred
    BY <2>2, <2>3, GrantRecorded
  <2>5. pc[p] \in Saving /\ sess[p].ver = version /\ file # NoFile
    BY <2>1, <2>4, SeenGrows DEF Rename, AccountInv, NoLostUpdate
  <2>6. sess[p].cred.secret = sess[p].buf.secret /\ sess[p].buf.secret = file.secret
    BY <2>3, <2>4, <2>5 DEF Marked, Derived, Keeps
  <2> QED BY <2>4, <2>5, <2>6
<1> QED BY <1>1, AccountInductive, PTL DEF AccountSpec, NoStaleSecret


\* The first attempt that is recorded is within the limit.
LEMMA FirstAttempt ==
    ASSUME NEW f, Drafted(f), NEW t \in Nat
    PROVE  rate_limit(f, t).rc = 0
<1>1. f.stamps = <<>> /\ (f.attempts = 0 \/ (f.attempts \in 1..10 /\ f.interval \in 15..600))
  BY DEF Drafted
<1>2. CASE f.attempts = 0
  BY <1>2 DEF rate_limit
<1>3. CASE f.attempts \in 1..10 /\ f.interval \in 15..600
  <2> DEFINE all == Insert(f.stamps, t)
             stop == UpTo(all, t)
             start == UpTo(all, t - f.interval - 1) + 1
             exceeded == stop - start + 1 > f.attempts
             list == SubSeq(all, IF exceeded THEN stop - f.attempts + 1 ELSE start, stop)
  <2>1. UpTo(<<>>, t) = 0
    <3>1. {i \in DOMAIN <<>> : <<>>[i] <= t} = {}
      OBVIOUS
    <3> QED BY <3>1, FS_EmptySet DEF UpTo
  <2>2. SubSeq(<<>>, 1, 0) = <<>>
    OBVIOUS
  <2>3. all = <<t>>
    <3>1. all = SubSeq(<<>>, 1, 0) \o <<t>> \o SubSeq(<<>>, 1, 0)
      BY <1>1, <2>1 DEF Insert
    <3> DEFINE u == <<t>>
    <3>2. u \in Seq(Nat)
      OBVIOUS
    <3>3. all = <<>> \o u \o <<>>
      BY <2>2, <3>1
    <3> HIDE DEF u, all
    <3>4. <<>> \o u = u /\ u \o <<>> = u
      BY <3>2, ConcatEmptySeq
    <3>5. all = u
      BY <3>3, <3>4
    <3> QED BY <3>5 DEF u
  <2> HIDE DEF all
  <2>4. stop = 1
    <3>1. {i \in DOMAIN all : all[i] <= t} = {1}
      BY <2>3
    <3> QED BY <3>1, FS_Singleton DEF UpTo
  <2>5. start = 1
    <3>1. {i \in DOMAIN all : all[i] <= t - f.interval - 1} = {}
      BY <1>3, <2>3
    <3>2. UpTo(all, t - f.interval - 1) = 0
      BY <3>1, FS_EmptySet DEF UpTo
    <3> QED BY <3>2
  <2>6. rate_limit(f, t) =
          IF f.attempts = 0 THEN [rc |-> 0, buf |-> f, upd |-> FALSE]
          ELSE IF f.attempts > 100 \/ f.interval \notin 1..3600
          THEN [rc |-> -1, buf |-> f, upd |-> FALSE]
          ELSE [rc |-> IF exceeded THEN -1 ELSE 0, buf |-> [f EXCEPT !.stamps = list], upd |-> TRUE]
    BY DEF rate_limit, all
  <2> HIDE DEF stop, start, list
  <2>7. ~exceeded
    BY <1>3, <2>4, <2>5
  <2> HIDE DEF exceeded
  <2>8. ~(f.attempts = 0) /\ ~(f.attempts > 100 \/ f.interval \notin 1..3600)
    BY <1>3
  <2>9. rate_limit(f, t) = [rc |-> IF exceeded THEN -1 ELSE 0, buf |-> [f EXCEPT !.stamps = list], upd |-> TRUE]
    BY <2>6, <2>8
  <2> QED BY <2>7, <2>9
<1> QED BY <1>1, <1>2, <1>3

\* Whatever options and answers it is given, -W with TOTP excepted, the setup
\* command writes a file that a login accepts.
THEOREM WrittenIsUsable == AccountSpec => []WrittenUsable
<1>1. AccountInv => WrittenUsable
  <2> SUFFICES ASSUME AccountInv, NEW s \in Setter, draft[s] # NoFile, draft[s].window # -1
               PROVE  Usable(draft[s])
    BY DEF WrittenUsable
  <2>1. Drafted(draft[s]) /\ now \in Nat
    BY DEF AccountInv, SetupTypes, LoginTypes
  <2>2. window_size(draft[s]) # 0
    BY <2>1 DEF window_size, Drafted
  <2>3. rate_limit(draft[s], now).rc = 0
    BY <2>1, FirstAttempt
  <2> QED BY <2>1, <2>2, <2>3 DEF Usable, Drafted
<1> QED BY <1>1, AccountInductive, PTL
===============================================================================
