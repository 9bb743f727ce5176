-------------------------- MODULE SshConfigProofs --------------------------
(***************************************************************************)
(* Proofs about SshConfig and SshInclude, for any number of commands, VMs, *)
(* ports and doctors.                                                      *)
(*                                                                         *)
(* The argument is mutual exclusion: while a command is between reading    *)
(* and writing no other command changes the file, so that the text it made *)
(* from the file is still the file with its own block changed when it      *)
(* writes.  A doctor creates the file without the lock, so that with       *)
(* doctors only Sound is invariant; but a doctor that looks after the file *)
(* exists leaves it alone, and from then on the argument holds again.      *)
(***************************************************************************)
EXTENDS SshInclude, TLAPS

\* What a command writes has the blocks of the other VMs and at most one of
\* its own.
LEMMA TextIsUnique ==
    ASSUME OneBlockPerVm, NEW v, NEW p
    PROVE  \A a, b \in remove_host_block(file, v) \cup format_host_entry(v, p) :
               a.name = b.name => a = b
  <1>1. \A a \in format_host_entry(v, p) : a = [name |-> v, port |-> p]
    BY DEF format_host_entry
  <1>2. \A a \in format_host_entry(v, p) : a.name = v
    BY <1>1
  <1>3. \A a \in remove_host_block(file, v) : a \in file /\ a.name # v
    BY DEF remove_host_block
  <1>4. QED  BY <1>1, <1>2, <1>3 DEF OneBlockPerVm

\* It is made of blocks.
LEMMA TextIsBlocks ==
    ASSUME file \subseteq Blocks, NEW v \in Vms, NEW p \in Ports \cup {None}
    PROVE  remove_host_block(file, v) \cup format_host_entry(v, p) \subseteq Blocks
  BY DEF remove_host_block, format_host_entry, Blocks

LEMMA Initially ==
    ASSUME Init
    PROVE  IInv
  BY SshConfigAssumption DEF Init, IInv, Sound, TypeOK, Exclusive, TextIsSound,
     TextFollowsFile, OneBlockPerVm, Holding

\* Only the holder of the lock is anywhere between the read and the release.
LEMMA Alone ==
    ASSUME Exclusive, NEW c \in Cmds, NEW d \in Cmds, pc[c] \in Holding, pc[d] \in Holding
    PROVE  c = d
  BY DEF Exclusive

LEMMA SoundStep ==
    ASSUME Sound, [Next]_vars
    PROVE  Sound'
  <1> USE SshConfigAssumption
  <1>1. ASSUME NEW c \in Cmds, NEW v \in Vms, NEW p \in Ports \cup {None}, Begin(c, v, p)
        PROVE  Sound'
    <2>1. TypeOK'  BY <1>1 DEF Sound, TypeOK, Begin, Goto
    <2>2. Exclusive'  BY <1>1 DEF Sound, TypeOK, Exclusive, Holding, Begin, Goto
    <2>3. TextIsSound'  BY <1>1 DEF Sound, TypeOK, TextIsSound, Begin, Goto
    <2>4. OneBlockPerVm'  BY <1>1 DEF Sound, OneBlockPerVm, Begin
    <2>5. QED  BY <2>1, <2>2, <2>3, <2>4 DEF Sound
  <1>2. ASSUME NEW c \in Cmds, Acquire(c)
        PROVE  Sound'
    <2>1. TypeOK'  BY <1>2 DEF Sound, TypeOK, Acquire, Goto, local
    <2>2. Exclusive'  BY <1>2 DEF Sound, TypeOK, Exclusive, Holding, Acquire, Goto, local
    <2>3. TextIsSound'  BY <1>2 DEF Sound, TypeOK, TextIsSound, Acquire, Goto, local
    <2>4. OneBlockPerVm'  BY <1>2 DEF Sound, OneBlockPerVm, Acquire
    <2>5. QED  BY <2>1, <2>2, <2>3, <2>4 DEF Sound
  <1>3. ASSUME NEW c \in Cmds, Read(c)
        PROVE  Sound'
    <2> DEFINE new == remove_host_block(file, vm[c]) \cup format_host_entry(vm[c], port[c])
    <2>1. vm[c] \in Vms /\ port[c] \in Ports \cup {None}
      BY <1>3 DEF Sound, TypeOK, TextIsSound, Read
    <2>2. new \subseteq Blocks  BY <2>1, TextIsBlocks DEF Sound, TypeOK
    <2>3. \A a, b \in new : a.name = b.name => a = b
      BY TextIsUnique DEF Sound
    <2>4. text' = [text EXCEPT ![c] = new]  BY <1>3 DEF Read
    <2> HIDE DEF new
    <2>5. TypeOK'  BY <1>3, <2>2, <2>4 DEF Sound, TypeOK, Read, Goto
    <2>6. Exclusive'  BY <1>3 DEF Sound, TypeOK, Exclusive, Holding, Read, Goto
    <2>7. TextIsSound'
      BY <1>3, <2>3, <2>4 DEF Sound, TypeOK, TextIsSound, Read, Goto
    <2>8. OneBlockPerVm'  BY <1>3 DEF Sound, OneBlockPerVm, Read
    <2>9. QED  BY <2>5, <2>6, <2>7, <2>8 DEF Sound
  <1>4. ASSUME NEW c \in Cmds, Truncate(c)
        PROVE  Sound'
    <2>1. TypeOK'  BY <1>4 DEF Sound, TypeOK, Truncate, Goto, local
    <2>2. Exclusive'  BY <1>4 DEF Sound, TypeOK, Exclusive, Holding, Truncate, Goto, local
    <2>3. TextIsSound'  BY <1>4 DEF Sound, TypeOK, TextIsSound, Truncate, Goto, local
    <2>4. OneBlockPerVm'  BY <1>4 DEF OneBlockPerVm, Truncate
    <2>5. QED  BY <2>1, <2>2, <2>3, <2>4 DEF Sound
  <1>5. ASSUME NEW c \in Cmds, Write(c)
        PROVE  Sound'
    <2>1. TypeOK'  BY <1>5 DEF Sound, TypeOK, Write, Goto, local
    <2>2. Exclusive'  BY <1>5 DEF Sound, TypeOK, Exclusive, Holding, Write, Goto, local
    <2>3. TextIsSound'  BY <1>5 DEF Sound, TypeOK, TextIsSound, Write, Goto, local
    <2>4. OneBlockPerVm'  BY <1>5 DEF Sound, TextIsSound, OneBlockPerVm, Write
    <2>5. QED  BY <2>1, <2>2, <2>3, <2>4 DEF Sound
  <1>6. ASSUME NEW c \in Cmds, Release(c) \/ Killed(c)
        PROVE  Sound'
    <2>1. End(c) /\ file' = file /\ (lock' = None \/ lock' = lock)
      BY <1>6 DEF Release, Killed
    <2>2. lock = c => lock' = None
      BY <1>6 DEF Release, Killed
    <2>3. lock # c => lock' = lock
      BY <1>6 DEF Sound, Exclusive, Holding, Release, Killed
    <2>4. TypeOK'  BY <2>1 DEF Sound, TypeOK, End, Goto
    <2>5. Exclusive'
      BY <2>1, <2>2, <2>3 DEF Sound, TypeOK, Exclusive, Holding, End, Goto
    <2>6. TextIsSound'  BY <2>1 DEF Sound, TypeOK, TextIsSound, End, Goto
    <2>7. OneBlockPerVm'  BY <2>1 DEF Sound, OneBlockPerVm
    <2>8. QED  BY <2>4, <2>5, <2>6, <2>7 DEF Sound
  <1>7. CASE UNCHANGED vars
    BY <1>7 DEF vars, local, Sound, TypeOK, Exclusive, TextIsSound, OneBlockPerVm
  <1>8. QED  BY <1>1, <1>2, <1>3, <1>4, <1>5, <1>6, <1>7 DEF Next, Step

\* While a command is between its read and its write no other command changes
\* the file.
LEMMA Follows ==
    ASSUME IInv, [Next]_vars
    PROVE  TextFollowsFile'
  <1> USE DEF IInv, Sound, TypeOK, TextFollowsFile
  <1>1. ASSUME NEW c \in Cmds, NEW v \in Vms, NEW p \in Ports \cup {None}, Begin(c, v, p)
        PROVE  TextFollowsFile'
    BY <1>1 DEF Begin, Goto
  <1>2. ASSUME NEW c \in Cmds, Acquire(c)
        PROVE  TextFollowsFile'
    BY <1>2 DEF Acquire, Goto, local
  <1>3. ASSUME NEW c \in Cmds, Read(c)
        PROVE  TextFollowsFile'
    BY <1>3 DEF Read, Goto
  <1>4. ASSUME NEW c \in Cmds, Truncate(c) \/ Write(c)
        PROVE  TextFollowsFile'
    <2>1. pc[c] \in Holding  BY <1>4 DEF Truncate, Write, Holding
    <2>2. ASSUME NEW d \in Cmds, d # c
          PROVE  pc[d] # "truncate"
      BY <2>1, <2>2, Alone DEF Holding
    <2>3. UNCHANGED local /\ (Goto(c, "write") \/ Goto(c, "unlock"))
      BY <1>4 DEF Truncate, Write
    <2>4. QED  BY <2>2, <2>3 DEF Goto
  <1>5. ASSUME NEW c \in Cmds, Release(c) \/ Killed(c)
        PROVE  TextFollowsFile'
    <2>1. End(c) /\ file' = file  BY <1>5 DEF Release, Killed
    <2>2. QED  BY <2>1 DEF End, Goto
  <1>6. CASE UNCHANGED vars
    BY <1>6 DEF vars, local
  <1>7. QED  BY <1>1, <1>2, <1>3, <1>4, <1>5, <1>6 DEF Next, Step

LEMMA Inductive ==
    ASSUME IInv, [Next]_vars
    PROVE  IInv'
  BY SoundStep, Follows DEF IInv

LEMMA Invariance == Spec => []IInv
  BY Initially, Inductive, PTL DEF Spec

\* Whatever the commands do and wherever they are killed, in the write too,
\* the managed SSH config never has two Host blocks for a VM
\* (remove_host_block before the new block is appended).
THEOREM OneBlock == Spec => []OneBlockPerVm
  <1>1. IInv => OneBlockPerVm  BY DEF IInv, Sound
  <1>2. QED  BY <1>1, Invariance, PTL

-----------------------------------------------------------------------------
(* The refinement, when no command dies between truncating and writing.    *)

LEMMA EntryStep ==
    ASSUME NEW v \in Vms, NEW p \in Ports \cup {None},
           Settled' = remove_host_block(Settled, v) \cup format_host_entry(v, p)
    PROVE  Hosts!Next
  <1>1. CASE p = None
    <2>1. Hosts!Remove(v)
      BY <1>1 DEF remove_host_block, format_host_entry, Hosts!Remove, Hosts!Without
    <2>2. QED  BY <2>1 DEF Hosts!Next
  <1>2. CASE p # None
    <2>1. p \in Ports  BY <1>2
    <2>2. Hosts!Add(v, p)
      BY <1>2 DEF remove_host_block, format_host_entry, Hosts!Add, Hosts!Without, Hosts!Entry
    <2>3. QED  BY <2>1, <2>2 DEF Hosts!Next
  <1>3. QED  BY <1>1, <1>2

LEMMA EntriesStep ==
    ASSUME ~CrashInWrite, IInv, IInv', [Next]_vars
    PROVE  [Hosts!Next]_Settled
  <1> USE SshConfigAssumption
  <1>1. ASSUME NEW c \in Cmds, NEW v \in Vms, NEW p \in Ports \cup {None}, Begin(c, v, p)
        PROVE  Settled' = Settled
    BY <1>1 DEF IInv, Sound, TypeOK, Settled, Begin, Goto
  <1>2. ASSUME NEW c \in Cmds, Acquire(c)
        PROVE  Settled' = Settled
    BY <1>2 DEF IInv, Sound, TypeOK, Settled, Acquire, Goto, local
  <1>3. ASSUME NEW c \in Cmds, Read(c)
        PROVE  Settled' = Settled
    <2>1. lock = c  BY <1>3 DEF IInv, Sound, Exclusive, Holding, Read
    <2>2. Settled = file  BY <1>3, <2>1 DEF Settled, Read
    <2>3. Settled' = file  BY <1>3, <2>1 DEF IInv, Sound, TypeOK, Settled, Read, Goto
    <2>4. QED  BY <2>2, <2>3
  <1>4. ASSUME NEW c \in Cmds, Truncate(c)
        PROVE  Hosts!Next
    <2>1. lock = c  BY <1>4 DEF IInv, Sound, Exclusive, Holding, Truncate
    <2>2. Settled = file  BY <1>4, <2>1 DEF Settled, Truncate
    <2>3. Settled' = text[c]
      BY <1>4, <2>1 DEF IInv, Sound, TypeOK, Settled, Truncate, Goto, local
    <2>4. vm[c] \in Vms /\ port[c] \in Ports \cup {None}
      BY <1>4 DEF IInv, Sound, TypeOK, TextIsSound, Truncate
    <2>5. text[c] = remove_host_block(file, vm[c]) \cup format_host_entry(vm[c], port[c])
      BY <1>4 DEF IInv, TextFollowsFile, Truncate
    <2>6. QED  BY <2>2, <2>3, <2>4, <2>5, EntryStep
  <1>5. ASSUME NEW c \in Cmds, Write(c)
        PROVE  Settled' = Settled
    <2>1. lock = c  BY <1>5 DEF IInv, Sound, Exclusive, Holding, Write
    <2>2. Settled = text[c]  BY <1>5, <2>1 DEF Settled, Write
    <2>3. Settled' = text[c]  BY <1>5, <2>1 DEF IInv, Sound, TypeOK, Settled, Write, Goto, local
    <2>4. QED  BY <2>2, <2>3
  <1>6. ASSUME NEW c \in Cmds, Release(c) \/ Killed(c)
        PROVE  Settled' = Settled
    <2>1. End(c) /\ file' = file /\ pc[c] # "write"
      BY <1>6 DEF Release, Killed
    <2>2. CASE lock = c
      <3>1. lock' = None  BY <1>6, <2>2 DEF Release, Killed
      <3>2. QED  BY <2>1, <2>2, <3>1 DEF Settled
    <2>3. CASE lock # c
      <3>1. lock' = lock
        BY <1>6, <2>3 DEF IInv, Sound, Exclusive, Holding, Release, Killed
      <3>2. QED  BY <2>1, <2>3, <3>1 DEF IInv, Sound, TypeOK, Settled, End, Goto
    <2>4. QED  BY <2>2, <2>3
  <1>7. CASE UNCHANGED vars
    BY <1>7 DEF vars, local, Settled
  <1>8. QED  BY <1>1, <1>2, <1>3, <1>4, <1>5, <1>6, <1>7 DEF Next, Step

\* add_entry and remove_entry of any number of commands behave as one atomic
\* set of entries, as long as no command is killed inside tokio::fs::write:
\* no command loses or brings back the entry of another VM.
THEOREM EntriesAreAtomic == ~CrashInWrite /\ Spec => ImplementsEntries
  <1>1. Init => Hosts!Init
    BY DEF Init, Settled, Hosts!Init
  <1>2. CASE ~CrashInWrite
    <2>1. IInv /\ IInv' /\ [Next]_vars => [Hosts!Next]_Settled
      BY <1>2, EntriesStep
    <2>2. QED  BY <1>1, <2>1, Invariance, PTL DEF Spec, ImplementsEntries, Hosts!Spec
  <1>3. QED  BY <1>2

-----------------------------------------------------------------------------
(* The doctors, which may create the managed file at any time.            *)

LEMMA DoctorKeeps ==
    ASSUME Sound, NEW d \in Doctors, DoctorStep(d)
    PROVE  Sound'
  <1> USE DEF Sound, TypeOK, Exclusive, TextIsSound, OneBlockPerVm, vars, local
  <1>1. CASE UNCHANGED vars  BY <1>1
  <1>2. CASE CreateManaged(d)  BY <1>2 DEF CreateManaged
  <1>3. QED
    BY <1>1, <1>2 DEF DoctorStep, SetupCheck, Include, LookForManaged, RemoveInclude,
       DoctorKilled

LEMMA SharedSetupType ==
    ASSUME SetupTypeOK, [SharedNext]_sharedVars
    PROVE  SetupTypeOK'
  <1>1. CASE CommandStep  BY <1>1 DEF CommandStep, SetupTypeOK
  <1>2. ASSUME NEW d \in Doctors, DoctorStep(d)
        PROVE  SetupTypeOK'
    BY <1>2 DEF SetupTypeOK, SetupGoto, DoctorStep, SetupCheck, Include, LookForManaged,
       CreateManaged, RemoveInclude, DoctorKilled
  <1>3. CASE UNCHANGED sharedVars  BY <1>3 DEF sharedVars, setupVars, SetupTypeOK
  <1>4. QED  BY <1>1, <1>2, <1>3 DEF SharedNext

LEMMA SharedInvariance == SharedSpec => [](Sound /\ SetupTypeOK)
  <1>1. SharedInit => Sound /\ SetupTypeOK
    BY Initially DEF SharedInit, IInv, SetupTypeOK
  <1>2. ASSUME Sound, SetupTypeOK, [SharedNext]_sharedVars
        PROVE  Sound' /\ SetupTypeOK'
    <2>1. CASE CommandStep  BY <1>2, <2>1, SoundStep, SharedSetupType DEF CommandStep
    <2>2. CASE \E d \in Doctors : DoctorStep(d)
      BY <1>2, <2>2, DoctorKeeps, SharedSetupType
    <2>3. CASE UNCHANGED sharedVars
      BY <1>2, <2>3, SoundStep, SharedSetupType DEF sharedVars
    <2>4. QED  BY <1>2, <2>1, <2>2, <2>3 DEF SharedNext
  <1>3. QED  BY <1>1, <1>2, PTL DEF SharedSpec

\* With any number of agv doctor beside the commands, which may put an empty
\* file in the place of the managed one between a command's read and its
\* write (install_include, without the lock), still no VM has two Host blocks.
THEOREM OneBlockWithDoctors == SharedSpec => []OneBlockPerVm
  <1>1. Sound => OneBlockPerVm  BY DEF Sound
  <1>2. QED  BY <1>1, SharedInvariance, PTL

\* Once the managed file exists and no doctor is left that looked for it
\* before it did, no doctor gets to create it again (install_include's test),
\* and commands and doctors together behave as one atomic set of entries,
\* whatever entries were lost to the race of the first setup.
THEOREM EntriesAreAtomicOnceSetUp ==
    ASSUME ~CrashInWrite
    PROVE  SharedSpec => OnceSetUp
  <1>1. ASSUME Sound, SetupTypeOK, [SharedNext]_sharedVars, SetUp
        PROVE  SetUp' /\ [Hosts!Next]_Settled
    <2>1. IInv  BY <1>1 DEF IInv, SetUp
    <2>2. ASSUME [Next]_vars
          PROVE  TextFollowsFile' /\ [Hosts!Next]_Settled
      BY <2>1, <2>2, Inductive, EntriesStep DEF IInv
    <2>3. CASE CommandStep
      BY <1>1, <2>2, <2>3 DEF CommandStep, SetUp
    <2>4. ASSUME NEW d \in Doctors, DoctorStep(d)
          PROVE  SetUp' /\ [Hosts!Next]_Settled
      <3>1. ~CreateManaged(d)  BY <1>1 DEF SetUp, CreateManaged
      <3>2. UNCHANGED <<vars, managed>>
        BY <2>4, <3>1 DEF DoctorStep, SetupCheck, Include, LookForManaged, RemoveInclude,
           DoctorKilled
      <3>3. \A e \in Doctors : at'[e] # "create"
        BY <1>1, <2>4, <3>1 DEF SetUp, SetupTypeOK, SetupGoto, DoctorStep, SetupCheck,
           Include, LookForManaged, RemoveInclude, DoctorKilled
      <3>4. QED  BY <1>1, <2>2, <3>2, <3>3 DEF SetUp
    <2>5. CASE UNCHANGED sharedVars
      BY <1>1, <2>2, <2>5 DEF sharedVars, setupVars, SetUp
    <2>6. QED  BY <1>1, <2>3, <2>4, <2>5 DEF SharedNext
  <1>2. QED  BY <1>1, SharedInvariance, PTL DEF SharedSpec, OnceSetUp
=============================================================================
