-------------------------- MODULE Bootstrap_proofs --------------------------
(***************************************************************************)
(* What TLAPS proves of the bootstrap commands, for any number of hardhat  *)
(* processes, operator keys, runs of the commands and crashes of them.     *)
(***************************************************************************)
EXTENDS Bootstrap, NodeLifecycle_proofs

Run == [at : DevSteps \cup TearSteps, port : {0} \cup Ports, chain : {0} \cup Chains,
        key : 0..MaxOperatorKeys, configured : BOOLEAN, left : SUBSET Names]

(* The state of bootstrap by itself; a run that has spawned hardhat knows  *)
(* its process, and one that funds a key has one.                          *)
BootTypeInv ==
    /\ chains \in [Chains -> {"unused", "starting", "listening", "dead"}]
    /\ ports \in [Chains -> {0} \cup Ports]
    /\ hardhatPid \in {0} \cup Chains
    /\ artifacts \in [Contracts -> {0} \cup Chains]
    /\ operatorKey \in 0..MaxOperatorKeys
    /\ backupKey \in 0..MaxOperatorKeys
    /\ funded \subseteq Chains \X (1..MaxOperatorKeys)
    /\ boot \in [Clients -> {NotRunning} \cup Run]
    /\ untracked \subseteq Chains
    /\ bypassed \subseteq Chains
    /\ overlapped \in BOOLEAN
    /\ \A c \in Clients : boot[c] # NotRunning =>
          /\ boot[c].at = "pid" => boot[c].chain # 0
          /\ boot[c].at = "fund" => boot[c].key # 0

LEMMA InitBootType == Init => BootTypeInv
<1> SUFFICES ASSUME Init PROVE BootTypeInv
  OBVIOUS
<1>1. 0 \in 0..MaxOperatorKeys
  BY BootstrapAssumption
<1>q. QED
  BY <1>1 DEF Init, BootTypeInv, NoArtifacts

-----------------------------------------------------------------------------
(* Steps of a run *)

(* A run goes on with w, and the other programs do not move. *)
RunMoves(c, w) ==
    /\ boot' = [boot EXCEPT ![c] = w]
    /\ boot'[c] = w
    /\ \A d \in Clients \ {c} : boot'[d] = boot[d]

LEMMA EndMoves ==
    ASSUME BootTypeInv, NEW c \in Clients, End(c)
    PROVE  RunMoves(c, NotRunning)
  BY DEF End, RunMoves, BootTypeInv

LEMMA ProceedMoves ==
    ASSUME BootTypeInv, NEW c \in Clients, boot[c] # NotRunning,
           NEW at \in DevSteps \cup TearSteps, Proceed(c, at)
    PROVE  \E w \in Run :
              /\ RunMoves(c, w)
              /\ w.at = at /\ w.chain = boot[c].chain /\ w.key = boot[c].key
              /\ w.port = boot[c].port /\ w.configured = boot[c].configured /\ w # NotRunning
<1> DEFINE w == [boot[c] EXCEPT !.at = at]
<1>1. boot[c] \in Run
  BY DEF BootTypeInv
<1>2. /\ w \in Run /\ w.at = at /\ w.chain = boot[c].chain /\ w.key = boot[c].key
      /\ w.port = boot[c].port /\ w.configured = boot[c].configured
  BY <1>1 DEF Run
<1>3. boot' = [boot EXCEPT ![c] = w]
  BY DEF Proceed
<1> HIDE DEF w
<1>4. w # NotRunning
  BY <1>2 DEF NotRunning, DevSteps, TearSteps
<1>5. RunMoves(c, w)
  BY <1>3 DEF RunMoves, BootTypeInv
<1>q. QED
  BY <1>2, <1>4, <1>5

(* The new state of a run is of the type. *)
LEMMA RunMovesType ==
    ASSUME BootTypeInv, NEW c \in Clients, NEW w \in {NotRunning} \cup Run, RunMoves(c, w),
           w # NotRunning => (w.at = "pid" => w.chain # 0) /\ (w.at = "fund" => w.key # 0)
    PROVE  /\ boot' \in [Clients -> {NotRunning} \cup Run]
           /\ \A d \in Clients : boot'[d] # NotRunning =>
                /\ boot'[d].at = "pid" => boot'[d].chain # 0
                /\ boot'[d].at = "fund" => boot'[d].key # 0
<1>1. boot' \in [Clients -> {NotRunning} \cup Run]
  BY DEF RunMoves, BootTypeInv
<1>2. ASSUME NEW d \in Clients, boot'[d] # NotRunning
      PROVE  /\ boot'[d].at = "pid" => boot'[d].chain # 0
             /\ boot'[d].at = "fund" => boot'[d].key # 0
  <2>1. CASE d = c
    BY <1>2, <2>1 DEF RunMoves
  <2>2. CASE d # c
    BY <1>2, <2>2 DEF RunMoves, BootTypeInv
  <2>q. QED
    BY <2>1, <2>2
<1>q. QED
  BY <1>1, <1>2

-----------------------------------------------------------------------------
(* The invariant *)

(* One command runs at a time. *)
Alone == \A c, d \in Clients : c # d => boot[c] = NotRunning \/ boot[d] = NotRunning

(* A key is given funds on a chain that has been up. *)
FundedWereUp ==
    \A h \in Chains, k \in 1..MaxOperatorKeys :
        <<h, k>> \in funded => chains[h] \in {"listening", "dead"}

(* What each step of a command relies on: from the check of the ports to   *)
(* hardhat.pid no hardhat runs but the one it has spawned and those that   *)
(* the check passed over; of the others no chain that runs has a funded    *)
(* key, up to the funding; the process that teardown has stopped is gone;  *)
(* the configuration is without a key as it was read.                      *)
Sane(c) ==
    /\ boot[c].at = "spawn" => \A h \in Chains \ bypassed : ~Live(h)
    /\ boot[c].at = "pid" => \A h \in Chains \ bypassed : Live(h) => h = boot[c].chain
    /\ boot[c].at \in {"spawn", "pid", "l1", "key", "fund"} =>
          \A h \in Listening \ bypassed, k \in 1..MaxOperatorKeys : <<h, k>> \notin funded
    /\ boot[c].at = "fund" => boot[c].key = operatorKey
    /\ boot[c].at = "unlinkHardhat" => hardhatPid # 0 /\ chains[hardhatPid] = "dead"
    /\ boot[c].at \in DevSteps \ {"backup"} /\ ~boot[c].configured => backupKey = 0

BootInv ==
    /\ FundedWereUp
    /\ HardhatIsTracked
    /\ OperatorKeyIsKept
    /\ ~overlapped => Alone /\ \A c \in Clients : boot[c] # NotRunning => Sane(c)

LEMMA InitBootInv == Init => BootInv
<1> SUFFICES ASSUME Init PROVE BootInv
  OBVIOUS
<1>1. \A h \in Chains : ~Live(h)
  BY DEF Init, Live
<1>q. QED
  BY <1>1 DEF Init, BootInv, FundedWereUp, HardhatIsTracked, OperatorKeyIsKept, Alone

(* Of a run that is alone only its own next step matters. *)
LEMMA RunInv ==
    ASSUME BootTypeInv, BootInv, NEW c \in Clients, NEW w, RunMoves(c, w),
           boot[c] # NotRunning, UNCHANGED overlapped,
           FundedWereUp', HardhatIsTracked', OperatorKeyIsKept',
           ~overlapped /\ w # NotRunning => Sane(c)'
    PROVE  BootInv'
<1> SUFFICES ASSUME ~overlapped
             PROVE  Alone' /\ \A d \in Clients : boot'[d] # NotRunning => Sane(d)'
  BY DEF BootInv
<1>1. \A d \in Clients \ {c} : boot'[d] = NotRunning
  BY DEF BootInv, Alone, RunMoves
<1>2. Alone'
  BY <1>1 DEF Alone
<1>3. ASSUME NEW d \in Clients, boot'[d] # NotRunning PROVE Sane(d)'
  BY <1>1, <1>3 DEF RunMoves
<1>q. QED
  BY <1>2, <1>3

(* A step that leaves hardhat and the keys as they are. *)
QuietRun(c, w) ==
    /\ RunMoves(c, w)
    /\ UNCHANGED <<chains, ports, hardhatPid, operatorKey, backupKey, funded, overlapped>>
    /\ untracked \subseteq untracked' /\ bypassed \subseteq bypassed'

LEMMA QuietInv ==
    ASSUME BootTypeInv, BootInv, NEW c \in Clients, NEW w, QuietRun(c, w),
           boot[c] # NotRunning, On(c, "pid") => boot[c].chain \in untracked' \cup bypassed',
           ~overlapped /\ w # NotRunning => Sane(c)'
    PROVE  BootInv'
<1>1. FundedWereUp' /\ OperatorKeyIsKept'
  BY DEF QuietRun, BootInv, FundedWereUp, OperatorKeyIsKept, Listening
<1>2. HardhatIsTracked'
  <2>1. SUFFICES ASSUME NEW h \in Chains \ (untracked' \cup bypassed'), Live(h)', ~overlapped'
                 PROVE  \/ hardhatPid' = h
                        \/ \E d \in Clients : On(d, "pid")' /\ boot'[d].chain = h
    BY DEF HardhatIsTracked
  <2>2. h \in Chains \ (untracked \cup bypassed) /\ Live(h) /\ ~overlapped /\ hardhatPid' = hardhatPid
    BY <2>1 DEF QuietRun, Live
  <2>3. CASE hardhatPid = h
    BY <2>2, <2>3
  <2>4. ASSUME NEW d \in Clients, On(d, "pid"), boot[d].chain = h
        PROVE  On(d, "pid")' /\ boot'[d].chain = h
    <3>1. d # c
      BY <2>1, <2>4
    <3>q. QED
      BY <2>4, <3>1 DEF On, QuietRun, RunMoves
  <2>q. QED
    BY <2>2, <2>3, <2>4 DEF BootInv, HardhatIsTracked
<1>q. QED
  BY <1>1, <1>2, RunInv DEF QuietRun

LEMMA QuietType ==
    ASSUME BootTypeInv, NEW c \in Clients, NEW w \in {NotRunning} \cup Run, QuietRun(c, w),
           w # NotRunning => (w.at = "pid" => w.chain # 0) /\ (w.at = "fund" => w.key # 0),
           artifacts' \in [Contracts -> {0} \cup Chains], untracked' \subseteq Chains,
           bypassed' \subseteq Chains
    PROVE  BootTypeInv'
  BY RunMovesType DEF BootTypeInv, QuietRun

-----------------------------------------------------------------------------
(* bootstrap dev *)

LEMMA BootBegins ==
    ASSUME TypeInv, BootTypeInv, BootInv, NEW c \in Clients, RunDev(c) \/ Teardown(c)
    PROVE  BootTypeInv' /\ BootInv'
<1>1. PICK w \in Run :
          /\ boot' = [boot EXCEPT ![c] = w]
          /\ w.at \in {"ports", "stop"}
          /\ w.at = "ports" => w.configured = (backupKey # 0)
  <2>1. 0 \in 0..MaxOperatorKeys
    BY BootstrapAssumption
  <2>2. CASE RunDev(c)
    <3>0. PICK port \in Ports :
             boot' = [boot EXCEPT ![c] = [at |-> "ports", port |-> port, chain |-> 0, key |-> 0,
                                          configured |-> backupKey # 0, left |-> {}]]
      BY <2>2 DEF RunDev
    <3> DEFINE w == [at |-> "ports", port |-> port, chain |-> 0, key |-> 0,
                     configured |-> backupKey # 0, left |-> {}]
    <3>1. w \in Run /\ w.at = "ports" /\ w.configured = (backupKey # 0)
      BY <2>1 DEF Run, DevSteps
    <3>2. boot' = [boot EXCEPT ![c] = w]
      BY <3>0
    <3>q. QED
      BY <3>1, <3>2
  <2>3. CASE Teardown(c)
    <3> DEFINE w == [at |-> "stop", port |-> 0, chain |-> 0, key |-> 0,
                     configured |-> FALSE, left |-> {n \in Names : Registered(c, n)}]
    <3>1. w \in Run /\ w.at = "stop"
      BY <2>1 DEF Run, TearSteps
    <3>2. boot' = [boot EXCEPT ![c] = w]
      BY <2>3 DEF Teardown
    <3>q. QED
      BY <3>1, <3>2
  <2>q. QED
    BY <2>2, <2>3
<1>2. /\ UNCHANGED <<chains, ports, hardhatPid, artifacts, operatorKey, backupKey, funded,
                   untracked, bypassed>>
      /\ boot[c] = NotRunning
      /\ overlapped' = (overlapped \/ \E d \in Clients : boot[d] # NotRunning)
  BY DEF RunDev, Teardown
<1>3. RunMoves(c, w)
  BY <1>1 DEF RunMoves, BootTypeInv
<1>4. BootTypeInv'
  <2>1. w.at # "pid" /\ w.at # "fund"
    BY <1>1
  <2>2. overlapped' \in BOOLEAN
    BY <1>2
  <2>q. QED
    BY <1>2, <1>3, <2>1, <2>2, RunMovesType DEF BootTypeInv
<1>5. FundedWereUp' /\ OperatorKeyIsKept'
  BY <1>2 DEF BootInv, FundedWereUp, OperatorKeyIsKept, Listening
<1>6. HardhatIsTracked'
  <2>1. \A d \in Clients : On(d, "pid") => On(d, "pid")' /\ boot'[d] = boot[d]
    BY <1>2, <1>3 DEF On, RunMoves
  <2>q. QED
    BY <1>2, <2>1 DEF BootInv, HardhatIsTracked, Live
<1>7. ASSUME ~overlapped' PROVE Alone' /\ \A d \in Clients : boot'[d] # NotRunning => Sane(d)'
  <2>1. \A d \in Clients \ {c} : boot'[d] = NotRunning
    BY <1>2, <1>3, <1>7 DEF RunMoves
  <2>2. Sane(c)'
    BY <1>1, <1>2, <1>3 DEF Sane, RunMoves, DevSteps
  <2>q. QED
    BY <2>1, <2>2 DEF Alone
<1>q. QED
  BY <1>4, <1>5, <1>6, <1>7 DEF BootInv

(* Every hardhat that runs when a run goes on past the check of the ports  *)
(* is one that the check has passed over.                                  *)
LEMMA CheckPortsKeeps ==
    ASSUME BootTypeInv, BootInv, NEW c \in Clients, CheckPorts(c)
    PROVE  BootTypeInv' /\ BootInv'
<1>1. /\ On(c, "ports") /\ boot[c] # NotRunning
      /\ UNCHANGED <<chains, ports, hardhatPid, artifacts, operatorKey, backupKey, funded,
                     untracked, overlapped>>
      /\ bypassed \subseteq bypassed' /\ bypassed' \subseteq Chains
  BY DEF CheckPorts, On, Unnoticed, BootTypeInv
<1>2. ASSUME NEW w \in {NotRunning} \cup Run, RunMoves(c, w),
             w # NotRunning => w.at \notin {"pid", "fund"},
             ~overlapped /\ w # NotRunning => Sane(c)'
      PROVE  BootTypeInv' /\ BootInv'
  <2>1. QuietRun(c, w)
    BY <1>1, <1>2 DEF QuietRun
  <2>2. BootTypeInv'
    BY <1>1, <1>2, <2>1, QuietType DEF BootTypeInv
  <2>q. QED
    BY <1>1, <1>2, <2>1, <2>2, QuietInv DEF On
<1>3. CASE End(c)
  BY <1>2, <1>3, EndMoves
<1>4. CASE /\ ~PortsInUse(boot[c].port) /\ Proceed(c, "spawn")
           /\ bypassed' = bypassed \cup Unnoticed(boot[c].port)
  <2>1. PICK w \in Run :
            /\ RunMoves(c, w) /\ w.at = "spawn" /\ w.configured = boot[c].configured
            /\ w # NotRunning
    BY <1>1, <1>4, ProceedMoves DEF DevSteps
  <2>2. \A h \in Chains : ~(chains[h] = "listening" /\ ports[h] = boot[c].port)
    BY <1>4 DEF PortsInUse, ListeningOn, Listening
  <2>3. \A h \in Chains \ bypassed' : ~Live(h)
    BY <1>4, <2>2 DEF Unnoticed
  <2>4. (\A h \in Chains \ bypassed' : ~Live(h)') /\ Listening' \ bypassed' = {}
    BY <1>1, <2>3 DEF Live, Listening
  <2>5. ~overlapped => Sane(c)
    BY <1>1 DEF BootInv
  <2>6. ~overlapped => Sane(c)'
    BY <1>1, <2>1, <2>4, <2>5 DEF Sane, RunMoves, On, DevSteps
  <2>q. QED
    BY <1>2, <2>1, <2>6
<1>q. QED
  BY <1>3, <1>4 DEF CheckPorts

LEMMA SpawnHardhatKeeps ==
    ASSUME BootTypeInv, BootInv, NEW c \in Clients, SpawnHardhat(c)
    PROVE  BootTypeInv' /\ BootInv'
<1>1. PICK h \in Chains :
          /\ chains[h] = "unused"
          /\ chains' = [chains EXCEPT ![h] = "starting"]
          /\ ports' = [ports EXCEPT ![h] = boot[c].port]
          /\ boot' = [boot EXCEPT ![c].at = "pid", ![c].chain = h]
  BY DEF SpawnHardhat
<1>2. /\ On(c, "spawn") /\ boot[c] # NotRunning /\ boot[c] \in Run /\ h # 0
      /\ UNCHANGED <<hardhatPid, artifacts, operatorKey, backupKey, funded, untracked, bypassed, overlapped>>
  BY DEF SpawnHardhat, On, BootTypeInv, Chains
<1> DEFINE w == [boot[c] EXCEPT !.at = "pid", !.chain = h]
<1>3. w \in Run /\ w.at = "pid" /\ w.chain = h /\ w.configured = boot[c].configured
  BY <1>2 DEF Run, DevSteps
<1>4. boot' = [boot EXCEPT ![c] = w]
  BY <1>1
<1> HIDE DEF w
<1>5. RunMoves(c, w)
  BY <1>4 DEF RunMoves, BootTypeInv
<1>6. BootTypeInv'
  <2>1. chains' \in [Chains -> {"unused", "starting", "listening", "dead"}]
    BY <1>1 DEF BootTypeInv
  <2>2. ports' \in [Chains -> {0} \cup Ports]
    BY <1>1, <1>2 DEF BootTypeInv, Run
  <2>q. QED
    BY <1>2, <1>3, <1>5, <2>1, <2>2, RunMovesType DEF BootTypeInv
<1>7. \A g \in Chains : chains'[g] = IF g = h THEN "starting" ELSE chains[g]
  BY <1>1 DEF BootTypeInv
<1>8. Listening' = Listening
  BY <1>1, <1>7 DEF Listening
<1>9. FundedWereUp'
  BY <1>1, <1>2, <1>7 DEF BootInv, FundedWereUp
<1>10. OperatorKeyIsKept'
  BY <1>2, <1>8 DEF BootInv, OperatorKeyIsKept
<1>11. ASSUME ~overlapped
       PROVE  Sane(c)' /\ \A g \in Chains \ bypassed' : Live(g)' => g = h
  <2>1. Sane(c)
    BY <1>2, <1>11 DEF BootInv
  <2>2. \A g \in Chains \ bypassed' : Live(g)' => g = h
    BY <1>2, <1>7, <2>1 DEF Sane, On, Live
  <2>q. QED
    BY <1>2, <1>3, <1>5, <1>8, <2>1, <2>2 DEF Sane, RunMoves, On, DevSteps
<1>12. HardhatIsTracked'
  <2>1. w # NotRunning
    BY <1>3 DEF NotRunning
  <2>2. On(c, "pid")' /\ boot'[c].chain = h
    BY <1>3, <1>5, <2>1 DEF On, RunMoves
  <2>q. QED
    BY <1>2, <1>11, <2>2 DEF HardhatIsTracked
<1>q. QED
  BY <1>2, <1>5, <1>6, <1>9, <1>10, <1>11, <1>12, RunInv

LEMMA WriteHardhatPidKeeps ==
    ASSUME BootTypeInv, BootInv, NEW c \in Clients, WriteHardhatPid(c)
    PROVE  BootTypeInv' /\ BootInv'
<1>1. /\ On(c, "pid") /\ boot[c] # NotRunning /\ hardhatPid' = boot[c].chain
      /\ UNCHANGED <<chains, artifacts, operatorKey, backupKey, funded, ports, untracked, bypassed, overlapped>>
  BY DEF WriteHardhatPid, On
<1>2. PICK w \in Run :
          /\ RunMoves(c, w) /\ w.at = "l1" /\ w.configured = boot[c].configured
          /\ w # NotRunning
  BY <1>1, ProceedMoves DEF WriteHardhatPid, DevSteps
<1>3. BootTypeInv'
  <2>1. hardhatPid' \in {0} \cup Chains
    BY <1>1 DEF BootTypeInv, Run
  <2>q. QED
    BY <1>1, <1>2, <2>1, RunMovesType DEF BootTypeInv
<1>4. FundedWereUp' /\ OperatorKeyIsKept'
  BY <1>1 DEF BootInv, FundedWereUp, OperatorKeyIsKept, Listening
<1>5. ~overlapped => Sane(c)
  BY <1>1 DEF BootInv
<1>6. HardhatIsTracked'
  BY <1>1, <1>5 DEF HardhatIsTracked, Sane, On, Live
<1>7. ~overlapped => Sane(c)'
  BY <1>1, <1>2, <1>5 DEF Sane, RunMoves, On, DevSteps, Listening
<1>q. QED
  BY <1>1, <1>2, <1>3, <1>4, <1>6, <1>7, RunInv

(* A step that leaves hardhat and the keys as they are, to one that relies *)
(* on nothing new; or the last one.                                        *)
LEMMA QuietGoesOn ==
    ASSUME BootTypeInv, BootInv, NEW c \in Clients, NEW w \in {NotRunning} \cup Run,
           QuietRun(c, w), boot[c] # NotRunning, UNCHANGED <<untracked, bypassed>>,
           artifacts' \in [Contracts -> {0} \cup Chains], boot[c].at # "pid",
           w # NotRunning =>
               /\ w.configured = boot[c].configured
               /\ \/ boot[c].at \in DevSteps \ {"backup"} /\ w.at \in DevSteps
                  \/ w.at \in TearSteps
               /\ w.at \notin {"spawn", "pid", "l1", "fund", "unlinkHardhat"}
               /\ w.at = "key" => boot[c].at = "l1"
    PROVE  BootTypeInv' /\ BootInv'
<1>1. BootTypeInv'
  BY QuietType DEF BootTypeInv
<1>2. ~overlapped /\ w # NotRunning => Sane(c)'
  <2>1. SUFFICES ASSUME ~overlapped, w # NotRunning PROVE Sane(c)'
    OBVIOUS
  <2>2. Sane(c) /\ boot'[c] = w
    BY <2>1 DEF BootInv, QuietRun, RunMoves
  <2>3. CASE w.at \in TearSteps
    BY <2>1, <2>2, <2>3 DEF Sane, DevSteps, TearSteps
  <2>4. CASE boot[c].at \in DevSteps \ {"backup"} /\ w.at \in DevSteps
    <3>1. UNCHANGED <<chains, funded, backupKey, bypassed>> /\ Listening' = Listening
      BY DEF QuietRun, Listening
    <3>q. QED
      BY <2>1, <2>2, <2>4, <3>1 DEF Sane, DevSteps
  <2>q. QED
    BY <2>1, <2>3, <2>4
<1>3. ~On(c, "pid")
  BY DEF On
<1>q. QED
  BY <1>1, <1>2, <1>3, QuietInv

LEMMA GenerateKeyKeeps ==
    ASSUME BootTypeInv, BootInv, NEW c \in Clients, GenerateKey(c)
    PROVE  BootTypeInv' /\ BootInv'
<1>1. /\ On(c, "key") /\ boot[c] # NotRunning /\ boot[c] \in Run
      /\ operatorKey' = operatorKey + 1 /\ operatorKey < MaxOperatorKeys
      /\ boot' = [boot EXCEPT ![c].at = "fund", ![c].key = operatorKey + 1]
      /\ UNCHANGED <<chains, hardhatPid, artifacts, backupKey, funded, ports, untracked, bypassed, overlapped>>
  BY DEF GenerateKey, On, BootTypeInv
<1>2. operatorKey + 1 \in 0..MaxOperatorKeys /\ operatorKey + 1 # 0
  BY <1>1, BootstrapAssumption DEF BootTypeInv
<1> DEFINE w == [boot[c] EXCEPT !.at = "fund", !.key = operatorKey + 1]
<1>3. /\ w \in Run /\ w.at = "fund" /\ w.key = operatorKey + 1
      /\ w.configured = boot[c].configured
  BY <1>1, <1>2 DEF Run, DevSteps
<1>4. boot' = [boot EXCEPT ![c] = w]
  BY <1>1
<1> HIDE DEF w
<1>5. RunMoves(c, w)
  BY <1>4 DEF RunMoves, BootTypeInv
<1>6. BootTypeInv'
  BY <1>1, <1>2, <1>3, <1>5, RunMovesType DEF BootTypeInv
<1>7. FundedWereUp' /\ Listening' = Listening
  BY <1>1 DEF BootInv, FundedWereUp, Listening
<1>8. ~overlapped => Sane(c)
  BY <1>1 DEF BootInv
<1>9. OperatorKeyIsKept'
  BY <1>1, <1>7, <1>8 DEF OperatorKeyIsKept, Sane, On
<1>10. HardhatIsTracked'
  <2>1. \A d \in Clients : On(d, "pid") => On(d, "pid")' /\ boot'[d] = boot[d]
    BY <1>1, <1>5 DEF On, RunMoves
  <2>q. QED
    BY <1>1, <2>1 DEF BootInv, HardhatIsTracked, Live
<1>11. ~overlapped => Sane(c)'
  BY <1>1, <1>3, <1>5, <1>7, <1>8 DEF Sane, RunMoves, On, DevSteps
<1>q. QED
  BY <1>1, <1>5, <1>6, <1>7, <1>9, <1>10, <1>11, RunInv

LEMMA FundOperatorKeeps ==
    ASSUME BootTypeInv, BootInv, NEW c \in Clients, FundOperator(c)
    PROVE  BootTypeInv' /\ BootInv'
<1>1. /\ On(c, "fund") /\ boot[c] # NotRunning /\ boot[c] \in Run /\ boot[c].at # "pid"
      /\ UNCHANGED <<chains, hardhatPid, artifacts, operatorKey, backupKey, ports, untracked, bypassed, overlapped>>
  BY DEF FundOperator, On, BootTypeInv
<1>2. CASE ListeningOn(boot[c].port) = {}
  <2>1. RunMoves(c, NotRunning) /\ UNCHANGED funded
    BY <1>2, EndMoves DEF FundOperator
  <2>2. QuietRun(c, NotRunning)
    BY <1>1, <2>1 DEF QuietRun
  <2>q. QED
    BY <1>1, <2>2, QuietGoesOn DEF BootTypeInv
<1>3. CASE ListeningOn(boot[c].port) # {}
  <2>1. PICK w \in Run :
            /\ RunMoves(c, w) /\ w.at = "deploy" /\ w.configured = boot[c].configured
            /\ w # NotRunning
    BY <1>1, <1>3, ProceedMoves DEF FundOperator, DevSteps
  <2>2. funded' = funded \cup {<<h, boot[c].key>> : h \in ListeningOn(boot[c].port)}
    BY <1>3 DEF FundOperator
  <2>3. /\ boot[c].key \in 1..MaxOperatorKeys /\ Listening \subseteq Chains
        /\ ListeningOn(boot[c].port) \subseteq Listening
    BY <1>1 DEF BootTypeInv, Run, On, Listening, ListeningOn
  <2>4. funded' \subseteq Chains \X (1..MaxOperatorKeys)
    BY <2>2, <2>3 DEF BootTypeInv
  <2>5. BootTypeInv'
    BY <1>1, <2>1, <2>4, RunMovesType DEF BootTypeInv
  <2>6. \A h \in Chains, k \in 1..MaxOperatorKeys :
            <<h, k>> \in funded' => <<h, k>> \in funded \/ (h \in Listening /\ k = boot[c].key)
    BY <2>2, <2>3
  <2>7. FundedWereUp'
    BY <1>1, <2>6 DEF BootInv, FundedWereUp, Listening
  <2>8. Listening' = Listening /\ (~overlapped => Sane(c))
    BY <1>1 DEF Listening, BootInv
  <2>9. OperatorKeyIsKept'
    <3>1. SUFFICES ASSUME NEW h \in Listening' \ bypassed', NEW k \in 1..MaxOperatorKeys,
                          ~overlapped', <<h, k>> \in funded'
                   PROVE  k \in {operatorKey', backupKey'}
      BY DEF OperatorKeyIsKept
    <3>2. h \in Listening \ bypassed /\ h \in Chains /\ Sane(c)
      BY <1>1, <2>3, <2>8, <3>1
    <3>3. k = boot[c].key /\ boot[c].key = operatorKey
      BY <1>1, <2>6, <3>1, <3>2 DEF Sane, On
    <3>q. QED
      BY <1>1, <3>3
  <2>10. HardhatIsTracked'
    <3>1. \A d \in Clients : On(d, "pid") => On(d, "pid")' /\ boot'[d] = boot[d]
      BY <1>1, <2>1 DEF On, RunMoves
    <3>q. QED
      BY <1>1, <3>1 DEF BootInv, HardhatIsTracked, Live
  <2>11. ~overlapped => Sane(c)'
    BY <1>1, <2>1, <2>8 DEF Sane, RunMoves, On, DevSteps
  <2>q. QED
    BY <1>1, <2>1, <2>5, <2>7, <2>9, <2>10, <2>11, RunInv
<1>q. QED
  BY <1>2, <1>3

LEMMA PersistKeyKeeps ==
    ASSUME BootTypeInv, BootInv, NEW c \in Clients, NEW written \in BOOLEAN,
           PersistKey(c, written)
    PROVE  BootTypeInv' /\ BootInv'
<1>1. /\ On(c, "persist") /\ boot[c] # NotRunning /\ boot[c] \in Run
      /\ UNCHANGED <<chains, hardhatPid, artifacts, operatorKey, funded, ports, untracked, bypassed, overlapped>>
      /\ backupKey' = IF written /\ ~boot[c].configured THEN boot[c].key ELSE backupKey
  BY DEF PersistKey, On, BootTypeInv
<1>2. PICK w \in Run : RunMoves(c, w) /\ w.at = "backup" /\ w # NotRunning
  BY <1>1, ProceedMoves DEF PersistKey, DevSteps
<1>3. BootTypeInv'
  <2>1. backupKey' \in 0..MaxOperatorKeys
    BY <1>1 DEF BootTypeInv, Run
  <2>q. QED
    BY <1>1, <1>2, <2>1, RunMovesType DEF BootTypeInv
<1>4. FundedWereUp' /\ Listening' = Listening
  BY <1>1 DEF BootInv, FundedWereUp, Listening
<1>5. OperatorKeyIsKept'
  <2>1. SUFFICES ASSUME NEW h \in Listening \ bypassed, NEW k \in 1..MaxOperatorKeys, ~overlapped,
                        <<h, k>> \in funded
                 PROVE  k \in {operatorKey, backupKey'}
    BY <1>1, <1>4 DEF OperatorKeyIsKept
  <2>2. k \in {operatorKey, backupKey} /\ Sane(c)
    BY <1>1, <2>1 DEF BootInv, OperatorKeyIsKept
  <2>3. ~boot[c].configured => backupKey = 0
    BY <1>1, <2>2 DEF Sane, On, DevSteps
  <2>4. k # 0
    BY <2>1
  <2>q. QED
    BY <1>1, <2>2, <2>3, <2>4
<1>6. HardhatIsTracked'
  <2>1. \A d \in Clients : On(d, "pid") => On(d, "pid")' /\ boot'[d] = boot[d]
    BY <1>1, <1>2 DEF On, RunMoves
  <2>q. QED
    BY <1>1, <2>1 DEF BootInv, HardhatIsTracked, Live
<1>7. Sane(c)'
  BY <1>2 DEF Sane, RunMoves, DevSteps
<1>q. QED
  BY <1>1, <1>2, <1>3, <1>4, <1>5, <1>6, <1>7, RunInv

(* The steps of both commands that touch neither hardhat nor the keys.     *)
LEMMA QuietStepsKeep ==
    ASSUME BootTypeInv, BootInv, NEW c \in Clients,
           \/ WaitForL1Ready(c) \/ DeployContracts(c) \/ InstallNode(c)
           \/ Returned(c, "installing", "start") \/ StartNode(c)
           \/ Returned(c, "starting", "persist") \/ FirstBackup(c) \/ StopNextNode(c)
           \/ ForgetArtifacts(c)
    PROVE  BootTypeInv' /\ BootInv'
<1>1. /\ UNCHANGED <<chains, hardhatPid, operatorKey, backupKey, funded, ports, untracked, bypassed, overlapped>>
      /\ boot[c] # NotRunning
      /\ boot[c].at # "pid"
  <2>1. CASE \/ WaitForL1Ready(c) \/ DeployContracts(c) \/ InstallNode(c)
             \/ Returned(c, "installing", "start")
    BY <2>1 DEF WaitForL1Ready, DeployContracts, InstallNode, Returned, On
  <2>2. CASE \/ StartNode(c) \/ Returned(c, "starting", "persist") \/ FirstBackup(c)
             \/ StopNextNode(c) \/ ForgetArtifacts(c)
    BY <2>2 DEF StartNode, Returned, FirstBackup, StopNextNode, ForgetArtifacts, On
  <2>q. QED
    BY <2>1, <2>2
<1>2. artifacts' \in [Contracts -> {0} \cup Chains]
  <2>1. CASE DeployContracts(c)
    BY <2>1 DEF DeployContracts, set, Listening, ListeningOn, BootTypeInv
  <2>2. CASE ForgetArtifacts(c)
    BY <2>2 DEF ForgetArtifacts, NoArtifacts
  <2>3. CASE ~DeployContracts(c) /\ ~ForgetArtifacts(c)
    BY <2>3 DEF WaitForL1Ready, InstallNode, Returned, StartNode, FirstBackup, StopNextNode,
       BootTypeInv
  <2>q. QED
    BY <2>1, <2>2, <2>3
<1>3. ASSUME NEW w \in {NotRunning} \cup Run, RunMoves(c, w),
             w # NotRunning =>
               /\ w.configured = boot[c].configured
               /\ \/ boot[c].at \in DevSteps \ {"backup"} /\ w.at \in DevSteps
                  \/ w.at \in TearSteps
               /\ w.at \notin {"spawn", "pid", "l1", "fund", "unlinkHardhat"}
               /\ w.at = "key" => boot[c].at = "l1"
      PROVE  BootTypeInv' /\ BootInv'
  <2>1. QuietRun(c, w)
    BY <1>1, <1>3 DEF QuietRun
  <2>q. QED
    BY <1>1, <1>2, <1>3, <2>1, QuietGoesOn
<1>4. CASE End(c)
  BY <1>3, <1>4, EndMoves
<1>5. ASSUME NEW at \in {"key", "install", "start", "installing", "persist", "starting"},
             Proceed(c, at), boot[c].at \in DevSteps \ {"backup"},
             at = "key" => boot[c].at = "l1"
      PROVE  BootTypeInv' /\ BootInv'
  BY <1>1, <1>3, <1>5, ProceedMoves DEF DevSteps
<1>6. CASE Proceed(c, "hardhat")
  BY <1>1, <1>3, <1>6, ProceedMoves DEF TearSteps
<1>7. ASSUME NEW n, On(c, "stop"), boot' = [boot EXCEPT ![c].left = @ \ {n}]
      PROVE  BootTypeInv' /\ BootInv'
  <2> DEFINE w == [boot[c] EXCEPT !.left = @ \ {n}]
  <2>1. boot[c] \in Run /\ boot[c].at = "stop"
    BY <1>7 DEF BootTypeInv, On
  <2>2. w \in Run /\ w.at = "stop" /\ w.configured = boot[c].configured
    BY <2>1 DEF Run
  <2>3. boot' = [boot EXCEPT ![c] = w]
    BY <1>7
  <2> HIDE DEF w
  <2>4. RunMoves(c, w)
    BY <2>3 DEF RunMoves, BootTypeInv
  <2>q. QED
    BY <1>3, <2>2, <2>4 DEF TearSteps
<1>8. CASE WaitForL1Ready(c)
  BY <1>4, <1>5, <1>8 DEF WaitForL1Ready, On, DevSteps
<1>9. CASE DeployContracts(c)
  BY <1>5, <1>9 DEF DeployContracts, On, DevSteps
<1>10. CASE InstallNode(c)
  BY <1>4, <1>5, <1>10 DEF InstallNode, On, DevSteps
<1>11. CASE Returned(c, "installing", "start") \/ Returned(c, "starting", "persist")
  BY <1>5, <1>11 DEF Returned, On, DevSteps
<1>12. CASE StartNode(c)
  BY <1>5, <1>12 DEF StartNode, On, DevSteps
<1>13. CASE FirstBackup(c) \/ ForgetArtifacts(c)
  BY <1>4, <1>13 DEF FirstBackup, ForgetArtifacts
<1>14. CASE StopNextNode(c)
  BY <1>6, <1>7, <1>14 DEF StopNextNode
<1>q. QED
  BY <1>8, <1>9, <1>10, <1>11, <1>12, <1>13, <1>14

-----------------------------------------------------------------------------
(* bootstrap teardown, and what happens to hardhat and to programs *)

(* Of chains, some of those that run end or begin to listen. *)
ChainsMove ==
    /\ \A h \in Chains : Live(h)' => Live(h)
    /\ \A h \in Chains : h \in Listening' => h \in Listening \/ chains[h] = "starting"
    /\ \A h \in Chains : chains[h] \in {"listening", "dead"} => chains'[h] \in {"listening", "dead"}
    /\ \A h \in Chains : chains[h] = "dead" => chains'[h] = "dead"

LEMMA ChainsMoveKeeps ==
    ASSUME BootTypeInv, BootInv, ChainsMove, UNCHANGED <<funded, operatorKey, backupKey, bypassed, overlapped>>
    PROVE  FundedWereUp' /\ OperatorKeyIsKept'
<1>1. FundedWereUp'
  BY DEF BootInv, FundedWereUp, ChainsMove
<1>2. OperatorKeyIsKept'
  <2>1. SUFFICES ASSUME NEW h \in Listening' \ bypassed, NEW k \in 1..MaxOperatorKeys, ~overlapped,
                        <<h, k>> \in funded
                 PROVE  k \in {operatorKey, backupKey}
    BY DEF OperatorKeyIsKept
  <2>2. h \in Chains
    BY <2>1 DEF Listening
  <2>3. h \in Listening
    BY <2>1, <2>2 DEF ChainsMove, BootInv, FundedWereUp
  <2>q. QED
    BY <2>1, <2>3 DEF BootInv, OperatorKeyIsKept
<1>q. QED
  BY <1>1, <1>2

LEMMA ChainEnds ==
    ASSUME BootTypeInv, NEW h \in Chains, chains[h] # "unused",
           chains' = [chains EXCEPT ![h] = "dead"]
    PROVE  /\ ChainsMove
           /\ chains' \in [Chains -> {"unused", "starting", "listening", "dead"}]
  BY DEF ChainsMove, BootTypeInv, Live, Listening

LEMMA HardhatMoves ==
    ASSUME BootTypeInv, BootInv, NEW h \in Chains, Listen(h) \/ HardhatEnds(h)
    PROVE  BootTypeInv' /\ BootInv'
<1>1. UNCHANGED <<hardhatPid, artifacts, operatorKey, backupKey, funded, boot,
                  ports, untracked, bypassed, overlapped>>
  BY DEF Listen, HardhatEnds
<1>2. /\ ChainsMove
      /\ chains' \in [Chains -> {"unused", "starting", "listening", "dead"}]
  <2>1. CASE Listen(h)
    <3>1. /\ chains[h] = "starting"
          /\ chains' = [chains EXCEPT ![h] = IF ListeningOn(ports[h]) = {} THEN "listening" ELSE "dead"]
      BY <2>1 DEF Listen
    <3>2. \A g \in Chains : chains'[g] =
              IF g = h THEN IF ListeningOn(ports[h]) = {} THEN "listening" ELSE "dead" ELSE chains[g]
      BY <3>1 DEF BootTypeInv
    <3>3. chains' \in [Chains -> {"unused", "starting", "listening", "dead"}]
      BY <3>1 DEF BootTypeInv
    <3>q. QED
      BY <3>1, <3>2, <3>3 DEF ChainsMove, Live, Listening
  <2>2. CASE HardhatEnds(h)
    BY <2>2, ChainEnds DEF HardhatEnds, Live
  <2>q. QED
    BY <2>1, <2>2
<1>3. BootTypeInv'
  BY <1>1, <1>2 DEF BootTypeInv
<1>4. FundedWereUp' /\ OperatorKeyIsKept'
  BY <1>1, <1>2, ChainsMoveKeeps
<1>5. HardhatIsTracked'
  <2>1. \A d \in Clients : \A at : On(d, at)' <=> On(d, at)
    BY <1>1 DEF On
  <2>q. QED
    BY <1>1, <1>2, <2>1 DEF ChainsMove, BootInv, HardhatIsTracked
<1>6. ASSUME NEW c \in Clients, ~overlapped, boot[c] # NotRunning, Sane(c) PROVE Sane(c)'
  <2>1. \A g \in Listening', k \in 1..MaxOperatorKeys : <<g, k>> \in funded => g \in Listening
    <3>1. \A g \in Listening' : g \in Chains
      BY DEF Listening
    <3>q. QED
      BY <1>2, <3>1 DEF ChainsMove, BootInv, FundedWereUp
  <2>2. boot[c].at = "unlinkHardhat" => hardhatPid' # 0 /\ chains'[hardhatPid'] = "dead"
    BY <1>1, <1>2, <1>6 DEF Sane, ChainsMove, BootTypeInv
  <2>q. QED
    BY <1>1, <1>2, <1>6, <2>1, <2>2 DEF Sane, ChainsMove
<1>7. Alone => Alone'
  BY <1>1 DEF Alone
<1>q. QED
  BY <1>1, <1>3, <1>4, <1>5, <1>6, <1>7 DEF BootInv

LEMMA StopHardhatKeeps ==
    ASSUME BootTypeInv, BootInv, NEW c \in Clients, StopHardhat(c)
    PROVE  BootTypeInv' /\ BootInv'
<1>1. /\ On(c, "hardhat") /\ boot[c] # NotRunning /\ boot[c].at = "hardhat"
      /\ UNCHANGED <<hardhatPid, artifacts, operatorKey, backupKey, funded, ports, untracked, bypassed, overlapped>>
  BY DEF StopHardhat, On
<1>2. CASE hardhatPid = 0 \/ ~Live(hardhatPid)
  <2>1. PICK w \in Run : RunMoves(c, w) /\ w.at = "forget" /\ w.configured = boot[c].configured
    BY <1>1, <1>2, ProceedMoves DEF StopHardhat, TearSteps
  <2>2. QuietRun(c, w)
    BY <1>1, <1>2, <2>1 DEF QuietRun, StopHardhat
  <2>q. QED
    BY <1>1, <2>1, <2>2, QuietGoesOn DEF TearSteps, BootTypeInv
<1>3. CASE hardhatPid # 0 /\ Live(hardhatPid)
  <2>1. PICK w \in Run : RunMoves(c, w) /\ w.at = "unlinkHardhat" /\ w # NotRunning
    BY <1>1, <1>3, ProceedMoves DEF StopHardhat, TearSteps
  <2>2. /\ hardhatPid \in Chains
        /\ chains[hardhatPid] # "unused"
        /\ chains' = [chains EXCEPT ![hardhatPid] = "dead"]
    BY <1>3 DEF StopHardhat, BootTypeInv, Live
  <2>3. /\ ChainsMove
        /\ chains' \in [Chains -> {"unused", "starting", "listening", "dead"}]
    BY <2>2, ChainEnds
  <2>4. BootTypeInv'
    BY <1>1, <2>1, <2>3, RunMovesType DEF BootTypeInv
  <2>5. FundedWereUp' /\ OperatorKeyIsKept'
    BY <1>1, <2>3, ChainsMoveKeeps
  <2>6. HardhatIsTracked'
    <3>1. \A d \in Clients : On(d, "pid") => On(d, "pid")' /\ boot'[d] = boot[d]
      BY <1>1, <2>1 DEF On, RunMoves
    <3>q. QED
      BY <1>1, <2>3, <3>1 DEF BootInv, HardhatIsTracked, ChainsMove
  <2>7. Sane(c)'
    <3>1. boot'[c].at = "unlinkHardhat" /\ hardhatPid' # 0 /\ chains'[hardhatPid'] = "dead"
      BY <1>1, <1>3, <2>1, <2>2 DEF RunMoves, BootTypeInv
    <3>q. QED
      BY <3>1 DEF Sane, DevSteps
  <2>q. QED
    BY <1>1, <2>1, <2>4, <2>5, <2>6, <2>7, RunInv
<1>q. QED
  BY <1>2, <1>3

LEMMA UnlinkHardhatKeeps ==
    ASSUME BootTypeInv, BootInv, NEW c \in Clients, UnlinkHardhat(c)
    PROVE  BootTypeInv' /\ BootInv'
<1>1. /\ On(c, "unlinkHardhat") /\ boot[c] # NotRunning /\ hardhatPid' = 0
      /\ UNCHANGED <<chains, artifacts, operatorKey, backupKey, funded, ports, untracked, bypassed, overlapped>>
  BY DEF UnlinkHardhat, On
<1>2. PICK w \in Run : RunMoves(c, w) /\ w.at = "forget" /\ w # NotRunning
  BY <1>1, ProceedMoves DEF UnlinkHardhat, TearSteps
<1>3. BootTypeInv'
  BY <1>1, <1>2, RunMovesType DEF BootTypeInv
<1>4. FundedWereUp' /\ OperatorKeyIsKept'
  BY <1>1 DEF BootInv, FundedWereUp, OperatorKeyIsKept, Listening
<1>5. HardhatIsTracked'
  <2>1. SUFFICES ASSUME NEW h \in Chains \ (untracked \cup bypassed), Live(h), ~overlapped
                 PROVE  FALSE
    BY <1>1 DEF HardhatIsTracked, Live
  <2>2. Sane(c) /\ chains[hardhatPid] = "dead"
    BY <1>1, <2>1 DEF BootInv, Sane, On
  <2>3. h # hardhatPid
    BY <2>1, <2>2 DEF Live
  <2>4. PICK d \in Clients : On(d, "pid")
    BY <2>1, <2>3 DEF BootInv, HardhatIsTracked
  <2>5. d # c /\ boot[d] # NotRunning
    BY <1>1, <2>4 DEF On
  <2>q. QED
    BY <1>1, <2>1, <2>5 DEF BootInv, Alone
<1>6. Sane(c)'
  BY <1>2 DEF Sane, RunMoves, DevSteps
<1>q. QED
  BY <1>1, <1>2, <1>3, <1>4, <1>5, <1>6, RunInv

LEMMA ProgramEndsKeeps ==
    ASSUME BootTypeInv, BootInv, NEW c \in Clients, ProgramEnds(c)
    PROVE  BootTypeInv' /\ BootInv'
<1>1. /\ boot[c] # NotRunning /\ boot[c] \in Run
      /\ untracked' = IF On(c, "pid") THEN untracked \cup {boot[c].chain} ELSE untracked
      /\ UNCHANGED <<chains, ports, hardhatPid, artifacts, operatorKey, backupKey, funded,
                     bypassed, overlapped>>
  BY DEF ProgramEnds, BootTypeInv
<1>2. QuietRun(c, NotRunning)
  BY <1>1, EndMoves DEF QuietRun, ProgramEnds
<1>3. untracked' \subseteq Chains
  BY <1>1 DEF BootTypeInv, On, Run
<1>4. BootTypeInv'
  BY <1>1, <1>2, <1>3, QuietType DEF BootTypeInv
<1>q. QED
  BY <1>1, <1>2, <1>4, QuietInv

LEMMA BootStepKeeps ==
    ASSUME TypeInv, BootTypeInv, BootInv, NEW c \in Clients, BootStep(c)
    PROVE  BootTypeInv' /\ BootInv'
<1>1. ASSUME NEW written \in BOOLEAN, PersistKey(c, written) PROVE BootTypeInv' /\ BootInv'
  BY <1>1, PersistKeyKeeps
<1>q. QED
  BY <1>1, BootBegins, CheckPortsKeeps, SpawnHardhatKeeps, WriteHardhatPidKeeps, GenerateKeyKeeps,
     FundOperatorKeeps, QuietStepsKeep, StopHardhatKeeps, UnlinkHardhatKeeps, ProgramEndsKeeps
     DEF BootStep

-----------------------------------------------------------------------------
(* The whole *)

(* A bootstrap command moves the nodes as the node manager's callers do,   *)
(* or leaves them alone, ...                                               *)
LEMMA BootMovesNodes ==
    ASSUME BootTypeInv, NEW c \in Clients, BootStep(c)
    PROVE  NodeMoves
<1>1. CASE \/ RunDev(c) \/ CheckPorts(c) \/ SpawnHardhat(c) \/ WriteHardhatPid(c)
           \/ WaitForL1Ready(c) \/ GenerateKey(c)
  BY <1>1 DEF RunDev, CheckPorts, SpawnHardhat, WriteHardhatPid, WaitForL1Ready, GenerateKey,
     NodeMoves
<1>2. CASE \/ FundOperator(c) \/ DeployContracts(c) \/ Returned(c, "installing", "start")
           \/ Returned(c, "starting", "persist") \/ FirstBackup(c) \/ StopHardhat(c)
           \/ UnlinkHardhat(c) \/ ForgetArtifacts(c)
  BY <1>2 DEF FundOperator, DeployContracts, Returned, FirstBackup, StopHardhat, UnlinkHardhat,
     ForgetArtifacts, NodeMoves
<1>3. ASSUME NEW written \in BOOLEAN, PersistKey(c, written) PROVE NodeMoves
  BY <1>3 DEF PersistKey, NodeMoves
<1>4. CASE InstallNode(c) \/ StartNode(c)
  <2>1. DevNode \in Names /\ DevNode \in Dirs
    BY BootstrapAssumption, NodeAssumption
  <2>2. BeginInstall(c, DevNode, DevNode) \/ BeginStart(c, DevNode) \/ UNCHANGED nvars
    BY <1>4 DEF InstallNode, StartNode
  <2>q. QED
    BY <2>1, <2>2 DEF Begins, NodeMoves
<1>5. CASE StopNextNode(c)
  <2>1. boot[c].left \subseteq Names
    BY <1>5 DEF StopNextNode, On, BootTypeInv, Run
  <2>q. QED
    BY <1>5, <2>1 DEF StopNextNode, Begins, NodeMoves
<1>6. CASE Teardown(c)
  <2>1. Lists(c)
    BY <1>6 DEF Teardown, Lists
  <2>q. QED
    BY <2>1 DEF NodeMoves
<1>7. CASE ProgramEnds(c)
  BY <1>7 DEF ProgramEnds, NodeMoves
<1>q. QED
  BY <1>1, <1>2, <1>3, <1>4, <1>5, <1>6, <1>7 DEF BootStep

(* ... and so does every step of the whole.                                *)
LEMMA StepsMoveNodes ==
    ASSUME BootTypeInv, [Next]_vars
    PROVE  NodeMoves
<1>1. ASSUME NEW c \in Clients, NodeCommand(c) \/ NodeTool(c) PROVE NodeMoves
  BY <1>1, NextMoves DEF NodeCommand, NodeTool, NodeNext
<1>2. ASSUME NEW c \in Clients, NodeStep(c) PROVE NodeMoves
  BY <1>2 DEF NodeStep, NodeMoves
<1>3. ASSUME NEW h \in Chains, Listen(h) \/ HardhatEnds(h) PROVE NodeMoves
  BY <1>3 DEF Listen, HardhatEnds, NodeMoves
<1>4. CASE \E p \in Pids : Exit(p) \/ Reuse(p)
  BY <1>4 DEF NodeMoves
<1>5. CASE UNCHANGED vars
  BY <1>5 DEF vars, NodeMoves
<1>q. QED
  BY <1>1, <1>2, <1>3, <1>4, <1>5, BootMovesNodes DEF Next

(* What the steps of the nodes leave alone. *)
LEMMA BootKept ==
    ASSUME BootTypeInv, BootInv, UNCHANGED bvars
    PROVE  BootTypeInv' /\ BootInv'
<1>1. UNCHANGED <<chains, hardhatPid, artifacts, operatorKey, backupKey, funded, boot,
                  ports, untracked, bypassed, overlapped>>
  BY DEF bvars
<1>2. BootTypeInv'
  BY <1>1 DEF BootTypeInv
<1>3. FundedWereUp' /\ OperatorKeyIsKept' /\ HardhatIsTracked'
  BY <1>1 DEF BootInv, FundedWereUp, OperatorKeyIsKept, HardhatIsTracked, Listening, Live, On
<1>4. ~overlapped => Alone' /\ \A c \in Clients : boot'[c] # NotRunning => Sane(c)'
  BY <1>1 DEF BootInv, Alone, Sane, Listening, Live
<1>q. QED
  BY <1>1, <1>2, <1>3, <1>4 DEF BootInv

WholeInv == NodeInv /\ BootTypeInv /\ BootInv

LEMMA InitWhole == Init => WholeInv
  BY InitNodeInv, InitBootType, InitBootInv DEF Init, WholeInv

LEMMA NextWhole == WholeInv /\ [Next]_vars => WholeInv'
<1> SUFFICES ASSUME WholeInv, [Next]_vars PROVE WholeInv'
  OBVIOUS
<1>1. TypeInv /\ NodeInv /\ BootTypeInv /\ BootInv
  BY DEF WholeInv, NodeInv
<1>2. NodeInv'
  BY <1>1, StepsMoveNodes, MovesNodeInv
<1>3. ASSUME UNCHANGED bvars PROVE BootTypeInv' /\ BootInv'
  BY <1>1, <1>3, BootKept
<1>4. ASSUME NEW c \in Clients, BootStep(c) PROVE BootTypeInv' /\ BootInv'
  BY <1>1, <1>4, BootStepKeeps
<1>5. ASSUME NEW h \in Chains, Listen(h) \/ HardhatEnds(h) PROVE BootTypeInv' /\ BootInv'
  BY <1>1, <1>5, HardhatMoves
<1>6. \/ UNCHANGED bvars
      \/ \E c \in Clients : BootStep(c)
      \/ \E h \in Chains : Listen(h) \/ HardhatEnds(h)
  BY DEF Next, NodeCommand, NodeTool, NodeStep, vars
<1>q. QED
  BY <1>2, <1>3, <1>4, <1>5, <1>6 DEF WholeInv

LEMMA WholeShows ==
    WholeInv => TypeOK /\ LiveIsTracked /\ ConfigNamesKey /\ HardhatIsTracked /\ OperatorKeyIsKept
<1> SUFFICES ASSUME WholeInv
             PROVE  TypeOK /\ LiveIsTracked /\ ConfigNamesKey /\ HardhatIsTracked
                    /\ OperatorKeyIsKept
  OBVIOUS
<1>1. NodeTypeOK /\ LiveIsTracked /\ ConfigNamesKey /\ HardhatIsTracked /\ OperatorKeyIsKept
  BY NodeInvShows DEF WholeInv, BootInv
<1>2. TypeOK
  BY <1>1 DEF WholeInv, BootTypeInv, TypeOK, Run
<1>q. QED
  BY <1>1, <1>2

(* Whatever the programs do, alone or at the same time, and wherever they  *)
(* are cut off: the invariant of nodes, chains and keys is kept.           *)
THEOREM Invariance == Spec => []WholeInv
  BY InitWhole, NextWhole, PTL DEF Spec

(* Files, rows, processes, hardhat and the programs' progress stay within  *)
(* their types, whatever overlaps and whoever is cut off.                  *)
THEOREM TypeCorrect == Spec => []TypeOK
  BY Invariance, WholeShows, PTL

(* Every service of a node that runs is shown to whoever looks for it,     *)
(* also of the nodes that "bootstrap dev" and "teardown" start and stop,   *)
(* and has a row in the table, up to the races the property names.         *)
THEOREM NodesStayTracked == Spec => []LiveIsTracked
  BY Invariance, WholeShows, PTL

(* The configuration of a node names the key it has, or none after a patch *)
(* of the nodeId; both are there until the removal of a registered node.   *)
THEOREM ConfigsNameKeys == Spec => []ConfigNamesKey
  BY Invariance, WholeShows, PTL

(* hardhat.pid names each hardhat that runs, so that teardown finds it,    *)
(* unless a run did not notice it: one with another port, or an early one. *)
THEOREM HardhatStaysTracked == Spec => []HardhatIsTracked
  BY Invariance, WholeShows, PTL

(* The key that was given funds on a chain that runs, and that no later    *)
(* run failed to notice, is in operator.key or in the configuration.       *)
THEOREM OperatorKeysKept == Spec => []OperatorKeyIsKept
  BY Invariance, WholeShows, PTL

(* No step replaces the key of a node in the table but the installation of *)
(* another name in its directory, and none removes it but its removal.     *)
THEOREM KeysKept == Spec => KeyIsKept
<1>1. WholeInv /\ [Next]_vars =>
          [\A n \in Names, d \in Dirs \ mixed' :
              sqlite /\ rows[n] = d /\ rows'[n] = d /\ nodeKey'[d] # nodeKey[d] =>
                  \E c \in Clients :
                      \/ At(c, "rm") /\ op[c].withData /\ Dir(c) = d
                      \/ At(c, "key") /\ op[c].name # n /\ Dir(c) = d]_nvars
  <2> SUFFICES ASSUME WholeInv, [Next]_vars,
                      NEW n \in Names, NEW d \in Dirs \ mixed',
                      sqlite, rows[n] = d, nodeKey'[d] # nodeKey[d]
               PROVE  \E c \in Clients :
                          \/ At(c, "rm") /\ op[c].withData /\ Dir(c) = d
                          \/ At(c, "key") /\ op[c].name # n /\ Dir(c) = d
    OBVIOUS
  <2>1. TypeInv /\ EntriesOK /\ BootTypeInv
    BY DEF WholeInv, NodeInv
  <2>q. QED
    BY <2>1, StepsMoveNodes, MovesKeepKeys
<1>q. QED
  BY <1>1, Invariance, PTL DEF Spec, KeyIsKept
=============================================================================
