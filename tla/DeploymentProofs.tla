---------------------------- MODULE DeploymentProofs ----------------------------
(***************************************************************************)
(* Proofs about Deployment, for any number of starts, stops and key pairs, *)
(* any command lines and any names.                                        *)
(***************************************************************************)
EXTENDS Deployment, TLAPS

Pair == 1 .. MaxPairs

--------------------------------------------------------------------------------
(* The inductive invariant. *)

\* A number that is in use: of a pair that has been generated, or of none.
Known == 0 .. pairs \cup {Partial}

\* No file and no process has a pair that is still to be generated.
KnownInv ==
    /\ certFile \in [Dirs -> Known] /\ keyFile \in [Dirs -> Known]
    /\ cert \in Known /\ key \in Known

\* The memory of a server that is past the choice between loading and generating,
\* and how much of it its files have.
MemoryInv ==
    /\ phase \in {"cert", "certOpen", "key", "keyOpen", "bind", "serving"} =>
          cert = key /\ cert \in Pair
    /\ phase \in {"key", "keyOpen"} => certFile[Here] = cert
    /\ phase \in {"rustls", "bind", "serving"} =>
          certFile[Here] = cert /\ keyFile[Here] = key /\ keyFile[Here] # Absent

\* The files of a directory form a pair, and always will.
Settled(d) == certFile[d] = keyFile[d] /\ certFile[d] \in Pair

\* Unless files are removed, the key follows the certificate: it is not there
\* yet, or cut short, or belongs to it.
KeyFollows(d) ==
    \/ keyFile[d] = Absent
    \/ keyFile[d] = Partial /\ certFile[d] # Absent
    \/ Settled(d)

\* How far the key of the server's directory is.
KeyInPhase ==
    /\ phase \in {"cert", "certOpen", "key"} => keyFile[Here] = Absent
    /\ phase = "keyOpen" => keyFile[Here] = Partial
    /\ phase = "failed" => keyFile[Here] = Partial

FilesInv ==
    /\ \A d \in Dirs : d \notin removed => KeyFollows(d)
    /\ Here \notin removed => KeyInPhase

\* What clients have seen is what the files hold.
CopyInv ==
    /\ copiedFrom \in Dirs
    /\ copy # Absent /\ copiedFrom \notin removed =>
          Settled(copiedFrom) /\ certFile[copiedFrom] = copy

Holds(d, c, name) == Settled(d) /\ certFile[d] = c /\ san[c] = name

SeenInv ==
    /\ refusedBy \in Dirs
    /\ \A c, name, d : <<c, name, d>> \in worked =>
          d \in Dirs /\ (d \in removed \/ Holds(d, c, name))
    /\ cEnd = "tls" =>
          \/ refusedBy \in removed
          \/ Settled(refusedBy) /\ ~Holds(refusedBy, roots, expects)

IndInv ==
    /\ pairs \in 0 .. MaxPairs
    /\ san \in [Pair -> Hostnames \cup {NoName}]
    /\ args \in ServerArgs
    /\ cpc # "off" => cEnd # "tls"
    /\ KnownInv /\ MemoryInv /\ FilesInv /\ CopyInv /\ SeenInv

--------------------------------------------------------------------------------

USE DEF Pair, Absent, Partial, files, memory, counts, serverVars, copyVars, clientVars, history

\* --config-dir names one directory, or none.
LEMMA DirectoryType == ASSUME NEW a \in ServerArgs PROVE Directory(a) \in Dirs
<1>1. Args(a)
      BY ArgsAssumption
<1>2. CASE a.configDir = {}
      BY <1>2, DirsAssumption DEF Directory
<1>3. ASSUME NEW d \in Dirs, a.configDir = {d} PROVE Directory(a) \in Dirs
      BY <1>3 DEF Directory
<1> QED BY <1>1, <1>2, <1>3 DEF Args

LEMMA HereType == ASSUME IndInv PROVE Here \in Dirs
  BY DirectoryType DEF IndInv, Here

LEMMA InitInd == Init => IndInv
<1> SUFFICES ASSUME Init PROVE IndInv
    OBVIOUS
<1>1. args \in ServerArgs /\ Here \in Dirs
      BY DirectoryType DEF Init, ServerInit, Here
<1>2. KnownInv /\ pairs \in 0 .. MaxPairs /\ san \in [Pair -> Hostnames \cup {NoName}]
      BY BoundsAssumption DEF Init, ServerInit, KnownInv, Known
<1>3. MemoryInv /\ FilesInv
      BY <1>1 DEF Init, ServerInit, MemoryInv, FilesInv, KeyFollows, KeyInPhase
<1>4. CopyInv /\ SeenInv /\ (cpc # "off" => cEnd # "tls")
      BY DirsAssumption DEF Init, CopyInv, SeenInv
<1> QED BY <1>1, <1>2, <1>3, <1>4 DEF IndInv

\* A server that runs has settled its files.
LEMMA ServingSettled ==
    ASSUME IndInv, phase = "serving"
    PROVE  Settled(Here) /\ cert = certFile[Here]
  BY DEF IndInv, MemoryInv, Settled

\* A step of the client changes none of the server's variables.
LEMMA ClientStep ==
    ASSUME IndInv, NEW w,
           \/ ClientStart(w) \/ LoadRoots \/ ConnectOk \/ ConnectRefused \/ ConnectFails
           \/ HandlerEnds \/ Copy
    PROVE  IndInv'
<1>1. UNCHANGED serverVars
      BY DEF ClientStart, LoadRoots, ConnectOk, ConnectRefused, ConnectFails, HandlerEnds,
             Copy
<1>2. Here' = Here /\ Here \in Dirs
      BY <1>1, HereType DEF Here
<1>3. /\ (KnownInv /\ MemoryInv /\ FilesInv)'
      /\ pairs' \in 0 .. MaxPairs /\ args' \in ServerArgs
      /\ san' \in [Pair -> Hostnames \cup {NoName}]
      BY <1>1, <1>2
         DEF IndInv, KnownInv, Known, MemoryInv, FilesInv, KeyFollows, KeyInPhase, Settled
<1>4. (cpc # "off" => cEnd # "tls")'
      BY DEF IndInv, ClientStart, LoadRoots, ConnectOk, ConnectRefused, ConnectFails,
             HandlerEnds, Copy
<1>5. \A d : Settled(d)' <=> Settled(d)
      BY <1>1 DEF Settled
<1>6. CopyInv'
  <2>1. CASE Copy
        BY <2>1, <1>1, <1>2, <1>5, ServingSettled DEF Copy, CopyInv
  <2>2. CASE UNCHANGED copyVars
        BY <2>2, <1>1, <1>5 DEF IndInv, CopyInv
  <2> QED BY <2>1, <2>2 DEF ClientStart, LoadRoots, ConnectOk, ConnectRefused, ConnectFails,
                            HandlerEnds
<1>7. SeenInv'
  <2>0. \A d, c, name : Holds(d, c, name)' <=> Holds(d, c, name)
        BY <1>1, <1>5 DEF Holds
  <2>1. CASE ConnectOk
    <3>1. /\ Holds(Here, roots, expects) /\ worked' = worked \cup {<<roots, expects, Here>>}
          /\ UNCHANGED <<refusedBy, roots, expects, cEnd>>
          BY <2>1, ServingSettled DEF ConnectOk, Verifies, Holds
    <3> QED BY <3>1, <2>0, <1>1, <1>2, <1>5 DEF IndInv, SeenInv
  <2>2. CASE ConnectRefused
    <3>1. /\ Settled(Here) /\ ~Holds(Here, roots, expects) /\ refusedBy' = Here
          /\ UNCHANGED <<worked, roots, expects>>
          BY <2>2, ServingSettled DEF ConnectRefused, Verifies, Holds
    <3> QED BY <3>1, <2>0, <1>1, <1>2, <1>5 DEF IndInv, SeenInv
  <2>3. CASE UNCHANGED <<history, clientVars>>
        BY <2>3, <2>0, <1>1, <1>5 DEF IndInv, SeenInv
  <2>4. CASE UNCHANGED history /\ cEnd' # "tls"
        BY <2>4, <2>0, <1>1 DEF IndInv, SeenInv
  <2>5. ClientStart(w) \/ LoadRoots \/ ConnectFails \/ HandlerEnds =>
           UNCHANGED history /\ cEnd' # "tls"
        BY DEF ClientStart, LoadRoots, ConnectFails, HandlerEnds, IndInv
  <2> QED BY <2>1, <2>2, <2>3, <2>4, <2>5 DEF Copy
<1> QED BY <1>3, <1>4, <1>6, <1>7 DEF IndInv

\* What clients have seen stays true of the files if settled files, and the names
\* of their pairs, are left alone but where an operator removes one.
LEMMA SeenKept ==
    ASSUME IndInv, UNCHANGED <<copyVars, clientVars, history>>, removed \subseteq removed',
           \A d \in Dirs \ removed' : Settled(d) =>
              /\ certFile'[d] = certFile[d] /\ keyFile'[d] = keyFile[d]
              /\ san'[certFile[d]] = san[certFile[d]]
    PROVE  CopyInv' /\ SeenInv' /\ (cpc # "off" => cEnd # "tls")'
<1>1. \A d \in Dirs \ removed' : Settled(d) =>
         Settled(d)' /\ \A c, name : Holds(d, c, name)' <=> Holds(d, c, name)
      BY DEF Settled, Holds
<1>2. CopyInv'
      BY <1>1 DEF IndInv, CopyInv, Settled
<1>3. SeenInv'
  <2>1. ASSUME NEW c, NEW name, NEW d, <<c, name, d>> \in worked, d \notin removed'
        PROVE  d \in Dirs /\ Holds(d, c, name)'
    <3>1. d \in Dirs /\ Holds(d, c, name)
          BY <2>1 DEF IndInv, SeenInv
    <3> QED BY <1>1, <2>1, <3>1 DEF Holds
  <2>2. ASSUME cEnd = "tls", refusedBy \notin removed'
        PROVE  Settled(refusedBy)' /\ ~Holds(refusedBy, roots, expects)'
    <3>1. refusedBy \in Dirs /\ Settled(refusedBy) /\ ~Holds(refusedBy, roots, expects)
          BY <2>2 DEF IndInv, SeenInv
    <3> QED BY <1>1, <2>2, <3>1 DEF Holds
  <2>3. /\ refusedBy \in Dirs
        /\ \A c, name, d : <<c, name, d>> \in worked => d \in Dirs
        BY DEF IndInv, SeenInv
  <2> QED BY <2>1, <2>2, <2>3 DEF SeenInv, Holds
<1> QED BY <1>2, <1>3 DEF IndInv

\* The process goes on, or ends, and no file changes.
LEMMA PhaseStep ==
    ASSUME IndInv, UNCHANGED <<copyVars, clientVars, history, certFile, keyFile, san, pairs,
                               removed>>,
           args' \in ServerArgs, cert' \in Known, key' \in Known, MemoryInv',
           (Here \notin removed => KeyInPhase)'
    PROVE  IndInv'
<1>1. KnownInv' /\ pairs' \in 0 .. MaxPairs /\ san' \in [Pair -> Hostnames \cup {NoName}]
      BY DEF IndInv, KnownInv, Known
<1>2. FilesInv'
      BY DEF IndInv, FilesInv, KeyFollows, Settled
<1>3. CopyInv' /\ SeenInv' /\ (cpc # "off" => cEnd # "tls")'
      BY SeenKept
<1> QED BY <1>1, <1>2, <1>3 DEF IndInv

\* One of the two files of the server's directory is written, while its key is
\* not complete.
LEMMA WriteStep ==
    ASSUME IndInv, UNCHANGED <<copyVars, clientVars, history, san, pairs, removed, args, cert, key>>,
           NEW content \in Known, content # Absent,
           \/ certFile' = [certFile EXCEPT ![Here] = content] /\ keyFile' = keyFile
           \/ keyFile' = [keyFile EXCEPT ![Here] = content] /\ certFile' = certFile,
           Here \notin removed => ~Settled(Here),
           MemoryInv', (Here \notin removed => KeyFollows(Here) /\ KeyInPhase)'
    PROVE  IndInv'
<1>1. Here' = Here /\ Here \in Dirs
      BY HereType DEF Here
<1>2. /\ certFile \in [Dirs -> Known] /\ keyFile \in [Dirs -> Known]
      /\ certFile' \in [Dirs -> Known] /\ keyFile' \in [Dirs -> Known]
      BY <1>1 DEF IndInv, KnownInv
<1>3. \A d \in Dirs : d # Here => certFile'[d] = certFile[d] /\ keyFile'[d] = keyFile[d]
      BY <1>1, <1>2
<1>4. KnownInv' /\ pairs' \in 0 .. MaxPairs /\ san' \in [Pair -> Hostnames \cup {NoName}]
      /\ args' \in ServerArgs
      BY <1>2 DEF IndInv, KnownInv, Known
<1>5. FilesInv'
  <2>1. ASSUME NEW d \in Dirs, d \notin removed PROVE KeyFollows(d)'
    <3>1. CASE d = Here
          BY <2>1, <3>1, <1>1 DEF KeyFollows, Settled
    <3>2. CASE d # Here
          BY <2>1, <3>2, <1>3 DEF IndInv, FilesInv, KeyFollows, Settled
    <3> QED BY <3>1, <3>2
  <2> QED BY <2>1, <1>1 DEF FilesInv
<1>6. CopyInv' /\ SeenInv' /\ (cpc # "off" => cEnd # "tls")'
      BY <1>3, SeenKept
<1> QED BY <1>4, <1>5, <1>6 DEF IndInv

\* Steps of the server leave settled files alone unless an operator removes one.
LEMMA ServerStep ==
    ASSUME IndInv, Server
    PROVE  IndInv'
<1> UNCHANGED <<copyVars, clientVars, history>>
    BY DEF Server
<1>0. /\ Here \in Dirs /\ MaxPairs \in Nat /\ pairs \in 0 .. MaxPairs /\ args \in ServerArgs
      /\ certFile[Here] \in Known /\ keyFile[Here] \in Known /\ cert \in Known /\ key \in Known
      /\ Absent \in Known
      BY HereType, BoundsAssumption DEF IndInv, KnownInv, Known
<1>1. ASSUME NEW a \in ServerArgs, Launch(a) PROVE IndInv'
  <2>1. /\ args' = a /\ phase' \in {"start", "exited"}
        /\ UNCHANGED <<files, san, memory, counts, removed>>
        BY <1>1 DEF Launch
  <2>2. MemoryInv' /\ KeyInPhase'
        BY <2>1 DEF MemoryInv, KeyInPhase
  <2> QED BY <1>0, <2>1, <2>2, PhaseStep
<1>2. ASSUME UNCHANGED args PROVE Here' = Here
      BY <1>2 DEF Here
<1>3. CASE Load
  <2>1. UNCHANGED <<files, san, args, rules, counts, removed>> /\ phase' = "rustls" /\ BothExist
        /\ cert' = certFile[Here] /\ key' = keyFile[Here]
        BY <1>3 DEF Load
  <2>2. MemoryInv' /\ KeyInPhase'
        BY <1>2, <2>1 DEF MemoryInv, KeyInPhase, BothExist
  <2> QED BY <1>0, <2>1, <2>2, PhaseStep
<1>4. CASE Generate
  <2>1. /\ phase = "start" /\ ~BothExist /\ pairs < MaxPairs /\ pairs' = pairs + 1
        /\ san' = [san EXCEPT ![pairs + 1] = args.certHostname]
        /\ cert' = pairs + 1 /\ key' = pairs + 1 /\ phase' = "cert"
        /\ UNCHANGED <<files, args, rules, stops, removed>>
        BY <1>4 DEF Generate
  <2>2. cert' = key' /\ cert' \in Pair /\ pairs' \in 0 .. MaxPairs
        BY <1>0, <2>1
  <2>3. Here \notin removed => keyFile[Here] = Absent
        BY <1>0, <2>1 DEF BothExist, IndInv, FilesInv, KeyFollows, Settled
  <2>4. san' \in [Pair -> Hostnames \cup {NoName}]
        BY <1>0, <2>1, ArgsAssumption DEF Args, IndInv
  <2>5. Known \subseteq Known'
        BY <1>0, <2>1 DEF Known
  <2>6. KnownInv'
    <3>1. cert' \in Known' /\ key' \in Known'
          BY <1>0, <2>1 DEF Known
    <3>2. certFile \in [Dirs -> Known'] /\ keyFile \in [Dirs -> Known']
          BY <2>5 DEF IndInv, KnownInv
    <3> QED BY <2>1, <3>1, <3>2 DEF KnownInv
  <2>7. MemoryInv'
        BY <2>1, <2>2 DEF MemoryInv
  <2>8. FilesInv'
        BY <1>2, <2>1, <2>3 DEF IndInv, FilesInv, KeyFollows, KeyInPhase, Settled
  <2>9. \A d \in Dirs : Settled(d) => san'[certFile[d]] = san[certFile[d]]
    <3>1. \A d \in Dirs : Settled(d) => certFile[d] \in Pair /\ certFile[d] # pairs + 1
          BY <1>0 DEF IndInv, KnownInv, Known, Settled
    <3> QED BY <2>1, <3>1 DEF IndInv
  <2>10. CopyInv' /\ SeenInv' /\ (cpc # "off" => cEnd # "tls")'
         BY <2>1, <2>9, SeenKept
  <2> QED BY <1>0, <2>1, <2>2, <2>4, <2>6, <2>7, <2>8, <2>10 DEF IndInv
<1>5. CASE OpenCert \/ WriteCert \/ OpenKey \/ WriteKey
  <2> DEFINE before == {"cert", "certOpen", "key", "keyOpen"}
  <2>1. /\ phase \in before /\ UNCHANGED <<san, args, rules, memory, counts, removed>>
        BY <1>5 DEF OpenCert, WriteCert, OpenKey, WriteKey, WritesTo
  <2>2. /\ cert = key /\ cert \in Pair /\ Partial \in Known /\ Partial \notin Pair
        /\ Partial # Absent
        BY <1>0, <2>1 DEF IndInv, MemoryInv, Known
  <2>3. /\ Here \notin removed /\ phase # "keyOpen" => keyFile[Here] = Absent
        /\ Here \notin removed /\ phase = "keyOpen" => keyFile[Here] = Partial
        BY <2>1 DEF IndInv, FilesInv, KeyInPhase
  <2>4. Here \notin removed => ~Settled(Here)
        BY <1>0, <2>1, <2>2, <2>3 DEF Settled
  <2>5. certFile \in [Dirs -> Known] /\ keyFile \in [Dirs -> Known]
        BY DEF IndInv, KnownInv
  <2>6. phase \in {"key", "keyOpen"} => certFile[Here] = cert
        BY DEF IndInv, MemoryInv
  <2>7. CASE OpenCert
    <3>1. /\ phase = "cert" /\ phase' = "certOpen" /\ UNCHANGED keyFile
          /\ certFile' = [certFile EXCEPT ![Here] = Partial]
          BY <2>7 DEF OpenCert, WritesTo, WriteCertAs
    <3>2. MemoryInv' /\ (Here \notin removed => KeyFollows(Here) /\ KeyInPhase)'
          BY <1>2, <2>1, <2>2, <2>3, <3>1 DEF MemoryInv, KeyFollows, KeyInPhase
    <3> QED BY <2>1, <2>2, <2>4, <3>1, <3>2, WriteStep
  <2>8. CASE WriteCert
    <3>1. /\ phase = "certOpen" /\ phase' = "key" /\ UNCHANGED keyFile
          /\ certFile' = [certFile EXCEPT ![Here] = cert]
          BY <2>8 DEF WriteCert, WritesTo, WriteCertAs
    <3>2. MemoryInv' /\ (Here \notin removed => KeyFollows(Here) /\ KeyInPhase)'
          BY <1>0, <1>2, <2>1, <2>2, <2>3, <2>5, <3>1 DEF MemoryInv, KeyFollows, KeyInPhase
    <3>3. cert \in Known /\ cert # Absent
          BY <1>0, <2>2
    <3> QED BY <2>1, <2>4, <3>1, <3>2, <3>3, WriteStep
  <2>9. CASE OpenKey
    <3>1. /\ phase = "key" /\ phase' = "keyOpen" /\ UNCHANGED certFile
          /\ keyFile' = [keyFile EXCEPT ![Here] = Partial]
          BY <2>9 DEF OpenKey, WritesTo, WriteKeyAs
    <3>2. MemoryInv' /\ (Here \notin removed => KeyFollows(Here) /\ KeyInPhase)'
          BY <1>0, <1>2, <2>1, <2>2, <2>5, <2>6, <3>1 DEF MemoryInv, KeyFollows, KeyInPhase
    <3> QED BY <2>1, <2>2, <2>4, <3>1, <3>2, WriteStep
  <2>10. CASE WriteKey
    <3>1. /\ phase = "keyOpen" /\ phase' = "rustls" /\ UNCHANGED certFile
          /\ keyFile' = [keyFile EXCEPT ![Here] = key]
          BY <2>10 DEF WriteKey, WritesTo, WriteKeyAs
    <3>2. MemoryInv' /\ (Here \notin removed => KeyFollows(Here) /\ KeyInPhase)'
          BY <1>0, <1>2, <2>1, <2>2, <2>5, <2>6, <3>1
             DEF MemoryInv, KeyFollows, KeyInPhase, Settled
    <3>3. key \in Known /\ key # Absent
          BY <1>0, <2>2
    <3> QED BY <2>1, <2>4, <3>1, <3>2, <3>3, WriteStep
  <2> QED BY <1>5, <2>7, <2>8, <2>9, <2>10
<1>6. CASE Configure
  <2>1. UNCHANGED <<files, san, args, rules, counts, removed>> /\ phase = "rustls"
        BY <1>6 DEF Configure
  <2>2. certFile[Here] = cert /\ keyFile[Here] = key /\ keyFile[Here] # Absent
        BY <2>1 DEF IndInv, MemoryInv
  <2>3. CASE Accepted /\ phase' = "bind" /\ UNCHANGED memory
    <3>1. MemoryInv' /\ KeyInPhase'
          BY <1>2, <2>1, <2>2, <2>3 DEF MemoryInv, KeyInPhase, Accepted
    <3> QED BY <1>0, <2>1, <2>3, <3>1, PhaseStep
  <2>4. CASE ~Accepted /\ Exits("failed")
    <3>1. phase' = "failed" /\ cert' = Absent /\ key' = Absent
          BY <2>4 DEF Exits
    <3>2. Here \notin removed => keyFile[Here] = Partial
          BY <1>0, <2>2, <2>4 DEF Accepted, IndInv, FilesInv, KeyFollows, Settled
    <3>3. MemoryInv' /\ (Here \notin removed => KeyInPhase)'
          BY <1>2, <2>1, <3>1, <3>2 DEF MemoryInv, KeyInPhase
    <3> QED BY <1>0, <2>1, <3>1, <3>3, PhaseStep
  <2> QED BY <1>6, <2>3, <2>4 DEF Configure
<1>7. CASE BindEndpoint \/ Stop \/ FileError
  <2>1. UNCHANGED <<files, san, args, rules, pairs, removed>>
        BY <1>7 DEF BindEndpoint, Stop, FileError
  <2>2. CASE phase = "bind" /\ phase' = "serving" /\ UNCHANGED memory
    <3>1. MemoryInv' /\ KeyInPhase'
          BY <1>2, <2>1, <2>2 DEF IndInv, MemoryInv, KeyInPhase
    <3> QED BY <1>0, <2>1, <2>2, <3>1, PhaseStep
  <2>3. CASE Exits("exited") \/ Exits("down")
    <3>1. phase' \in {"exited", "down"} /\ cert' = Absent /\ key' = Absent
          BY <2>3 DEF Exits
    <3>2. MemoryInv' /\ KeyInPhase'
          BY <3>1 DEF MemoryInv, KeyInPhase
    <3> QED BY <1>0, <2>1, <3>1, <3>2, PhaseStep
  <2> QED BY <1>7, <2>2, <2>3 DEF BindEndpoint, Stop, FileError
<1>8. ASSUME NEW d \in Dirs, Remove(d) PROVE IndInv'
  <2>1. /\ phase \in Down /\ removed' = removed \cup {d}
        /\ UNCHANGED <<san, phase, args, rules, memory, counts>>
        BY <1>8 DEF Remove
  <2>2. /\ certFile \in [Dirs -> Known] /\ keyFile \in [Dirs -> Known]
        /\ certFile' \in [Dirs -> Known] /\ keyFile' \in [Dirs -> Known]
        BY <1>0, <1>8 DEF Remove, IndInv, KnownInv
  <2>3. \A e \in Dirs : e # d => certFile'[e] = certFile[e] /\ keyFile'[e] = keyFile[e]
        BY <1>8, <2>2 DEF Remove
  <2>4. KnownInv'
        BY <1>0, <2>1, <2>2 DEF KnownInv, Known
  <2>5. MemoryInv'
        BY <2>1 DEF MemoryInv, Down
  <2>6. FilesInv'
    <3>1. \A e \in Dirs : e \notin removed' => KeyFollows(e)'
          BY <2>1, <2>3 DEF IndInv, FilesInv, KeyFollows, Settled
    <3>2. Here \notin removed' => KeyInPhase'
          BY <1>0, <1>2, <2>1, <2>3 DEF IndInv, FilesInv, KeyInPhase
    <3> QED BY <1>2, <2>1, <3>1, <3>2 DEF FilesInv
  <2>7. CopyInv' /\ SeenInv' /\ (cpc # "off" => cEnd # "tls")'
        BY <2>1, <2>3, SeenKept
  <2> QED BY <1>0, <2>1, <2>4, <2>5, <2>6, <2>7 DEF IndInv
<1> QED BY <1>1, <1>3, <1>4, <1>5, <1>6, <1>7, <1>8 DEF Server, ServerNext

LEMMA StepInd == ASSUME IndInv, [Next]_vars PROVE IndInv'
<1>1. CASE Server
      BY <1>1, ServerStep
<1>2. CASE UNCHANGED vars
  <2>1. /\ MemoryInv' /\ (Here \notin removed => KeyInPhase)' /\ args' \in ServerArgs
        /\ cert' \in Known /\ key' \in Known
        BY <1>2 DEF vars, IndInv, KnownInv, Known, MemoryInv, FilesInv, KeyInPhase, Here
  <2> QED BY <1>2, <2>1, PhaseStep DEF vars
<1>3. ASSUME NEW w \in {{}} \cup {{name} : name \in WantedNames}, ClientStart(w)
      PROVE  IndInv'
      BY <1>3, ClientStep
<1>4. CASE LoadRoots \/ ConnectOk \/ ConnectRefused \/ ConnectFails \/ HandlerEnds \/ Copy
      BY <1>4, ClientStep
<1> QED BY <1>1, <1>2, <1>3, <1>4 DEF Next

LEMMA Inductive == Spec => []IndInv
BY InitInd, StepInd, PTL DEF Spec

--------------------------------------------------------------------------------

\* A server that runs presents what its files hold, a certificate with its key,
\* however often its start was interrupted before.
THEOREM FilesServed == Spec => []ServesItsFiles
<1>1. IndInv => ServesItsFiles
      BY DEF IndInv, MemoryInv, ServesItsFiles
<1> QED BY Inductive, <1>1, PTL

\* load_or_generate_quic_cert repairs every interrupted start but the one that
\* left a key file cut short.
THEOREM Heals == Spec => []InterruptedStartHeals
<1>1. IndInv => InterruptedStartHeals
      BY DEF IndInv, FilesInv, KeyInPhase, InterruptedStartHeals
<1> QED BY Inductive, <1>1, PTL

\* A certificate that was copied from a running server stays that of its directory
\* and of every server started with it, whatever other directories are used.
THEOREM CopiesValid == Spec => []CopyStaysValid
<1>1. IndInv => CopyStaysValid
      BY DEF IndInv, CopyInv, MemoryInv, Settled, CopyStaysValid
<1> QED BY Inductive, <1>1, PTL

\* A client that has connected once is not turned away by TLS later, by a server
\* that was started with the same configuration directory.
THEOREM Reconnects == Spec => []ReconnectVerifies
<1>1. IndInv => ReconnectVerifies
  <2> SUFFICES ASSUME IndInv, cEnd = "tls", <<roots, expects, refusedBy>> \in worked,
                      refusedBy \notin removed
               PROVE  FALSE
      BY DEF ReconnectVerifies
  <2>1. Holds(refusedBy, roots, expects)
        BY DEF IndInv, SeenInv
  <2>2. ~Holds(refusedBy, roots, expects)
        BY DEF IndInv, SeenInv
  <2> QED BY <2>1, <2>2
<1> QED BY Inductive, <1>1, PTL

--------------------------------------------------------------------------------
(* Types. *)

\* Every rule that from_str yields is made of two u16, or of one.
LEMMA RuleType == ASSUME NEW text PROVE FromStr(text) \subseteq PortSpec
  BY DEF FromStr, ParseU16, PortSpec, Single, PortRange

\* The inductive invariant has the types of the files and of most of the rest.
ServerRestType ==
    /\ phase \in Down \cup {"start", "cert", "certOpen", "key", "keyOpen", "rustls", "bind",
                            "serving"}
    /\ \A spec \in rules : spec \in PortSpec
    /\ stops \in 0 .. MaxStops
    /\ removed \subseteq Dirs

ClientRestType ==
    /\ shared \in BOOLEAN
    /\ copy \in Contents
    /\ cpc \in {"off", "roots", "connect", "connected"}
    /\ cEnd \in {"none", "main", "roots", "connect", "tls", "ok"}
    /\ wanted \subseteq WantedNames
    /\ roots \in Contents \ {Partial}
    /\ expects \in Hostnames
    /\ worked \subseteq (1 .. MaxPairs) \X Hostnames \X Dirs

LEMMA TypeParts == ASSUME IndInv PROVE TypeOK <=> ServerRestType /\ ClientRestType
<1>1. Known \subseteq Contents
      BY BoundsAssumption DEF IndInv, Known, Contents
<1>2. certFile \in [Dirs -> Contents] /\ keyFile \in [Dirs -> Contents]
      /\ cert \in Contents /\ key \in Contents
      BY <1>1 DEF IndInv, KnownInv
<1>3. copiedFrom \in Dirs /\ refusedBy \in Dirs /\ pairs \in 0 .. MaxPairs
      /\ args \in ServerArgs /\ san \in [1 .. MaxPairs -> Hostnames \cup {NoName}]
      BY DEF IndInv, CopyInv, SeenInv
<1> QED BY <1>2, <1>3 DEF TypeOK, ServerTypeOK, ServerRestType, ClientRestType

LEMMA ServerTypeStep == ASSUME ServerRestType, ServerNext PROVE ServerRestType'
<1> USE DEF ServerRestType, Down
<1>1. ASSUME NEW a \in ServerArgs, Launch(a) PROVE ServerRestType'
  <2>1. \A spec \in AllowedClientPorts(a) : spec \in PortSpec
    <3>1. ASSUME NEW q \in a.localPort PROVE Single(q) \in PortSpec
          BY ArgsAssumption DEF Args, PortSpec
    <3>2. ASSUME NEW i \in DOMAIN a.allowedClientPorts
          PROVE  FromStr(a.allowedClientPorts[i]) \subseteq PortSpec
          BY RuleType
    <3> QED BY <3>1, <3>2 DEF AllowedClientPorts
  <2> QED BY <1>1, <2>1 DEF Launch
<1>2. CASE Load \/ Generate
      BY <1>2 DEF Load, Generate
<1>3. CASE OpenCert \/ WriteCert \/ OpenKey \/ WriteKey
      BY <1>3 DEF OpenCert, WriteCert, OpenKey, WriteKey, WritesTo
<1>4. CASE Configure \/ BindEndpoint \/ FileError
      BY <1>4 DEF Configure, BindEndpoint, FileError, Exits
<1>5. CASE Stop
      BY <1>5, BoundsAssumption DEF Stop, Exits
<1>6. ASSUME NEW d \in Dirs, Remove(d) PROVE ServerRestType'
      BY <1>6 DEF Remove
<1> QED BY <1>1, <1>2, <1>3, <1>4, <1>5, <1>6 DEF ServerNext

LEMMA ClientTypeStep ==
    ASSUME TypeOK, IndInv, NEW w \in {{}} \cup {{name} : name \in WantedNames},
           \/ ClientStart(w) \/ LoadRoots \/ ConnectOk \/ ConnectRefused \/ ConnectFails
           \/ HandlerEnds \/ Copy
    PROVE  ServerRestType' /\ ClientRestType'
<1>0. ServerRestType /\ ClientRestType /\ Here \in Dirs /\ \A d \in Dirs : certFile[d] \in Contents
      BY TypeParts, HereType DEF TypeOK, ServerTypeOK
<1>1. ServerRestType'
      BY <1>0 DEF ServerRestType, ClientStart, LoadRoots, ConnectOk, ConnectRefused,
                  ConnectFails, HandlerEnds, Copy
<1> USE <1>0, <1>1, BoundsAssumption, NamesAssumption DEF ClientRestType, Contents
<1>2. CASE ClientStart(w)
      BY <1>2 DEF ClientStart, ServerName, HostnameMatch
<1>3. CASE LoadRoots
      BY <1>3, DirsAssumption DEF LoadRoots, ClientFile
<1>4. CASE ConnectOk
  <2>1. roots \in 1 .. MaxPairs
        BY <1>4 DEF ConnectOk, Verifies, IndInv, MemoryInv
  <2> QED BY <1>4, <2>1 DEF ConnectOk
<1>5. CASE ConnectRefused \/ ConnectFails \/ HandlerEnds
      BY <1>5 DEF ConnectRefused, ConnectFails, HandlerEnds
<1>6. CASE Copy
      BY <1>6 DEF Copy
<1> QED BY <1>1, <1>2, <1>3, <1>4, <1>5, <1>6

LEMMA TypeStep == ASSUME TypeOK, IndInv, [Next]_vars PROVE TypeOK'
<1>0. IndInv' /\ ServerRestType /\ ClientRestType
      BY StepInd, TypeParts
<1>p. (IndInv => (TypeOK <=> ServerRestType /\ ClientRestType))'
      BY TypeParts, PTL
<1>1. CASE UNCHANGED vars
      BY <1>1 DEF vars, TypeOK, ServerTypeOK
<1>2. CASE Server
  <2>1. ServerRestType'
        BY <1>0, <1>2, ServerTypeStep DEF Server
  <2>2. ClientRestType'
        BY <1>0, <1>2 DEF Server, ClientRestType
  <2> QED BY <1>0, <1>p, <2>1, <2>2
<1>3. ASSUME NEW w \in {{}} \cup {{name} : name \in WantedNames}, ClientStart(w)
      PROVE  TypeOK'
      BY <1>0, <1>3, <1>p, ClientTypeStep
<1>4. CASE LoadRoots \/ ConnectOk \/ ConnectRefused \/ ConnectFails \/ HandlerEnds \/ Copy
      BY <1>0, <1>4, <1>p, ClientTypeStep
<1> QED BY <1>1, <1>2, <1>3, <1>4 DEF Next

\* Every variable keeps its type: in particular a client never trusts a
\* certificate cut short, and never has connected without a certificate.
THEOREM TypeCorrect == Spec => []TypeOK
<1>1. Init => TypeOK
  <2>1. ServerInit => ServerTypeOK
    <3> SUFFICES ASSUME ServerInit PROVE ServerTypeOK
        OBVIOUS
    <3>1. san \in [1 .. MaxPairs -> Hostnames \cup {NoName}]
          BY DEF ServerInit
    <3>2. \A spec \in rules : spec \in PortSpec
          BY DEF ServerInit
    <3>3. /\ removed \subseteq Dirs /\ cert \in Contents /\ key \in Contents
          /\ certFile \in [Dirs -> Contents] /\ keyFile \in [Dirs -> Contents]
          BY BoundsAssumption DEF ServerInit, Contents
    <3> QED BY <3>1, <3>2, <3>3, BoundsAssumption DEF ServerInit, ServerTypeOK, Down
  <2> QED BY <2>1, BoundsAssumption, DirsAssumption, NamesAssumption DEF Init, TypeOK, Contents
<1> QED BY <1>1, Inductive, TypeStep, PTL DEF Spec

--------------------------------------------------------------------------------
(* The port rules. *)

\* A text that from_str accepts has one or two fields, which are ports, and the
\* rule made of it allows what the text means.
LEMMA RuleMeans ==
    ASSUME NEW text \in Seq(Int) \ {<<>>}, FromStr(text) # {}
    PROVE  /\ \A j \in DOMAIN text : text[j] \in Port
           /\ \A p \in Port :
                 (\E spec \in FromStr(text) : SpecAllows(spec, p)) <=> Means(text, p)
<1>0. Len(text) \in Nat \ {0} /\ DOMAIN text = 1 .. Len(text)
      /\ \A j \in 1 .. Len(text) : text[j] \in Int
      OBVIOUS
<1>1. CASE Len(text) = 1
  <2>1. FromStr(text) = {Single(p) : p \in {text[1]} \cap Port}
        BY <1>1 DEF FromStr, ParseU16
  <2>2. text[1] \in Port
        BY <2>1
  <2>3. FromStr(text) = {Single(text[1])}
        BY <2>1, <2>2
  <2> QED BY <1>0, <1>1, <2>2, <2>3 DEF Single, SpecAllows, Means
<1>2. CASE Len(text) # 1
  <2> DEFINE end == IF Len(text) = 2 THEN ParseU16(text[2]) ELSE {}
             ordered == {r \in ParseU16(text[1]) \X end : r[1] <= r[2]}
  <2>1. FromStr(text) = {PortRange(q[1], q[2]) : q \in ordered}
        BY <1>2 DEF FromStr
  <2>2. PICK q \in ordered : TRUE
        BY <2>1
  <2>3. q \in ParseU16(text[1]) \X end /\ q[1] <= q[2]
        OBVIOUS
  <2>4. Len(text) = 2
        BY <2>3
  <2>5. q[1] = text[1] /\ q[2] = text[2] /\ text[1] \in Port /\ text[2] \in Port
        BY <2>3, <2>4 DEF ParseU16
  <2>6. \A r \in ordered : r[1] = text[1] /\ r[2] = text[2]
        BY <2>4 DEF ParseU16
  <2>7. FromStr(text) = {PortRange(text[1], text[2])}
        BY <2>1, <2>2, <2>5, <2>6
  <2> QED BY <1>0, <2>4, <2>5, <2>7 DEF PortRange, SpecAllows, Means
<1> QED BY <1>1, <1>2

\* main lets a server run only with rules made of its whole command line.
RulesInv ==
    /\ args \in ServerArgs
    /\ phase \notin Down =>
          AllParse(args) /\ rules = AllowedClientPorts(args) /\ rules # {}

LEMMA RulesInductive == Spec => []RulesInv
<1>1. Init => RulesInv
      BY DEF Init, ServerInit, RulesInv, Down
<1>2. ASSUME RulesInv, [Next]_vars PROVE RulesInv'
  <2> USE DEF RulesInv
  <2>1. CASE UNCHANGED <<phase, args, rules>>
        BY <1>2, <2>1
  <2>2. ASSUME NEW a \in ServerArgs, Launch(a) PROVE RulesInv'
    <3>1. args' = a
          BY <2>2 DEF Launch
    <3>2. CASE AllParse(a) /\ AllowedClientPorts(a) # {}
          BY <2>2, <3>1, <3>2 DEF Launch
    <3>3. CASE ~(AllParse(a) /\ AllowedClientPorts(a) # {})
          BY <2>2, <3>1, <3>3 DEF Launch, Down
    <3> QED BY <3>2, <3>3
  <2>3. CASE \/ Load \/ Generate \/ OpenCert \/ WriteCert \/ OpenKey \/ WriteKey
             \/ FileError \/ Configure \/ BindEndpoint \/ Stop \/ \E d \in Dirs : Remove(d)
    <3>1. UNCHANGED <<args, rules>> /\ (phase' \notin Down => phase \notin Down)
          BY <2>3 DEF Load, Generate, OpenCert, WriteCert, OpenKey, WriteKey, WritesTo,
                      FileError, Configure, BindEndpoint, Stop, Exits, Remove, Down
    <3> QED BY <1>2, <3>1
  <2>4. CASE UNCHANGED vars
        BY <2>1, <2>4 DEF vars
  <2>5. ASSUME NEW w, \/ ClientStart(w) \/ LoadRoots \/ ConnectOk \/ ConnectRefused
                      \/ ConnectFails \/ HandlerEnds \/ Copy
        PROVE  RulesInv'
        BY <2>1, <2>5 DEF ClientStart, LoadRoots, ConnectOk, ConnectRefused, ConnectFails,
                          HandlerEnds, Copy
  <2> QED BY <1>2, <2>2, <2>3, <2>4, <2>5 DEF Next, Server, ServerNext
<1> QED BY <1>1, <1>2, PTL DEF Spec

\* What AllowedPorts::allows grants to a command line that main accepts: the port
\* of --local-port and what the texts mean.
LEMMA AllowedMeans ==
    ASSUME NEW a \in ServerArgs, AllParse(a), NEW p \in Port
    PROVE  Allows(AllowedClientPorts(a), p) <=> NamedBy(a, p)
<1> DEFINE texts == a.allowedClientPorts
<1>1. \A i \in DOMAIN texts : texts[i] \in Seq(Int) \ {<<>>}
      BY ArgsAssumption DEF Args
<1>2. \A i \in DOMAIN texts :
         (\E spec \in FromStr(texts[i]) : SpecAllows(spec, p)) <=> Means(texts[i], p)
      BY <1>1, RuleMeans DEF AllParse
<1>3. \A q \in a.localPort : SpecAllows(Single(q), p) <=> p = q
      BY DEF SpecAllows, Single
<1>4. Allows(AllowedClientPorts(a), p) <=>
         \/ \E i \in DOMAIN texts : \E spec \in FromStr(texts[i]) : SpecAllows(spec, p)
         \/ \E q \in a.localPort : SpecAllows(Single(q), p)
  <2>1. \A spec : spec \in AllowedClientPorts(a) <=>
           \/ \E i \in DOMAIN texts : spec \in FromStr(texts[i])
           \/ \E q \in a.localPort : spec = Single(q)
        BY DEF AllowedClientPorts
  <2> QED BY <2>1 DEF Allows
<1> QED BY <1>2, <1>3, <1>4 DEF NamedBy

\* Whatever the command line, a running server grants every port that it names
\* and no other, over all of u16.
THEOREM RulesExact ==
    Spec => [](phase \notin Down => \A p \in Port : Allows(rules, p) <=> NamedBy(args, p))
<1>1. RulesInv => (phase \notin Down => \A p \in Port : Allows(rules, p) <=> NamedBy(args, p))
      BY AllowedMeans DEF RulesInv
<1> QED BY RulesInductive, <1>1, PTL

\* The ports a running server grants, where the runs look at them, are those its
\* command line names, and that command line has nothing but ports in it.
THEOREM RulesKept == Spec => []RulesAsWritten
<1>1. RulesInv => RulesAsWritten
  <2> SUFFICES ASSUME RulesInv, phase \notin Down PROVE RulesAsWritten
      BY DEF RulesAsWritten
  <2>1. args \in ServerArgs /\ AllParse(args) /\ rules = AllowedClientPorts(args)
        /\ rules # {}
        BY DEF RulesInv
  <2>2. \A i \in DOMAIN args.allowedClientPorts :
           \A j \in DOMAIN args.allowedClientPorts[i] :
              args.allowedClientPorts[i][j] \in Port
    <3> TAKE i \in DOMAIN args.allowedClientPorts
    <3>1. args.allowedClientPorts[i] \in Seq(Int) \ {<<>>}
          BY <2>1, ArgsAssumption DEF Args
    <3> QED BY <2>1, <3>1, RuleMeans DEF AllParse
  <2>3. \A p \in Port : Allows(rules, p) <=> NamedBy(args, p)
        BY <2>1, AllowedMeans
  <2>4. Judged(args) \subseteq Port
        BY DEF Judged
  <2> QED BY <2>1, <2>2, <2>3, <2>4 DEF RulesAsWritten
<1> QED BY RulesInductive, <1>1, PTL

================================================================================
