---------------------------- MODULE BarcoProofs -----------------------------
(***************************************************************************)
(* Proofs about one run of barco, for every set of user ids, every set of  *)
(* failing calls, every bound and every environment (Events): the launcher *)
(* and the container may be killed anywhere.                               *)
(***************************************************************************)
EXTENDS BarcoLifecycle, TLAPS

-----------------------------------------------------------------------------
(* The labels of main() before the clone, and those before cgroups_init()  *)
(* writes its first file. *)
BeforeCloexec == {"parse", "config", "socketpair", "cloexec"}
FromCloexec ==
  {"stack", "scrub", "veth", "peer_addr", "peer_up", "ip_forward",
   "masquerade", "forward_src", "forward_established", "clone"}
BeforeClone == BeforeCloexec \cup FromCloexec
BeforeWrite == BeforeClone \cup {"settle", "open_ns", "move", "cg_mkdir"}

(* cgroups_init() starts with no file written and writes each only once:   *)
(* the loop counter stays inside the list.                                 *)
WriteInv ==
  /\ mpc \in BeforeWrite => cgset = 0
  /\ mpc = "cg_write" => cgset < CgroupFiles

TypeInv == TypeOK /\ WriteInv

(* The life of the container's process, seen from main(): not there before *)
(* clone(), a child that can be waited for until main() has waited, and    *)
(* gone for good in cleanup.                                               *)
WithChild ==
  {"settle", "open_ns", "move", "cg_mkdir", "cg_write", "map_read",
   "setgroups", "uid_map", "gid_map", "map_ok", "map_fail", "stop", "wait"}
InCleanup ==
  {"undo_nat", "undo_veth", "close0", "close1", "cg_free", "leave"}

LifeInv ==
  /\ mpc \in BeforeClone => init = "unborn"
  /\ launcher = "up" =>
       /\ mpc \in WithChild => init \in {"alive", "zombie"}
       /\ mpc = "reap" => init = "zombie"
       /\ mpc \in InCleanup => init \in {"unborn", "reaped"}
  /\ init = "unborn" => cpc = "hostname"

(* The handshake. cloexec is set before the child inherits end 0; the      *)
(* launcher sends 0 only once it has written all three files, and the      *)
(* child passes its read only on a 0.                                      *)
AfterRead == {"setid", "caps", "seccomp", "close", "exec", "running"}

HandshakeInv ==
  /\ mpc \in FromCloexec => cloexec
  /\ init # "unborn" => cloexec
  /\ mpc = "uid_map" => "setgroups" \in maps
  /\ mpc = "gid_map" => {"setgroups", "uid_map"} \subseteq maps
  /\ mpc = "map_ok" => maps = MapFiles
  /\ toInit = "ok" => maps = MapFiles
  /\ cpc \in AfterRead => maps = MapFiles

(* What the child has done when it stands at a call of container_start().  *)
ProgressInv ==
  /\ cpc \notin {"hostname", "dead"} => "hostname" \in done
  /\ cpc \notin {"hostname", "mount", "dead"} => "mount" \in done
  /\ cpc \in AfterRead \cup {"hs_write", "hs_read"} => "unshare" \in done
  /\ cpc \in AfterRead => "hs_read" \in done
  /\ cpc \in AfterRead \ {"setid"} => "setid" \in done
  /\ cpc = "exec" => initFd \subseteq {0}
  /\ cpc = "running" => initFd = {}

IInv == TypeInv /\ LifeInv /\ HandshakeInv /\ ProgressInv
-----------------------------------------------------------------------------
(* The steps of main() that change the state of processes, of descriptors  *)
(* and sockets, of the host.                                               *)
ProcStep ==
  Clone \/ SendSigkill \/ Reap \/ WaitContainer \/ Return
SockStep ==
  Socketpair \/ SetCloexec \/ Clone \/ OpenNetns \/ MoveVeth \/ ReadUnshared \/
  AnswerOk \/ AnswerFail \/ SendSigkill \/ CloseEnd0 \/ CloseEnd1
HostStep ==
  ScrubLinks \/ CreateVeth \/ AddPeerAddr \/ PeerUp \/ IpForward \/ Masquerade
  \/ ForwardSrc \/ ForwardEstablished \/ MoveVeth \/ CgroupMkdir \/
  CgroupWrite \/ DenySetgroups \/ WriteUidMap \/ WriteGidMap \/ UndoNat \/
  UndoVeth \/ CgroupsFree

(* Every other step leaves them alone, and none touches the configuration. *)
LEMMA MainFrame ==
  ASSUME MainNext
  PROVE  /\ ProcStep \/ UNCHANGED procVars
         /\ SockStep \/ UNCHANGED sockVars
         /\ HostStep \/ UNCHANGED hostVars
         /\ config' = config
<1> USE DEF ProcStep, SockStep, HostStep, OnlyMain, OnlySock, OnlyHost,
            OnlyNet, OnlyAnswer, procVars, sockVars, hostVars
<1>1. CASE ParseArgs BY <1>1 DEF ParseArgs
<1>2. CASE FillConfig BY <1>2 DEF FillConfig
<1>3. CASE Socketpair BY <1>3 DEF Socketpair, MustMain
<1>4. CASE SetCloexec BY <1>4 DEF SetCloexec
<1>5. CASE AllocStack BY <1>5 DEF AllocStack, MustMain
<1>6. CASE ScrubLinks BY <1>6 DEF ScrubLinks
<1>7. CASE CreateVeth BY <1>7 DEF CreateVeth
<1>8. CASE AddPeerAddr BY <1>8 DEF AddPeerAddr, Setting
<1>9. CASE PeerUp BY <1>9 DEF PeerUp, Setting
<1>10. CASE IpForward BY <1>10 DEF IpForward, Setting
<1>11. CASE Masquerade BY <1>11 DEF Masquerade
<1>12. CASE ForwardSrc BY <1>12 DEF ForwardSrc, Setting
<1>13. CASE ForwardEstablished BY <1>13 DEF ForwardEstablished
<1>14. CASE Clone BY <1>14 DEF Clone
<1>15. CASE Settle BY <1>15 DEF Settle
<1>16. CASE OpenNetns BY <1>16 DEF OpenNetns
<1>17. CASE MoveVeth BY <1>17 DEF MoveVeth
<1>18. CASE CgroupMkdir BY <1>18 DEF CgroupMkdir
<1>19. CASE CgroupWrite BY <1>19 DEF CgroupWrite
<1>20. CASE ReadUnshared BY <1>20 DEF ReadUnshared
<1>21. CASE DenySetgroups BY <1>21 DEF DenySetgroups, WriteMap
<1>22. CASE WriteUidMap BY <1>22 DEF WriteUidMap, WriteMap
<1>23. CASE WriteGidMap BY <1>23 DEF WriteGidMap, WriteMap
<1>24. CASE AnswerOk BY <1>24 DEF AnswerOk
<1>25. CASE AnswerFail BY <1>25 DEF AnswerFail
<1>26. CASE SendSigkill BY <1>26 DEF SendSigkill
<1>27. CASE Reap BY <1>27 DEF Reap
<1>28. CASE WaitContainer BY <1>28 DEF WaitContainer
<1>29. CASE UndoNat BY <1>29 DEF UndoNat
<1>30. CASE UndoVeth BY <1>30 DEF UndoVeth
<1>31. CASE CloseEnd0 BY <1>31 DEF CloseEnd0
<1>32. CASE CloseEnd1 BY <1>32 DEF CloseEnd1
<1>33. CASE CgroupsFree BY <1>33 DEF CgroupsFree
<1>34. CASE Return BY <1>34 DEF Return
<1> QED BY <1>1, <1>2, <1>3, <1>4, <1>5, <1>6, <1>7, <1>8, <1>9, <1>10, <1>11,
      <1>12, <1>13, <1>14, <1>15, <1>16, <1>17, <1>18, <1>19, <1>20, <1>21,
      <1>22, <1>23, <1>24, <1>25, <1>26, <1>27, <1>28, <1>29, <1>30, <1>31,
      <1>32, <1>33, <1>34 DEF MainNext

(* The record of failures only grows by names of Faults. *)
LEMMA MainFaults ==
  ASSUME failed \subseteq Faults, MainNext
  PROVE  failed' \subseteq Faults
<1> USE DEF Works, Fault, FailsIf
<1>1. CASE ParseArgs BY <1>1 DEF ParseArgs
<1>2. CASE FillConfig BY <1>2 DEF FillConfig
<1>3. CASE Socketpair BY <1>3 DEF Socketpair, MustMain
<1>4. CASE SetCloexec BY <1>4 DEF SetCloexec
<1>5. CASE AllocStack BY <1>5 DEF AllocStack, MustMain
<1>6. CASE ScrubLinks BY <1>6 DEF ScrubLinks
<1>7. CASE CreateVeth BY <1>7 DEF CreateVeth
<1>8. CASE AddPeerAddr BY <1>8 DEF AddPeerAddr, Setting
<1>9. CASE PeerUp BY <1>9 DEF PeerUp, Setting
<1>10. CASE IpForward BY <1>10 DEF IpForward, Setting
<1>11. CASE Masquerade BY <1>11 DEF Masquerade
<1>12. CASE ForwardSrc BY <1>12 DEF ForwardSrc, Setting
<1>13. CASE ForwardEstablished BY <1>13 DEF ForwardEstablished
<1>14. CASE Clone BY <1>14 DEF Clone
<1>15. CASE Settle BY <1>15 DEF Settle
<1>16. CASE OpenNetns BY <1>16 DEF OpenNetns
<1>17. CASE MoveVeth BY <1>17 DEF MoveVeth
<1>18. CASE CgroupMkdir BY <1>18 DEF CgroupMkdir
<1>19. CASE CgroupWrite BY <1>19 DEF CgroupWrite
<1>20. CASE ReadUnshared BY <1>20 DEF ReadUnshared
<1>21. CASE DenySetgroups BY <1>21 DEF DenySetgroups, WriteMap
<1>22. CASE WriteUidMap BY <1>22 DEF WriteUidMap, WriteMap
<1>23. CASE WriteGidMap BY <1>23 DEF WriteGidMap, WriteMap
<1>24. CASE AnswerOk BY <1>24 DEF AnswerOk
<1>25. CASE AnswerFail BY <1>25 DEF AnswerFail
<1>26. CASE SendSigkill BY <1>26 DEF SendSigkill
<1>27. CASE Reap BY <1>27 DEF Reap
<1>28. CASE WaitContainer BY <1>28 DEF WaitContainer
<1>29. CASE UndoNat BY <1>29 DEF UndoNat
<1>30. CASE UndoVeth BY <1>30 DEF UndoVeth
<1>31. CASE CloseEnd0 BY <1>31 DEF CloseEnd0
<1>32. CASE CloseEnd1 BY <1>32 DEF CloseEnd1
<1>33. CASE CgroupsFree BY <1>33 DEF CgroupsFree
<1>34. CASE Return BY <1>34 DEF Return
<1> QED BY <1>1, <1>2, <1>3, <1>4, <1>5, <1>6, <1>7, <1>8, <1>9, <1>10, <1>11,
      <1>12, <1>13, <1>14, <1>15, <1>16, <1>17, <1>18, <1>19, <1>20, <1>21,
      <1>22, <1>23, <1>24, <1>25, <1>26, <1>27, <1>28, <1>29, <1>30, <1>31,
      <1>32, <1>33, <1>34 DEF MainNext

LEMMA Bytes == {0, 1, 255, SIGKILLed} \subseteq Byte
  BY DEF Byte, SIGKILLed

LEMMA MainProcTypes ==
  ASSUME ProcTypeOK, MainNext
  PROVE  ProcTypeOK'
<1> USE DEF ProcTypeOK
<1>1. CASE Clone BY <1>1 DEF Clone
<1>2. CASE SendSigkill BY <1>2, Bytes DEF SendSigkill, InitExits
<1>3. CASE Reap BY <1>3 DEF Reap
<1>4. CASE WaitContainer BY <1>4 DEF WaitContainer
<1>5. CASE Return BY <1>5 DEF Return
<1>6. CASE UNCHANGED procVars BY <1>6 DEF procVars
<1> QED BY MainFrame, <1>1, <1>2, <1>3, <1>4, <1>5, <1>6 DEF ProcStep

LEMMA MainSockTypes ==
  ASSUME SockTypeOK, MainNext
  PROVE  SockTypeOK'
<1> USE DEF SockTypeOK, Packets, Ends, OnlySock, OnlyAnswer
<1>1. CASE Socketpair BY <1>1 DEF Socketpair, MustMain
<1>2. CASE SetCloexec BY <1>2 DEF SetCloexec, MarkCloexec
<1>3. CASE Clone BY <1>3 DEF Clone, HandOver
<1>4. CASE OpenNetns BY <1>4 DEF OpenNetns
<1>5. CASE MoveVeth BY <1>5 DEF MoveVeth, CloseNsFd
<1>6. CASE ReadUnshared BY <1>6 DEF ReadUnshared
<1>7. CASE AnswerOk BY <1>7 DEF AnswerOk, Send, sockVars
<1>8. CASE AnswerFail BY <1>8 DEF AnswerFail, Send, Refusal
<1>9. CASE SendSigkill BY <1>9 DEF SendSigkill, InitExits
<1>10. CASE CloseEnd0 BY <1>10 DEF CloseEnd0
<1>11. CASE CloseEnd1 BY <1>11 DEF CloseEnd1
<1>12. CASE UNCHANGED sockVars BY <1>12 DEF sockVars
<1> QED BY MainFrame, <1>1, <1>2, <1>3, <1>4, <1>5, <1>6, <1>7, <1>8, <1>9,
      <1>10, <1>11, <1>12 DEF SockStep

(* The loop over the control files is the only place that needs more than  *)
(* the types: the counter stays below the number of files.                 *)
LEMMA MainHostTypes ==
  ASSUME HostTypeOK, WriteInv, MainNext
  PROVE  HostTypeOK'
<1> USE DEF HostTypeOK, MapFiles, NatRules, PeerSettings, VethStates,
            CgroupStates, OnlyHost, OnlyNet
<1>1. CASE ScrubLinks BY <1>1 DEF ScrubLinks
<1>2. CASE CreateVeth BY <1>2 DEF CreateVeth
<1>3. CASE AddPeerAddr BY <1>3 DEF AddPeerAddr, Setting
<1>4. CASE PeerUp BY <1>4 DEF PeerUp, Setting
<1>5. CASE IpForward BY <1>5 DEF IpForward, Setting
<1>6. CASE Masquerade BY <1>6 DEF Masquerade
<1>7. CASE ForwardSrc BY <1>7 DEF ForwardSrc, Setting
<1>8. CASE ForwardEstablished BY <1>8 DEF ForwardEstablished
<1>9. CASE MoveVeth BY <1>9 DEF MoveVeth
<1>10. CASE CgroupMkdir BY <1>10 DEF CgroupMkdir
<1>11. CASE CgroupWrite BY <1>11 DEF CgroupWrite, WriteInv, MainAt, CgroupFiles
<1>12. CASE DenySetgroups BY <1>12 DEF DenySetgroups, WriteMap
<1>13. CASE WriteUidMap BY <1>13 DEF WriteUidMap, WriteMap
<1>14. CASE WriteGidMap BY <1>14 DEF WriteGidMap, WriteMap
<1>15. CASE UndoNat BY <1>15 DEF UndoNat
<1>16. CASE UndoVeth BY <1>16 DEF UndoVeth
<1>17. CASE CgroupsFree BY <1>17 DEF CgroupsFree
<1>18. CASE UNCHANGED hostVars BY <1>18 DEF hostVars
<1> QED BY MainFrame, <1>1, <1>2, <1>3, <1>4, <1>5, <1>6, <1>7, <1>8, <1>9,
      <1>10, <1>11, <1>12, <1>13, <1>14, <1>15, <1>16, <1>17, <1>18 DEF
      HostStep

LEMMA MainMainTypes ==
  ASSUME MainTypeOK, ProcTypeOK, MainNext
  PROVE  MainTypeOK'
<1>0. status \in Byte BY DEF ProcTypeOK
<1> USE Bytes DEF MainTypeOK, MainLabels, Goto, Bail, StopAndBail, mainVars
<1>1. CASE ParseArgs BY <1>1 DEF ParseArgs
<1>2. CASE FillConfig BY <1>2 DEF FillConfig
<1>3. CASE Socketpair BY <1>3 DEF Socketpair, MustMain
<1>4. CASE SetCloexec BY <1>4 DEF SetCloexec
<1>5. CASE AllocStack BY <1>5 DEF AllocStack, MustMain
<1>6. CASE ScrubLinks BY <1>6 DEF ScrubLinks
<1>7. CASE CreateVeth BY <1>7 DEF CreateVeth
<1>8. CASE AddPeerAddr BY <1>8 DEF AddPeerAddr, Setting
<1>9. CASE PeerUp BY <1>9 DEF PeerUp, Setting
<1>10. CASE IpForward BY <1>10 DEF IpForward, Setting
<1>11. CASE Masquerade BY <1>11 DEF Masquerade
<1>12. CASE ForwardSrc BY <1>12 DEF ForwardSrc, Setting
<1>13. CASE ForwardEstablished BY <1>13 DEF ForwardEstablished
<1>14. CASE Clone BY <1>14 DEF Clone
<1>15. CASE Settle BY <1>15 DEF Settle
<1>16. CASE OpenNetns BY <1>16 DEF OpenNetns
<1>17. CASE MoveVeth BY <1>17 DEF MoveVeth
<1>18. CASE CgroupMkdir BY <1>18 DEF CgroupMkdir
<1>19. CASE CgroupWrite BY <1>19 DEF CgroupWrite
<1>20. CASE ReadUnshared BY <1>20 DEF ReadUnshared
<1>21. CASE DenySetgroups BY <1>21 DEF DenySetgroups, WriteMap
<1>22. CASE WriteUidMap BY <1>22 DEF WriteUidMap, WriteMap
<1>23. CASE WriteGidMap BY <1>23 DEF WriteGidMap, WriteMap
<1>24. CASE AnswerOk BY <1>24 DEF AnswerOk
<1>25. CASE AnswerFail BY <1>25 DEF AnswerFail
<1>26. CASE SendSigkill BY <1>26 DEF SendSigkill, AfterKill
<1>27. CASE Reap BY <1>27 DEF Reap
<1>28. CASE WaitContainer BY <1>28, <1>0 DEF WaitContainer, ExitStatus
<1>29. CASE UndoNat BY <1>29 DEF UndoNat
<1>30. CASE UndoVeth BY <1>30 DEF UndoVeth
<1>31. CASE CloseEnd0 BY <1>31 DEF CloseEnd0
<1>32. CASE CloseEnd1 BY <1>32 DEF CloseEnd1
<1>33. CASE CgroupsFree BY <1>33 DEF CgroupsFree
<1>34. CASE Return BY <1>34 DEF Return
<1> QED BY <1>1, <1>2, <1>3, <1>4, <1>5, <1>6, <1>7, <1>8, <1>9, <1>10, <1>11,
      <1>12, <1>13, <1>14, <1>15, <1>16, <1>17, <1>18, <1>19, <1>20, <1>21,
      <1>22, <1>23, <1>24, <1>25, <1>26, <1>27, <1>28, <1>29, <1>30, <1>31,
      <1>32, <1>33, <1>34 DEF MainNext

LEMMA MainWrite ==
  ASSUME WriteInv, HostTypeOK, MainNext
  PROVE  WriteInv'
<1>0. cgset \in 0..4 BY DEF HostTypeOK
<1> USE DEF WriteInv, BeforeWrite, BeforeClone, BeforeCloexec, FromCloexec,
            MainAt, Goto, Bail, StopAndBail, OnlyMain, OnlySock, OnlyHost,
            OnlyNet, OnlyAnswer, hostVars, mainVars
<1>1. CASE ParseArgs BY <1>1 DEF ParseArgs
<1>2. CASE FillConfig BY <1>2 DEF FillConfig
<1>3. CASE Socketpair BY <1>3 DEF Socketpair, MustMain
<1>4. CASE SetCloexec BY <1>4 DEF SetCloexec
<1>5. CASE AllocStack BY <1>5 DEF AllocStack, MustMain
<1>6. CASE ScrubLinks BY <1>6 DEF ScrubLinks
<1>7. CASE CreateVeth BY <1>7 DEF CreateVeth
<1>8. CASE AddPeerAddr BY <1>8 DEF AddPeerAddr, Setting
<1>9. CASE PeerUp BY <1>9 DEF PeerUp, Setting
<1>10. CASE IpForward BY <1>10 DEF IpForward, Setting
<1>11. CASE Masquerade BY <1>11 DEF Masquerade
<1>12. CASE ForwardSrc BY <1>12 DEF ForwardSrc, Setting
<1>13. CASE ForwardEstablished BY <1>13 DEF ForwardEstablished
<1>14. CASE Clone BY <1>14 DEF Clone
<1>15. CASE Settle BY <1>15 DEF Settle
<1>16. CASE OpenNetns BY <1>16 DEF OpenNetns
<1>17. CASE MoveVeth BY <1>17 DEF MoveVeth
<1>18. CASE CgroupMkdir BY <1>18 DEF CgroupMkdir, CgroupFiles
<1>19. CASE CgroupWrite BY <1>19, <1>0 DEF CgroupWrite, CgroupFiles, Written
<1>20. CASE ReadUnshared BY <1>20 DEF ReadUnshared
<1>21. CASE DenySetgroups BY <1>21 DEF DenySetgroups, WriteMap
<1>22. CASE WriteUidMap BY <1>22 DEF WriteUidMap, WriteMap
<1>23. CASE WriteGidMap BY <1>23 DEF WriteGidMap, WriteMap
<1>24. CASE AnswerOk BY <1>24 DEF AnswerOk
<1>25. CASE AnswerFail BY <1>25 DEF AnswerFail
<1>26. CASE SendSigkill BY <1>26 DEF SendSigkill, AfterKill
<1>27. CASE Reap BY <1>27 DEF Reap
<1>28. CASE WaitContainer BY <1>28 DEF WaitContainer
<1>29. CASE UndoNat BY <1>29 DEF UndoNat
<1>30. CASE UndoVeth BY <1>30 DEF UndoVeth
<1>31. CASE CloseEnd0 BY <1>31 DEF CloseEnd0
<1>32. CASE CloseEnd1 BY <1>32 DEF CloseEnd1
<1>33. CASE CgroupsFree BY <1>33 DEF CgroupsFree
<1>34. CASE Return BY <1>34 DEF Return
<1> QED BY <1>1, <1>2, <1>3, <1>4, <1>5, <1>6, <1>7, <1>8, <1>9, <1>10, <1>11,
      <1>12, <1>13, <1>14, <1>15, <1>16, <1>17, <1>18, <1>19, <1>20, <1>21,
      <1>22, <1>23, <1>24, <1>25, <1>26, <1>27, <1>28, <1>29, <1>30, <1>31,
      <1>32, <1>33, <1>34 DEF MainNext

LEMMA MainLife ==
  ASSUME LifeInv, MainNext, UNCHANGED childVars
  PROVE  LifeInv'
<1> USE DEF LifeInv, BeforeClone, BeforeCloexec, FromCloexec, WithChild,
            InCleanup, MainAt, Goto, Bail, StopAndBail, OnlyMain, OnlySock,
            OnlyHost, OnlyNet, OnlyAnswer, procVars, childVars, mainVars
<1>1. CASE ParseArgs BY <1>1 DEF ParseArgs
<1>2. CASE FillConfig BY <1>2 DEF FillConfig
<1>3. CASE Socketpair BY <1>3 DEF Socketpair, MustMain
<1>4. CASE SetCloexec BY <1>4 DEF SetCloexec
<1>5. CASE AllocStack BY <1>5 DEF AllocStack, MustMain
<1>6. CASE ScrubLinks BY <1>6 DEF ScrubLinks
<1>7. CASE CreateVeth BY <1>7 DEF CreateVeth
<1>8. CASE AddPeerAddr BY <1>8 DEF AddPeerAddr, Setting
<1>9. CASE PeerUp BY <1>9 DEF PeerUp, Setting
<1>10. CASE IpForward BY <1>10 DEF IpForward, Setting
<1>11. CASE Masquerade BY <1>11 DEF Masquerade
<1>12. CASE ForwardSrc BY <1>12 DEF ForwardSrc, Setting
<1>13. CASE ForwardEstablished BY <1>13 DEF ForwardEstablished
<1>14. CASE Clone BY <1>14 DEF Clone
<1>15. CASE Settle BY <1>15 DEF Settle, SignalReaches
<1>16. CASE OpenNetns BY <1>16 DEF OpenNetns
<1>17. CASE MoveVeth BY <1>17 DEF MoveVeth
<1>18. CASE CgroupMkdir BY <1>18 DEF CgroupMkdir
<1>19. CASE CgroupWrite BY <1>19 DEF CgroupWrite
<1>20. CASE ReadUnshared BY <1>20 DEF ReadUnshared
<1>21. CASE DenySetgroups BY <1>21 DEF DenySetgroups, WriteMap
<1>22. CASE WriteUidMap BY <1>22 DEF WriteUidMap, WriteMap
<1>23. CASE WriteGidMap BY <1>23 DEF WriteGidMap, WriteMap
<1>24. CASE AnswerOk BY <1>24 DEF AnswerOk
<1>25. CASE AnswerFail BY <1>25 DEF AnswerFail
<1>26. CASE SendSigkill
  BY <1>26 DEF SendSigkill, InitExits, AfterKill, SignalReaches
<1>27. CASE Reap BY <1>27 DEF Reap
<1>28. CASE WaitContainer BY <1>28 DEF WaitContainer
<1>29. CASE UndoNat BY <1>29 DEF UndoNat
<1>30. CASE UndoVeth BY <1>30 DEF UndoVeth
<1>31. CASE CloseEnd0 BY <1>31 DEF CloseEnd0
<1>32. CASE CloseEnd1 BY <1>32 DEF CloseEnd1
<1>33. CASE CgroupsFree BY <1>33 DEF CgroupsFree
<1>34. CASE Return BY <1>34 DEF Return
<1> QED BY <1>1, <1>2, <1>3, <1>4, <1>5, <1>6, <1>7, <1>8, <1>9, <1>10, <1>11,
      <1>12, <1>13, <1>14, <1>15, <1>16, <1>17, <1>18, <1>19, <1>20, <1>21,
      <1>22, <1>23, <1>24, <1>25, <1>26, <1>27, <1>28, <1>29, <1>30, <1>31,
      <1>32, <1>33, <1>34 DEF MainNext

LEMMA MainHandshake ==
  ASSUME HandshakeInv, HostTypeOK, MainNext, UNCHANGED childVars
  PROVE  HandshakeInv'
<1>0. maps \subseteq {"setgroups", "uid_map", "gid_map"}
  BY DEF HostTypeOK, MapFiles
<1> USE DEF HandshakeInv, FromCloexec, AfterRead, MainAt, Goto, Bail,
            StopAndBail, OnlyMain, OnlySock, OnlyHost, OnlyNet, OnlyAnswer,
            procVars, sockVars, hostVars, childVars, mainVars
<1>1. CASE ParseArgs BY <1>1 DEF ParseArgs
<1>2. CASE FillConfig BY <1>2 DEF FillConfig
<1>3. CASE Socketpair BY <1>3 DEF Socketpair, MustMain
<1>4. CASE SetCloexec BY <1>4 DEF SetCloexec, MarkCloexec
<1>5. CASE AllocStack BY <1>5 DEF AllocStack, MustMain
<1>6. CASE ScrubLinks BY <1>6 DEF ScrubLinks
<1>7. CASE CreateVeth BY <1>7 DEF CreateVeth
<1>8. CASE AddPeerAddr BY <1>8 DEF AddPeerAddr, Setting
<1>9. CASE PeerUp BY <1>9 DEF PeerUp, Setting
<1>10. CASE IpForward BY <1>10 DEF IpForward, Setting
<1>11. CASE Masquerade BY <1>11 DEF Masquerade
<1>12. CASE ForwardSrc BY <1>12 DEF ForwardSrc, Setting
<1>13. CASE ForwardEstablished BY <1>13 DEF ForwardEstablished
<1>14. CASE Clone BY <1>14 DEF Clone
<1>15. CASE Settle BY <1>15 DEF Settle
<1>16. CASE OpenNetns BY <1>16 DEF OpenNetns
<1>17. CASE MoveVeth BY <1>17 DEF MoveVeth
<1>18. CASE CgroupMkdir BY <1>18 DEF CgroupMkdir
<1>19. CASE CgroupWrite BY <1>19 DEF CgroupWrite
<1>20. CASE ReadUnshared BY <1>20 DEF ReadUnshared
<1>21. CASE DenySetgroups BY <1>21, <1>0 DEF DenySetgroups, WriteMap, MapFiles
<1>22. CASE WriteUidMap BY <1>22, <1>0 DEF WriteUidMap, WriteMap, MapFiles
<1>23. CASE WriteGidMap BY <1>23, <1>0 DEF WriteGidMap, WriteMap, MapFiles
<1>24. CASE AnswerOk BY <1>24 DEF AnswerOk, Send
<1>25. CASE AnswerFail BY <1>25 DEF AnswerFail, Send, Refusal
<1>26. CASE SendSigkill BY <1>26 DEF SendSigkill, InitExits, AfterKill
<1>27. CASE Reap BY <1>27 DEF Reap
<1>28. CASE WaitContainer BY <1>28 DEF WaitContainer
<1>29. CASE UndoNat BY <1>29 DEF UndoNat
<1>30. CASE UndoVeth BY <1>30 DEF UndoVeth
<1>31. CASE CloseEnd0 BY <1>31 DEF CloseEnd0
<1>32. CASE CloseEnd1 BY <1>32 DEF CloseEnd1
<1>33. CASE CgroupsFree BY <1>33 DEF CgroupsFree
<1>34. CASE Return BY <1>34 DEF Return
<1> QED BY <1>1, <1>2, <1>3, <1>4, <1>5, <1>6, <1>7, <1>8, <1>9, <1>10, <1>11,
      <1>12, <1>13, <1>14, <1>15, <1>16, <1>17, <1>18, <1>19, <1>20, <1>21,
      <1>22, <1>23, <1>24, <1>25, <1>26, <1>27, <1>28, <1>29, <1>30, <1>31,
      <1>32, <1>33, <1>34 DEF MainNext

(* main() changes nothing that ProgressInv speaks of but initFd: at clone, *)
(* when the child stands at its first call, and when it ends.              *)
LEMMA MainProgress ==
  ASSUME ProgressInv, LifeInv, MainNext, UNCHANGED childVars
  PROVE  ProgressInv'
<1> USE DEF ProgressInv, AfterRead, childVars
<1>1. CASE Clone
  BY <1>1 DEF Clone, LifeInv, BeforeClone, FromCloexec, MainAt
<1>2. CASE SendSigkill BY <1>2 DEF SendSigkill, InitExits
<1>3. CASE initFd' = initFd BY <1>3
<1>4. Clone \/ SendSigkill \/ initFd' = initFd
  <2> USE DEF OnlySock, OnlyAnswer
  <2>1. CASE Socketpair BY <2>1 DEF Socketpair, MustMain
  <2>2. CASE SetCloexec BY <2>2 DEF SetCloexec
  <2>3. CASE OpenNetns BY <2>3 DEF OpenNetns
  <2>4. CASE MoveVeth BY <2>4 DEF MoveVeth
  <2>5. CASE ReadUnshared BY <2>5 DEF ReadUnshared
  <2>6. CASE AnswerOk BY <2>6 DEF AnswerOk
  <2>7. CASE AnswerFail BY <2>7 DEF AnswerFail
  <2>8. CASE CloseEnd0 BY <2>8 DEF CloseEnd0
  <2>9. CASE CloseEnd1 BY <2>9 DEF CloseEnd1
  <2>10. CASE UNCHANGED sockVars BY <2>10 DEF sockVars
  <2> QED BY MainFrame, <2>1, <2>2, <2>3, <2>4, <2>5, <2>6, <2>7, <2>8, <2>9,
        <2>10 DEF SockStep
<1> QED BY <1>1, <1>2, <1>3, <1>4

-----------------------------------------------------------------------------
(* The steps of the container's process: its setup and the end of the      *)
(* user's command.                                                         *)
ChildStep == ContainerSetup \/ UserExit

LEMMA ChildFaults ==
  ASSUME failed \subseteq Faults, ChildStep
  PROVE  failed' \subseteq Faults
<1> USE DEF Works, Fault, FailsIf, Must, Try, Succeed
<1>1. CASE Sethostname BY <1>1 DEF Sethostname
<1>2. CASE MountSet BY <1>2 DEF MountSet
<1>3. CASE LoUp BY <1>3 DEF LoUp
<1>4. CASE Poll BY <1>4 DEF Poll
<1>5. CASE Rename BY <1>5 DEF Rename
<1>6. CASE AddAddr BY <1>6 DEF AddAddr
<1>7. CASE SetUp BY <1>7 DEF SetUp
<1>8. CASE AddRoute BY <1>8 DEF AddRoute
<1>9. CASE SetupDns BY <1>9 DEF SetupDns
<1>10. CASE EnablePing BY <1>10 DEF EnablePing
<1>11. CASE Unshare BY <1>11 DEF Unshare
<1>12. CASE TellUnshared BY <1>12 DEF TellUnshared
<1>13. CASE AwaitMapping BY <1>13 DEF AwaitMapping
<1>14. CASE SwitchUser BY <1>14 DEF SwitchUser
<1>15. CASE SetCaps BY <1>15 DEF SetCaps
<1>16. CASE SetSeccomp BY <1>16 DEF SetSeccomp
<1>17. CASE CloseSocket BY <1>17 DEF CloseSocket
<1>18. CASE Execve BY <1>18 DEF Execve
<1>19. CASE UserExit BY <1>19 DEF UserExit
<1> QED BY <1>1, <1>2, <1>3, <1>4, <1>5, <1>6, <1>7, <1>8, <1>9, <1>10, <1>11,
      <1>12, <1>13, <1>14, <1>15, <1>16, <1>17, <1>18, <1>19 DEF ChildStep,
      ContainerSetup

LEMMA ChildProcTypes ==
  ASSUME ProcTypeOK, ChildStep
  PROVE  ProcTypeOK'
<1> USE Bytes DEF ProcTypeOK, InitExits, Must, Try, Succeed, Continue, Fail,
                  Private, InitKeeps
<1>1. CASE Sethostname BY <1>1 DEF Sethostname
<1>2. CASE MountSet BY <1>2 DEF MountSet
<1>3. CASE LoUp BY <1>3 DEF LoUp
<1>4. CASE Poll BY <1>4 DEF Poll, Tick, Visible
<1>5. CASE Rename BY <1>5 DEF Rename, Visible
<1>6. CASE AddAddr BY <1>6 DEF AddAddr
<1>7. CASE SetUp BY <1>7 DEF SetUp
<1>8. CASE AddRoute BY <1>8 DEF AddRoute
<1>9. CASE SetupDns BY <1>9 DEF SetupDns
<1>10. CASE EnablePing BY <1>10 DEF EnablePing
<1>11. CASE Unshare BY <1>11 DEF Unshare
<1>12. CASE TellUnshared BY <1>12 DEF TellUnshared
<1>13. CASE AwaitMapping BY <1>13 DEF AwaitMapping
<1>14. CASE SwitchUser BY <1>14 DEF SwitchUser
<1>15. CASE SetCaps BY <1>15 DEF SetCaps
<1>16. CASE SetSeccomp BY <1>16 DEF SetSeccomp
<1>17. CASE CloseSocket BY <1>17 DEF CloseSocket
<1>18. CASE Execve BY <1>18 DEF Execve
<1>19. CASE UserExit BY <1>19, ContainerAssumption DEF UserExit
<1> QED BY <1>1, <1>2, <1>3, <1>4, <1>5, <1>6, <1>7, <1>8, <1>9, <1>10, <1>11,
      <1>12, <1>13, <1>14, <1>15, <1>16, <1>17, <1>18, <1>19 DEF ChildStep,
      ContainerSetup

LEMMA ChildSockTypes ==
  ASSUME SockTypeOK, ChildStep
  PROVE  SockTypeOK'
<1> USE DEF SockTypeOK, Packets, Ends, InitExits, Must, Try, Succeed,
            Continue, Fail, Private, InitKeeps
<1>1. CASE Sethostname BY <1>1 DEF Sethostname
<1>2. CASE MountSet BY <1>2 DEF MountSet
<1>3. CASE LoUp BY <1>3 DEF LoUp
<1>4. CASE Poll BY <1>4 DEF Poll, Tick, Visible
<1>5. CASE Rename BY <1>5 DEF Rename, Visible
<1>6. CASE AddAddr BY <1>6 DEF AddAddr
<1>7. CASE SetUp BY <1>7 DEF SetUp
<1>8. CASE AddRoute BY <1>8 DEF AddRoute
<1>9. CASE SetupDns BY <1>9 DEF SetupDns
<1>10. CASE EnablePing BY <1>10 DEF EnablePing
<1>11. CASE Unshare BY <1>11 DEF Unshare
<1>12. CASE TellUnshared BY <1>12 DEF TellUnshared
<1>13. CASE AwaitMapping BY <1>13 DEF AwaitMapping
<1>14. CASE SwitchUser BY <1>14 DEF SwitchUser
<1>15. CASE SetCaps BY <1>15 DEF SetCaps
<1>16. CASE SetSeccomp BY <1>16 DEF SetSeccomp
<1>17. CASE CloseSocket BY <1>17 DEF CloseSocket
<1>18. CASE Execve BY <1>18 DEF Execve
<1>19. CASE UserExit BY <1>19 DEF UserExit
<1> QED BY <1>1, <1>2, <1>3, <1>4, <1>5, <1>6, <1>7, <1>8, <1>9, <1>10, <1>11,
      <1>12, <1>13, <1>14, <1>15, <1>16, <1>17, <1>18, <1>19 DEF ChildStep,
      ContainerSetup

LEMMA ChildHostTypes ==
  ASSUME HostTypeOK, ChildStep
  PROVE  HostTypeOK' /\ config' = config
<1> USE DEF HostTypeOK, VethStates, Private, InitKeeps
<1>1. CASE Sethostname BY <1>1 DEF Sethostname
<1>2. CASE MountSet BY <1>2 DEF MountSet
<1>3. CASE LoUp BY <1>3 DEF LoUp
<1>4. CASE Poll BY <1>4 DEF Poll, Tick, Visible
<1>5. CASE Rename BY <1>5 DEF Rename, Visible
<1>6. CASE AddAddr BY <1>6 DEF AddAddr
<1>7. CASE SetUp BY <1>7 DEF SetUp
<1>8. CASE AddRoute BY <1>8 DEF AddRoute
<1>9. CASE SetupDns BY <1>9 DEF SetupDns
<1>10. CASE EnablePing BY <1>10 DEF EnablePing
<1>11. CASE Unshare BY <1>11 DEF Unshare
<1>12. CASE TellUnshared BY <1>12 DEF TellUnshared
<1>13. CASE AwaitMapping BY <1>13 DEF AwaitMapping
<1>14. CASE SwitchUser BY <1>14 DEF SwitchUser
<1>15. CASE SetCaps BY <1>15 DEF SetCaps
<1>16. CASE SetSeccomp BY <1>16 DEF SetSeccomp
<1>17. CASE CloseSocket BY <1>17 DEF CloseSocket
<1>18. CASE Execve BY <1>18 DEF Execve
<1>19. CASE UserExit BY <1>19 DEF UserExit
<1> QED BY <1>1, <1>2, <1>3, <1>4, <1>5, <1>6, <1>7, <1>8, <1>9, <1>10, <1>11,
      <1>12, <1>13, <1>14, <1>15, <1>16, <1>17, <1>18, <1>19 DEF ChildStep,
      ContainerSetup

LEMMA ChildContainerTypes ==
  ASSUME ContainerTypeOK, ChildStep
  PROVE  ContainerTypeOK'
<1> USE DEF ContainerTypeOK, ChildLabels, Must, Try, Succeed, Continue, Fail,
            Private, InitKeeps
<1>1. CASE Sethostname BY <1>1 DEF Sethostname
<1>2. CASE MountSet BY <1>2 DEF MountSet
<1>3. CASE LoUp BY <1>3 DEF LoUp
<1>4. CASE Rename BY <1>4 DEF Rename, Visible
<1>5. CASE AddAddr BY <1>5 DEF AddAddr
<1>6. CASE SetUp BY <1>6 DEF SetUp
<1>7. CASE AddRoute BY <1>7 DEF AddRoute
<1>8. CASE SetupDns BY <1>8 DEF SetupDns
<1>9. CASE EnablePing BY <1>9 DEF EnablePing
<1>10. CASE Unshare BY <1>10 DEF Unshare
<1>11. CASE TellUnshared BY <1>11 DEF TellUnshared
<1>12. CASE AwaitMapping BY <1>12 DEF AwaitMapping
<1>13. CASE SwitchUser BY <1>13 DEF SwitchUser
<1>14. CASE SetCaps BY <1>14 DEF SetCaps
<1>15. CASE SetSeccomp BY <1>15 DEF SetSeccomp
<1>16. CASE CloseSocket BY <1>16 DEF CloseSocket
<1>17. CASE Execve BY <1>17 DEF Execve
<1>18. CASE UserExit BY <1>18 DEF UserExit
<1>19. CASE Poll
  <2>1. waited' \in 0..PollMax
    BY <1>19, ContainerAssumption DEF Poll, Tick
  <2>2. cpc' \in ChildLabels /\ done' \subseteq ChildLabels
    BY <1>19 DEF Poll
  <2> QED BY <2>1, <2>2
<1> QED BY <1>1, <1>2, <1>3, <1>4, <1>5, <1>6, <1>7, <1>8, <1>9, <1>10, <1>11,
      <1>12, <1>13, <1>14, <1>15, <1>16, <1>17, <1>18, <1>19 DEF ChildStep,
      ContainerSetup

LEMMA ChildLife ==
  ASSUME LifeInv, ChildStep, UNCHANGED mainVars
  PROVE  LifeInv'
<1> USE DEF LifeInv, BeforeClone, BeforeCloexec, FromCloexec, WithChild,
            InCleanup, InitExits, At, Must, Try, Succeed, Continue, Fail,
            Private, InitKeeps, mainVars
<1>1. CASE Sethostname BY <1>1 DEF Sethostname
<1>2. CASE MountSet BY <1>2 DEF MountSet
<1>3. CASE LoUp BY <1>3 DEF LoUp
<1>4. CASE Poll BY <1>4 DEF Poll, Tick, Visible
<1>5. CASE Rename BY <1>5 DEF Rename, Visible
<1>6. CASE AddAddr BY <1>6 DEF AddAddr
<1>7. CASE SetUp BY <1>7 DEF SetUp
<1>8. CASE AddRoute BY <1>8 DEF AddRoute
<1>9. CASE SetupDns BY <1>9 DEF SetupDns
<1>10. CASE EnablePing BY <1>10 DEF EnablePing
<1>11. CASE Unshare BY <1>11 DEF Unshare
<1>12. CASE TellUnshared BY <1>12 DEF TellUnshared
<1>13. CASE AwaitMapping BY <1>13 DEF AwaitMapping
<1>14. CASE SwitchUser BY <1>14 DEF SwitchUser
<1>15. CASE SetCaps BY <1>15 DEF SetCaps
<1>16. CASE SetSeccomp BY <1>16 DEF SetSeccomp
<1>17. CASE CloseSocket BY <1>17 DEF CloseSocket
<1>18. CASE Execve BY <1>18 DEF Execve
<1>19. CASE UserExit BY <1>19 DEF UserExit
<1> QED BY <1>1, <1>2, <1>3, <1>4, <1>5, <1>6, <1>7, <1>8, <1>9, <1>10, <1>11,
      <1>12, <1>13, <1>14, <1>15, <1>16, <1>17, <1>18, <1>19 DEF ChildStep,
      ContainerSetup

(* Only the read of the launcher's answer leads past it. *)
LEMMA ChildHandshake ==
  ASSUME HandshakeInv, ChildStep, UNCHANGED mainVars
  PROVE  HandshakeInv'
<1> USE DEF HandshakeInv, FromCloexec, AfterRead, InitExits, At, Must, Try,
            Succeed, Continue, Fail, Private, InitKeeps, mainVars
<1>1. CASE Sethostname BY <1>1 DEF Sethostname
<1>2. CASE MountSet BY <1>2 DEF MountSet
<1>3. CASE LoUp BY <1>3 DEF LoUp
<1>4. CASE Poll BY <1>4 DEF Poll, Tick, Visible
<1>5. CASE Rename BY <1>5 DEF Rename, Visible
<1>6. CASE AddAddr BY <1>6 DEF AddAddr
<1>7. CASE SetUp BY <1>7 DEF SetUp
<1>8. CASE AddRoute BY <1>8 DEF AddRoute
<1>9. CASE SetupDns BY <1>9 DEF SetupDns
<1>10. CASE EnablePing BY <1>10 DEF EnablePing
<1>11. CASE Unshare BY <1>11 DEF Unshare
<1>12. CASE TellUnshared BY <1>12 DEF TellUnshared
<1>13. CASE AwaitMapping BY <1>13 DEF AwaitMapping, Accepts
<1>14. CASE SwitchUser BY <1>14 DEF SwitchUser
<1>15. CASE SetCaps BY <1>15 DEF SetCaps
<1>16. CASE SetSeccomp BY <1>16 DEF SetSeccomp
<1>17. CASE CloseSocket BY <1>17 DEF CloseSocket
<1>18. CASE Execve BY <1>18 DEF Execve
<1>19. CASE UserExit BY <1>19 DEF UserExit
<1> QED BY <1>1, <1>2, <1>3, <1>4, <1>5, <1>6, <1>7, <1>8, <1>9, <1>10, <1>11,
      <1>12, <1>13, <1>14, <1>15, <1>16, <1>17, <1>18, <1>19 DEF ChildStep,
      ContainerSetup

LEMMA ChildProgress ==
  ASSUME ProgressInv, HandshakeInv, SockTypeOK, ChildStep
  PROVE  ProgressInv'
<1>0. initFd \subseteq {0, 1} BY DEF SockTypeOK, Ends
<1> USE DEF ProgressInv, AfterRead, InitExits, At, Must, Try, Succeed,
            Continue, Fail, Private, InitKeeps
<1>1. CASE Sethostname BY <1>1 DEF Sethostname
<1>2. CASE MountSet BY <1>2 DEF MountSet
<1>3. CASE LoUp BY <1>3 DEF LoUp
<1>4. CASE Poll BY <1>4 DEF Poll, Tick, Visible
<1>5. CASE Rename BY <1>5 DEF Rename, Visible
<1>6. CASE AddAddr BY <1>6 DEF AddAddr
<1>7. CASE SetUp BY <1>7 DEF SetUp
<1>8. CASE AddRoute BY <1>8 DEF AddRoute
<1>9. CASE SetupDns BY <1>9 DEF SetupDns
<1>10. CASE EnablePing BY <1>10 DEF EnablePing
<1>11. CASE Unshare BY <1>11 DEF Unshare
<1>12. CASE TellUnshared BY <1>12 DEF TellUnshared
<1>13. CASE AwaitMapping BY <1>13 DEF AwaitMapping
<1>14. CASE SwitchUser BY <1>14 DEF SwitchUser
<1>15. CASE SetCaps BY <1>15 DEF SetCaps
<1>16. CASE SetSeccomp BY <1>16 DEF SetSeccomp
<1>17. CASE CloseSocket BY <1>17, <1>0 DEF CloseSocket
<1>18. CASE Execve BY <1>18 DEF Execve, HandshakeInv
<1>19. CASE UserExit BY <1>19 DEF UserExit
<1> QED BY <1>1, <1>2, <1>3, <1>4, <1>5, <1>6, <1>7, <1>8, <1>9, <1>10, <1>11,
      <1>12, <1>13, <1>14, <1>15, <1>16, <1>17, <1>18, <1>19 DEF ChildStep,
      ContainerSetup

-----------------------------------------------------------------------------
(* What happens from outside: the kernel destroys a namespace, somebody    *)
(* kills the container or the launcher.                                    *)
Outside == Reclaim \/ Kill \/ Crash

LEMMA OutsideTypes ==
  ASSUME TypeInv, Outside
  PROVE  TypeInv'
<1>1. ProcTypeOK'
  BY Bytes DEF TypeInv, TypeOK, KernelTypeOK, ProcTypeOK, Outside, Reclaim,
      Kill, Crash, NetnsDestroyed, InitKilled, LauncherKilled, InitExits,
      procVars
<1>2. SockTypeOK'
  BY DEF TypeInv, TypeOK, KernelTypeOK, SockTypeOK, Outside, Reclaim, Kill,
      Crash, NetnsDestroyed, InitKilled, LauncherKilled, InitExits, sockVars,
      Packets
<1>3. HostTypeOK'
  BY DEF TypeInv, TypeOK, KernelTypeOK, HostTypeOK, Outside, Reclaim, Kill,
      Crash, NetnsDestroyed, InitKilled, LauncherKilled, hostVars, VethStates
<1>4. config' = config /\ failed' = failed
  BY DEF Outside, Reclaim, Kill, Crash, NetnsDestroyed, InitKilled,
      LauncherKilled
<1>5. UNCHANGED <<mainVars, childVars>> BY DEF Outside, Reclaim, Kill, Crash
<1>6. MainTypeOK' BY <1>5 DEF TypeInv, TypeOK, MainTypeOK, mainVars
<1>7. ContainerTypeOK' BY <1>5 DEF TypeInv, TypeOK, ContainerTypeOK, childVars
<1>8. cgset' = cgset
  BY DEF Outside, Reclaim, Kill, Crash, NetnsDestroyed, InitKilled,
      LauncherKilled, hostVars
<1>9. WriteInv' BY <1>5, <1>8 DEF TypeInv, WriteInv, mainVars
<1> QED BY <1>1, <1>2, <1>3, <1>4, <1>6, <1>7, <1>9
        DEF TypeInv, TypeOK, KernelTypeOK

LEMMA OutsideInv ==
  ASSUME IInv, Outside
  PROVE  LifeInv' /\ HandshakeInv' /\ ProgressInv'
<1>0. UNCHANGED <<mainVars, childVars>> BY DEF Outside, Reclaim, Kill, Crash
<1> USE DEF Outside, Reclaim, Kill, Crash, NetnsDestroyed, InitKilled,
            LauncherKilled, InitExits, procVars, sockVars, hostVars, mainVars,
            childVars
<1>1. LifeInv'
  BY <1>0 DEF IInv, LifeInv, BeforeClone, BeforeCloexec, FromCloexec,
      WithChild, InCleanup
<1>2. HandshakeInv' BY <1>0 DEF IInv, HandshakeInv
<1>3. ProgressInv' BY <1>0 DEF IInv, ProgressInv, AfterRead
<1> QED BY <1>1, <1>2, <1>3

-----------------------------------------------------------------------------
LEMMA InitInv == Init => IInv
<1> SUFFICES ASSUME Init PROVE IInv
  OBVIOUS
<1> USE DEF Init, KernelInit, MainInit, ContainerInit
<1>1. ProcTypeOK BY Bytes DEF ProcTypeOK
<1>2. SockTypeOK BY DEF SockTypeOK, Packets
<1>3. HostTypeOK BY DEF HostTypeOK, VethStates, CgroupStates
<1>4. MainTypeOK BY Bytes DEF MainTypeOK, MainLabels
<1>5. ContainerTypeOK BY ContainerAssumption DEF ContainerTypeOK, ChildLabels
<1>6. WriteInv BY DEF WriteInv
<1>7. LifeInv BY DEF LifeInv, WithChild, InCleanup
<1>8. HandshakeInv BY DEF HandshakeInv, FromCloexec, AfterRead
<1>9. ProgressInv BY DEF ProgressInv, AfterRead
<1> QED BY <1>1, <1>2, <1>3, <1>4, <1>5, <1>6, <1>7, <1>8, <1>9
        DEF IInv, TypeInv, TypeOK, KernelTypeOK

LEMMA NextInv == IInv /\ [Next]_vars => IInv'
<1> SUFFICES ASSUME IInv, [Next]_vars PROVE IInv'
  OBVIOUS
<1>1. CASE Main
  <2>1. MainNext /\ UNCHANGED childVars BY <1>1 DEF Main
  <2>2. ContainerTypeOK'
    BY <2>1 DEF IInv, TypeInv, TypeOK, ContainerTypeOK, childVars
  <2>3. TypeInv'
    BY <2>1, <2>2, MainFrame, MainFaults, MainProcTypes, MainSockTypes,
       MainHostTypes, MainMainTypes, MainWrite
       DEF IInv, TypeInv, TypeOK, KernelTypeOK
  <2> QED
    BY <2>1, <2>3, MainLife, MainHandshake, MainProgress
       DEF IInv, TypeInv, TypeOK, KernelTypeOK
<1>2. CASE Setup \/ Command
  <2>1. ChildStep /\ UNCHANGED mainVars
    BY <1>2 DEF Setup, Command, ChildStep
  <2>2. MainTypeOK'
    BY <2>1 DEF IInv, TypeInv, TypeOK, MainTypeOK, mainVars
  <2>3. WriteInv'
    <3>1. cgset' = cgset
      BY <2>1 DEF ChildStep, ContainerSetup, Sethostname, MountSet, LoUp, Poll,
          Rename, AddAddr, SetUp, AddRoute, SetupDns, EnablePing, Unshare,
          TellUnshared, AwaitMapping, SwitchUser, SetCaps, SetSeccomp,
          CloseSocket, Execve, UserExit, Private, InitKeeps
    <3> QED BY <2>1, <3>1 DEF IInv, TypeInv, WriteInv, mainVars
  <2>4. TypeInv'
    BY <2>1, <2>2, <2>3, ChildFaults, ChildProcTypes, ChildSockTypes,
       ChildHostTypes, ChildContainerTypes
       DEF IInv, TypeInv, TypeOK, KernelTypeOK
  <2> QED
    BY <2>1, <2>4, ChildLife, ChildHandshake, ChildProgress
       DEF IInv, TypeInv, TypeOK, KernelTypeOK
<1>3. CASE Reclaim \/ Kill \/ Crash
  BY <1>3, OutsideTypes, OutsideInv DEF Outside, IInv
<1>4. CASE Over \/ UNCHANGED vars
  <2>1. UNCHANGED vars BY <1>4 DEF Over
  <2> USE <2>1 DEF vars, kernelVars, procVars, sockVars, hostVars, mainVars,
                   childVars
  <2>1a. ProcTypeOK' BY DEF IInv, TypeInv, TypeOK, KernelTypeOK, ProcTypeOK
  <2>2. SockTypeOK' BY DEF IInv, TypeInv, TypeOK, KernelTypeOK, SockTypeOK
  <2>3. HostTypeOK' BY DEF IInv, TypeInv, TypeOK, KernelTypeOK, HostTypeOK
  <2>4. MainTypeOK' BY DEF IInv, TypeInv, TypeOK, MainTypeOK
  <2>5. ContainerTypeOK' BY DEF IInv, TypeInv, TypeOK, ContainerTypeOK
  <2>6. config' \in Configs /\ failed' \subseteq Faults
    BY DEF IInv, TypeInv, TypeOK, KernelTypeOK
  <2>7. WriteInv' BY DEF IInv, TypeInv, WriteInv
  <2>8. LifeInv' BY DEF IInv, LifeInv
  <2>9. HandshakeInv' BY DEF IInv, HandshakeInv
  <2>10. ProgressInv' BY DEF IInv, ProgressInv
  <2> QED
    BY <2>1a, <2>2, <2>3, <2>4, <2>5, <2>6, <2>7, <2>8, <2>9, <2>10
       DEF IInv, TypeInv, TypeOK, KernelTypeOK
<1> QED BY <1>1, <1>2, <1>3, <1>4 DEF Next

LEMMA Inductive == Spec => []IInv
  BY InitInv, NextInv, PTL DEF Spec

(* Type correctness: in particular no control file index runs past the     *)
(* list of cgroups_init(), and the exit code fits the status of a process. *)
THEOREM Typed == Spec => []TypeOK
<1>1. IInv => TypeOK BY DEF IInv, TypeInv
<1> QED BY <1>1, Inductive, PTL

(* The user's command never runs before the isolation is complete: the     *)
(* calls of container_start() and user_namespace_init() that fail, and the *)
(* answers of user_namespace_prepare_mappings(), never let it through,     *)
(* whatever fails and whoever is killed.                                   *)
THEOREM AlwaysConfined == Spec => []Confined
<1>1. IInv => Confined
  BY DEF IInv, HandshakeInv, ProgressInv, AfterRead, Confined, Running, At
<1> QED BY <1>1, Inductive, PTL

(* cgroups_free() is only reached when the container's process is gone.    *)
THEOREM FreedAfterExit == Spec => []FreeAfterExit
<1>1. IInv => FreeAfterExit
  BY DEF IInv, LifeInv, InCleanup, FreeAfterExit, MainAt
<1> QED BY <1>1, Inductive, PTL

(* main() never signals or names a process id that it has given back.      *)
THEOREM PidNeverStale == Spec => []PidStillOurs
<1>1. IInv => PidStillOurs
  BY DEF IInv, LifeInv, WithChild, PidStillOurs
<1> QED BY <1>1, Inductive, PTL

-----------------------------------------------------------------------------
(* What main() returns and closes, what is held for a container and what   *)
(* is left of it, up to the theorem that Barco implements Lifecycle.       *)
Stopping == {"stop", "reap"}

(* The end of main(): it comes after cleanup, when the child is gone.      *)
EndInv ==
  launcher = "returned" => mpc = "leave" /\ init \in {"unborn", "reaped"}

(* The exit code is 0 until something fails or the container is over. In   *)
(* cleanup it is 1, or the status of a child that main() has waited for;   *)
(* without a child it is 1, unless the command line was all there was.     *)
CodeInv ==
  /\ mpc = "parse" => failed = {}
  /\ mpc \notin Stopping \cup InCleanup => exitcode = 0
  /\ mpc \in Stopping => exitcode = 1
  /\ mpc \in InCleanup /\ init = "unborn" =>
       exitcode = 1 \/ (mpc = "leave" /\ failed = {})
  /\ mpc \in InCleanup /\ init = "reaped" /\ launcher # "killed" =>
       /\ exitcode \in {1, status}
       /\ exitcode = 0 => "exec" \in done

(* A status of 0 comes only from the command that was executed.            *)
StatusInv ==
  /\ cpc = "running" => "exec" \in done
  /\ init \in {"zombie", "reaped"} /\ status = 0 => "exec" \in done

(* The number sockets[1] names the network namespace only inside the move. *)
NsFdInv == main1 = "ns" => mpc = "move"

ReturnInv == EndInv /\ CodeInv /\ StatusInv /\ NsFdInv

-----------------------------------------------------------------------------
(* One part at a time for main(). *)
LEMMA MainEnd ==
  ASSUME LifeInv, EndInv, MainNext
  PROVE  EndInv'
<1> USE DEF EndInv, LifeInv, WithChild, InCleanup, MainAt, Goto, Bail,
            StopAndBail, OnlyMain, OnlySock, OnlyHost, OnlyNet, OnlyAnswer,
            procVars, sockVars, childVars, mainVars
<1>1. CASE ParseArgs BY <1>1 DEF ParseArgs, Works
<1>2. CASE FillConfig BY <1>2 DEF FillConfig
<1>3. CASE Socketpair BY <1>3 DEF Socketpair
<1>4. CASE SetCloexec BY <1>4 DEF SetCloexec
<1>5. CASE AllocStack BY <1>5 DEF AllocStack, MustMain
<1>6. CASE ScrubLinks BY <1>6 DEF ScrubLinks
<1>7. CASE CreateVeth BY <1>7 DEF CreateVeth
<1>8. CASE AddPeerAddr BY <1>8 DEF AddPeerAddr, Setting
<1>9. CASE PeerUp BY <1>9 DEF PeerUp, Setting
<1>10. CASE IpForward BY <1>10 DEF IpForward, Setting
<1>11. CASE Masquerade BY <1>11 DEF Masquerade
<1>12. CASE ForwardSrc BY <1>12 DEF ForwardSrc, Setting
<1>13. CASE ForwardEstablished BY <1>13 DEF ForwardEstablished
<1>14. CASE Clone BY <1>14 DEF Clone, HandOver
<1>15. CASE Settle BY <1>15 DEF Settle, SignalReaches
<1>16. CASE OpenNetns BY <1>16 DEF OpenNetns
<1>17. CASE MoveVeth BY <1>17 DEF MoveVeth, CloseNsFd
<1>18. CASE CgroupMkdir BY <1>18 DEF CgroupMkdir
<1>19. CASE CgroupWrite BY <1>19 DEF CgroupWrite
<1>20. CASE ReadUnshared BY <1>20 DEF ReadUnshared
<1>21. CASE DenySetgroups BY <1>21 DEF DenySetgroups, WriteMap
<1>22. CASE WriteUidMap BY <1>22 DEF WriteUidMap, WriteMap
<1>23. CASE WriteGidMap BY <1>23 DEF WriteGidMap, WriteMap
<1>24. CASE AnswerOk BY <1>24 DEF AnswerOk
<1>25. CASE AnswerFail BY <1>25 DEF AnswerFail
<1>26. CASE SendSigkill
  BY <1>26 DEF SendSigkill, InitExits, AfterKill, SignalReaches, SIGKILLed
<1>27. CASE Reap BY <1>27 DEF Reap
<1>28. CASE WaitContainer BY <1>28 DEF WaitContainer, ExitStatus
<1>29. CASE UndoNat BY <1>29 DEF UndoNat
<1>30. CASE UndoVeth BY <1>30 DEF UndoVeth
<1>31. CASE CloseEnd0 BY <1>31 DEF CloseEnd0
<1>32. CASE CloseEnd1 BY <1>32 DEF CloseEnd1
<1>33. CASE CgroupsFree BY <1>33 DEF CgroupsFree
<1>34. CASE Return BY <1>34 DEF Return, Works
<1> QED BY <1>1, <1>2, <1>3, <1>4, <1>5, <1>6, <1>7, <1>8, <1>9, <1>10, <1>11,
      <1>12, <1>13, <1>14, <1>15, <1>16, <1>17, <1>18, <1>19, <1>20, <1>21,
      <1>22, <1>23, <1>24, <1>25, <1>26, <1>27, <1>28, <1>29, <1>30, <1>31,
      <1>32, <1>33, <1>34 DEF MainNext

LEMMA MainCode ==
  ASSUME LifeInv, CodeInv, StatusInv, MainNext, UNCHANGED childVars
  PROVE  CodeInv'
<1> USE DEF CodeInv, StatusInv, LifeInv, Stopping, BeforeClone, BeforeCloexec,
            FromCloexec, WithChild, InCleanup, MainAt, Goto, Bail, StopAndBail,
            OnlyMain, OnlySock, OnlyHost, OnlyNet, OnlyAnswer, procVars,
            sockVars, childVars, mainVars
<1>1. CASE ParseArgs BY <1>1 DEF ParseArgs, Works
<1>2. CASE FillConfig BY <1>2 DEF FillConfig
<1>3. CASE Socketpair BY <1>3 DEF Socketpair
<1>4. CASE SetCloexec BY <1>4 DEF SetCloexec
<1>5. CASE AllocStack BY <1>5 DEF AllocStack, MustMain
<1>6. CASE ScrubLinks BY <1>6 DEF ScrubLinks
<1>7. CASE CreateVeth BY <1>7 DEF CreateVeth
<1>8. CASE AddPeerAddr BY <1>8 DEF AddPeerAddr, Setting
<1>9. CASE PeerUp BY <1>9 DEF PeerUp, Setting
<1>10. CASE IpForward BY <1>10 DEF IpForward, Setting
<1>11. CASE Masquerade BY <1>11 DEF Masquerade
<1>12. CASE ForwardSrc BY <1>12 DEF ForwardSrc, Setting
<1>13. CASE ForwardEstablished BY <1>13 DEF ForwardEstablished
<1>14. CASE Clone BY <1>14 DEF Clone, HandOver
<1>15. CASE Settle BY <1>15 DEF Settle, SignalReaches
<1>16. CASE OpenNetns BY <1>16 DEF OpenNetns
<1>17. CASE MoveVeth BY <1>17 DEF MoveVeth, CloseNsFd
<1>18. CASE CgroupMkdir BY <1>18 DEF CgroupMkdir
<1>19. CASE CgroupWrite BY <1>19 DEF CgroupWrite
<1>20. CASE ReadUnshared BY <1>20 DEF ReadUnshared
<1>21. CASE DenySetgroups BY <1>21 DEF DenySetgroups, WriteMap
<1>22. CASE WriteUidMap BY <1>22 DEF WriteUidMap, WriteMap
<1>23. CASE WriteGidMap BY <1>23 DEF WriteGidMap, WriteMap
<1>24. CASE AnswerOk BY <1>24 DEF AnswerOk
<1>25. CASE AnswerFail BY <1>25 DEF AnswerFail
<1>26. CASE SendSigkill
  BY <1>26 DEF SendSigkill, InitExits, AfterKill, SignalReaches, SIGKILLed
<1>27. CASE Reap BY <1>27 DEF Reap
<1>28. CASE WaitContainer BY <1>28 DEF WaitContainer, ExitStatus
<1>29. CASE UndoNat BY <1>29 DEF UndoNat
<1>30. CASE UndoVeth BY <1>30 DEF UndoVeth
<1>31. CASE CloseEnd0 BY <1>31 DEF CloseEnd0
<1>32. CASE CloseEnd1 BY <1>32 DEF CloseEnd1
<1>33. CASE CgroupsFree BY <1>33 DEF CgroupsFree
<1>34. CASE Return BY <1>34 DEF Return, Works
<1> QED BY <1>1, <1>2, <1>3, <1>4, <1>5, <1>6, <1>7, <1>8, <1>9, <1>10, <1>11,
      <1>12, <1>13, <1>14, <1>15, <1>16, <1>17, <1>18, <1>19, <1>20, <1>21,
      <1>22, <1>23, <1>24, <1>25, <1>26, <1>27, <1>28, <1>29, <1>30, <1>31,
      <1>32, <1>33, <1>34 DEF MainNext

(* Only clone, kill and wait touch the child's process or its status.      *)
LEMMA MainStatus ==
  ASSUME LifeInv, StatusInv, MainNext, UNCHANGED childVars
  PROVE  StatusInv'
<1> USE DEF StatusInv, LifeInv, childVars, MainAt, WithChild, BeforeClone,
            FromCloexec
<1>1. CASE Clone BY <1>1 DEF Clone
<1>2. CASE SendSigkill BY <1>2 DEF SendSigkill, InitExits, SIGKILLed
<1>3. CASE Reap BY <1>3 DEF Reap
<1>4. CASE WaitContainer BY <1>4 DEF WaitContainer
<1>5. CASE Return BY <1>5 DEF Return
<1>6. CASE UNCHANGED procVars BY <1>6 DEF procVars
<1> QED BY MainFrame, <1>1, <1>2, <1>3, <1>4, <1>5, <1>6 DEF ProcStep

LEMMA MainNsFd ==
  ASSUME NsFdInv, MainNext
  PROVE  NsFdInv'
<1> USE DEF NsFdInv, MainAt, Goto, Bail, StopAndBail, OnlyMain, OnlySock,
            OnlyHost, OnlyNet, OnlyAnswer, procVars, sockVars, childVars,
            mainVars
<1>1. CASE ParseArgs BY <1>1 DEF ParseArgs, Works
<1>2. CASE FillConfig BY <1>2 DEF FillConfig
<1>3. CASE Socketpair BY <1>3 DEF Socketpair
<1>4. CASE SetCloexec BY <1>4 DEF SetCloexec
<1>5. CASE AllocStack BY <1>5 DEF AllocStack, MustMain
<1>6. CASE ScrubLinks BY <1>6 DEF ScrubLinks
<1>7. CASE CreateVeth BY <1>7 DEF CreateVeth
<1>8. CASE AddPeerAddr BY <1>8 DEF AddPeerAddr, Setting
<1>9. CASE PeerUp BY <1>9 DEF PeerUp, Setting
<1>10. CASE IpForward BY <1>10 DEF IpForward, Setting
<1>11. CASE Masquerade BY <1>11 DEF Masquerade
<1>12. CASE ForwardSrc BY <1>12 DEF ForwardSrc, Setting
<1>13. CASE ForwardEstablished BY <1>13 DEF ForwardEstablished
<1>14. CASE Clone BY <1>14 DEF Clone, HandOver
<1>15. CASE Settle BY <1>15 DEF Settle, SignalReaches
<1>16. CASE OpenNetns BY <1>16 DEF OpenNetns
<1>17. CASE MoveVeth BY <1>17 DEF MoveVeth, CloseNsFd
<1>18. CASE CgroupMkdir BY <1>18 DEF CgroupMkdir
<1>19. CASE CgroupWrite BY <1>19 DEF CgroupWrite
<1>20. CASE ReadUnshared BY <1>20 DEF ReadUnshared
<1>21. CASE DenySetgroups BY <1>21 DEF DenySetgroups, WriteMap
<1>22. CASE WriteUidMap BY <1>22 DEF WriteUidMap, WriteMap
<1>23. CASE WriteGidMap BY <1>23 DEF WriteGidMap, WriteMap
<1>24. CASE AnswerOk BY <1>24 DEF AnswerOk
<1>25. CASE AnswerFail BY <1>25 DEF AnswerFail
<1>26. CASE SendSigkill
  BY <1>26 DEF SendSigkill, InitExits, AfterKill, SignalReaches, SIGKILLed
<1>27. CASE Reap BY <1>27 DEF Reap
<1>28. CASE WaitContainer BY <1>28 DEF WaitContainer, ExitStatus
<1>29. CASE UndoNat BY <1>29 DEF UndoNat
<1>30. CASE UndoVeth BY <1>30 DEF UndoVeth
<1>31. CASE CloseEnd0 BY <1>31 DEF CloseEnd0
<1>32. CASE CloseEnd1 BY <1>32 DEF CloseEnd1
<1>33. CASE CgroupsFree BY <1>33 DEF CgroupsFree
<1>34. CASE Return BY <1>34 DEF Return, Works
<1> QED BY <1>1, <1>2, <1>3, <1>4, <1>5, <1>6, <1>7, <1>8, <1>9, <1>10, <1>11,
      <1>12, <1>13, <1>14, <1>15, <1>16, <1>17, <1>18, <1>19, <1>20, <1>21,
      <1>22, <1>23, <1>24, <1>25, <1>26, <1>27, <1>28, <1>29, <1>30, <1>31,
      <1>32, <1>33, <1>34 DEF MainNext

-----------------------------------------------------------------------------
(* A step of the child: it is alive, so that main() is before its cleanup  *)
(* or has been killed.                                                     *)
LEMMA ChildFrame ==
  ASSUME ChildStep
  PROVE  /\ init = "alive" /\ init' \in {"alive", "zombie", "reaped"}
         /\ launcher' = launcher /\ main1' = main1
<1> USE DEF At, Must, Try, Succeed, Continue, Fail, InitExits, Private,
            InitKeeps
<1>1. CASE Sethostname BY <1>1 DEF Sethostname
<1>2. CASE MountSet BY <1>2 DEF MountSet
<1>3. CASE LoUp BY <1>3 DEF LoUp
<1>4. CASE Poll BY <1>4 DEF Poll
<1>5. CASE Rename BY <1>5 DEF Rename
<1>6. CASE AddAddr BY <1>6 DEF AddAddr
<1>7. CASE SetUp BY <1>7 DEF SetUp
<1>8. CASE AddRoute BY <1>8 DEF AddRoute
<1>9. CASE SetupDns BY <1>9 DEF SetupDns
<1>10. CASE EnablePing BY <1>10 DEF EnablePing
<1>11. CASE Unshare BY <1>11 DEF Unshare
<1>12. CASE TellUnshared BY <1>12 DEF TellUnshared
<1>13. CASE AwaitMapping BY <1>13 DEF AwaitMapping
<1>14. CASE SwitchUser BY <1>14 DEF SwitchUser
<1>15. CASE SetCaps BY <1>15 DEF SetCaps
<1>16. CASE SetSeccomp BY <1>16 DEF SetSeccomp
<1>17. CASE CloseSocket BY <1>17 DEF CloseSocket
<1>18. CASE Execve BY <1>18 DEF Execve
<1>19. CASE UserExit BY <1>19 DEF UserExit
<1> QED BY <1>1, <1>2, <1>3, <1>4, <1>5, <1>6, <1>7, <1>8, <1>9, <1>10, <1>11,
      <1>12, <1>13, <1>14, <1>15, <1>16, <1>17, <1>18, <1>19 DEF ChildStep,
      ContainerSetup

LEMMA ChildStatus ==
  ASSUME LifeInv, StatusInv, ChildStep
  PROVE  StatusInv'
<1> USE DEF StatusInv, At, Must, Try, Succeed, Continue, Fail, InitExits,
            Private, InitKeeps
<1>1. CASE Sethostname BY <1>1 DEF Sethostname
<1>2. CASE MountSet BY <1>2 DEF MountSet
<1>3. CASE LoUp BY <1>3 DEF LoUp
<1>4. CASE Poll BY <1>4 DEF Poll
<1>5. CASE Rename BY <1>5 DEF Rename
<1>6. CASE AddAddr BY <1>6 DEF AddAddr
<1>7. CASE SetUp BY <1>7 DEF SetUp
<1>8. CASE AddRoute BY <1>8 DEF AddRoute
<1>9. CASE SetupDns BY <1>9 DEF SetupDns
<1>10. CASE EnablePing BY <1>10 DEF EnablePing
<1>11. CASE Unshare BY <1>11 DEF Unshare
<1>12. CASE TellUnshared BY <1>12 DEF TellUnshared
<1>13. CASE AwaitMapping BY <1>13 DEF AwaitMapping
<1>14. CASE SwitchUser BY <1>14 DEF SwitchUser
<1>15. CASE SetCaps BY <1>15 DEF SetCaps
<1>16. CASE SetSeccomp BY <1>16 DEF SetSeccomp
<1>17. CASE CloseSocket BY <1>17 DEF CloseSocket
<1>18. CASE Execve BY <1>18 DEF Execve
<1>19. CASE UserExit BY <1>19 DEF UserExit
<1> QED BY <1>1, <1>2, <1>3, <1>4, <1>5, <1>6, <1>7, <1>8, <1>9, <1>10, <1>11,
      <1>12, <1>13, <1>14, <1>15, <1>16, <1>17, <1>18, <1>19 DEF ChildStep,
      ContainerSetup

LEMMA ChildReturn ==
  ASSUME IInv, ReturnInv, ChildStep, UNCHANGED mainVars
  PROVE  ReturnInv'
<1>1. /\ init = "alive" /\ init' \in {"alive", "zombie", "reaped"}
      /\ launcher' = launcher /\ main1' = main1
  BY ChildFrame
<1>2. launcher # "returned" BY <1>1 DEF ReturnInv, EndInv
<1>3. mpc \in InCleanup => launcher = "killed"
  BY <1>1, <1>2 DEF IInv, LifeInv, TypeInv, TypeOK, KernelTypeOK, ProcTypeOK
<1>4. mpc # "parse"
  BY <1>1 DEF IInv, LifeInv, BeforeClone, BeforeCloexec
<1>5. EndInv' BY <1>1, <1>2 DEF EndInv
<1>6. CodeInv'
  BY <1>1, <1>3, <1>4 DEF ReturnInv, CodeInv, mainVars
<1>7. NsFdInv' BY <1>1 DEF ReturnInv, NsFdInv, mainVars
<1> QED BY <1>5, <1>6, <1>7, ChildStatus DEF ReturnInv, IInv

(* Kills from outside, and the kernel's own step. *)
LEMMA OutsideReturn ==
  ASSUME IInv, ReturnInv, Outside
  PROVE  ReturnInv'
<1>0. UNCHANGED <<mainVars, childVars>> BY DEF Outside, Reclaim, Kill, Crash
<1>a. failed' = failed
  BY DEF Outside, Reclaim, Kill, Crash, NetnsDestroyed, InitKilled,
      LauncherKilled
<1>b. ProcTypeOK /\ LifeInv
  BY DEF IInv, TypeInv, TypeOK, KernelTypeOK
<1> USE <1>0, <1>a DEF ReturnInv, EndInv, CodeInv, StatusInv, NsFdInv,
            mainVars, childVars
<1>1. CASE Reclaim BY <1>1 DEF Reclaim, NetnsDestroyed, procVars, sockVars
<1>2. CASE Kill
  <2>1. /\ init = "alive" /\ init' \in {"zombie", "reaped"}
        /\ launcher' = launcher /\ main1' = main1 /\ status' = SIGKILLed
    BY <1>2 DEF Kill, InitKilled, InitExits
  <2>2. mpc \in InCleanup => launcher = "killed"
    BY <2>1, <1>b DEF LifeInv, ProcTypeOK
  <2> QED BY <2>1, <2>2 DEF SIGKILLed
<1>3. CASE Crash BY <1>3 DEF Crash, LauncherKilled
<1> QED BY <1>1, <1>2, <1>3 DEF Outside

LEMMA ReturnInductive == Spec => []ReturnInv
<1>1. Init => ReturnInv
  BY DEF Init, KernelInit, MainInit, ContainerInit, ReturnInv, EndInv,
      CodeInv, StatusInv, NsFdInv, Stopping, InCleanup
<1>2. IInv /\ ReturnInv /\ [Next]_vars => ReturnInv'
  <2> SUFFICES ASSUME IInv, ReturnInv, [Next]_vars PROVE ReturnInv'
    OBVIOUS
  <2>1. CASE Main
    BY <2>1, MainEnd, MainCode, MainStatus, MainNsFd DEF Main, IInv, ReturnInv
  <2>2. CASE Setup \/ Command
    BY <2>2, ChildReturn DEF Setup, Command, ChildStep
  <2>3. CASE Reclaim \/ Kill \/ Crash BY <2>3, OutsideReturn DEF Outside
  <2>4. CASE Over \/ UNCHANGED vars
    BY <2>4 DEF Over, vars, kernelVars, procVars, sockVars, mainVars,
        childVars, ReturnInv, EndInv, CodeInv, StatusInv, NsFdInv
  <2> QED BY <2>1, <2>2, <2>3, <2>4 DEF Next
<1> QED BY <1>1, <1>2, Inductive, PTL DEF Spec

(* main() never reports a success for a command that did not run and       *)
(* return 0: not for a container that was killed, whose set-up failed, or  *)
(* that was never made.                                                    *)
THEOREM HonestExitCode == Spec => []ExitCodeHonest
<1>1. ReturnInv => ExitCodeHonest
  BY DEF ReturnInv, EndInv, CodeInv, InCleanup, ExitCodeHonest
<1> QED BY <1>1, ReturnInductive, PTL

(* The second close of sockets[1] in cleanup never hits ns_fd.             *)
THEOREM SecondCloseSafe == Spec => []StaleCloseSafe
<1>1. ReturnInv => StaleCloseSafe
  BY DEF ReturnInv, NsFdInv, StaleCloseSafe, MainAt
<1> QED BY <1>1, ReturnInductive, PTL

-----------------------------------------------------------------------------
BeforeVeth == BeforeCloexec \cup {"stack", "scrub", "veth"}
WithRules == {"forward_src", "forward_established"}
BeforeRules == BeforeClone \ (WithRules \cup {"clone"})
Mapping ==
  {"map_read", "setgroups", "uid_map", "gid_map", "map_ok", "map_fail"}
BeforeAnswer == BeforeWrite \cup {"cg_write"} \cup Mapping
AfterUnlink == {"close0", "close1", "cg_free", "leave"}

(* Cleanup starts when the container is gone, also where the launcher was  *)
(* killed in it.                                                           *)
AliveInv == init = "alive" => mpc \notin InCleanup \cup {"reap"}

(* A pair on the host is one that cleanup will delete, or that was created *)
(* by a call that reported a failure. *)
LinkInv ==
  /\ mpc \in BeforeVeth => veth \in {"none", "stale"}
  /\ veth \notin {"none", "stale"} => created \/ "veth" \in failed
  /\ mpc \in AfterUnlink /\ veth \notin {"none", "stale"} =>
       {"veth", "peer_del"} \cap failed # {}

(* Rules on the host are those that cleanup will delete; the first one is  *)
(* there from setup_nat() to cleanup_nat().                                *)
RulesInv ==
  /\ mpc \in BeforeRules => ~natApplied /\ hostNet \cap NatRules = {}
  /\ mpc \in WithRules => "masquerade" \in hostNet
  /\ hostNet \cap NatRules # {} => natApplied \/ mpc \in WithRules
  /\ natApplied /\ mpc \notin AfterUnlink \cup {"undo_veth"} =>
       "masquerade" \in hostNet
  /\ mpc \in AfterUnlink \cup {"undo_veth"} /\ hostNet \cap NatRules # {} =>
       "nat_del" \in failed

(* cgroups_init() is over before the answer is sent, and the container     *)
(* goes on only with the answer.                                           *)
LimitsTried ==
  \/ cgdir = "own" /\ cgset = CgroupFiles
  \/ cgdir = "busy"
  \/ {"cg_mkdir", "cg_write"} \cap failed # {}

LimitsInv ==
  /\ mpc \in BeforeWrite => cgdir # "own"
  /\ mpc = "cg_write" => cgdir = "own"
  /\ mpc \in BeforeAnswer => toInit = "empty" /\ cpc \notin AfterRead
  /\ mpc \in Mapping \cup {"wait"} => LimitsTried
  /\ init = "alive" /\ (toInit = "ok" \/ cpc \in AfterRead) => LimitsTried
  /\ mpc = "leave" /\ cgdir = "own" => "cg_free" \in failed

(* The ends of the socket pair are closed by cleanup and by the child's    *)
(* end.                                                                    *)
EndsInv ==
  /\ init # "alive" => initFd = {}
  /\ mpc \in {"parse", "config", "socketpair"} =>
       main0 = "free" /\ main1 = "free"
  /\ mpc \in {"close1", "cg_free", "leave"} => main0 = "free"
  /\ mpc \in {"cg_free", "leave"} => main1 = "free"

(* A container with a network is past its own interface calls only with    *)
(* the interface under its name.                                           *)
AfterUp ==
  {"route", "dns", "ping", "unshare", "hs_write", "hs_read"} \cup AfterRead

NetInv ==
  init = "alive" /\ config.net =>
    /\ cpc \in {"addr", "up"} \cup AfterUp =>
         veth = "named" /\ "rename" \in done
    /\ cpc \in {"up"} \cup AfterUp => "addr" \in done
    /\ cpc \in AfterUp => "up" \in done

HoldInv ==
  AliveInv /\ LinkInv /\ RulesInv /\ LimitsInv /\ EndsInv /\ NetInv

-----------------------------------------------------------------------------
(* What main() does to its host, call by call. *)
LEMMA MainHold ==
  ASSUME IInv, EndInv, CodeInv, HoldInv, MainNext, UNCHANGED childVars
  PROVE  AliveInv' /\ LinkInv' /\ RulesInv' /\ LimitsInv' /\ EndsInv'
<1> USE DEF AliveInv, LinkInv, RulesInv, LimitsInv, EndsInv, HoldInv,
            LimitsTried, IInv, LifeInv, EndInv, CodeInv, BeforeVeth, WithRules,
            BeforeRules, Mapping, BeforeAnswer, AfterUnlink, BeforeWrite,
            BeforeClone, BeforeCloexec, FromCloexec, WithChild, InCleanup,
            AfterRead, Works, Fault, FailsIf, NatRules, PeerSettings, Packets,
            MainAt, Goto, Bail, StopAndBail, OnlyMain, OnlySock, OnlyHost,
            OnlyNet, OnlyAnswer, procVars, sockVars, hostVars, childVars,
            mainVars
<1>1. CASE ParseArgs BY <1>1 DEF ParseArgs
<1>2. CASE FillConfig BY <1>2 DEF FillConfig
<1>3. CASE Socketpair BY <1>3 DEF Socketpair, MustMain
<1>4. CASE SetCloexec BY <1>4 DEF SetCloexec, MarkCloexec
<1>5. CASE AllocStack BY <1>5 DEF AllocStack, MustMain
<1>6. CASE ScrubLinks BY <1>6 DEF ScrubLinks
<1>7. CASE CreateVeth BY <1>7 DEF CreateVeth
<1>8. CASE AddPeerAddr BY <1>8 DEF AddPeerAddr, Setting
<1>9. CASE PeerUp BY <1>9 DEF PeerUp, Setting
<1>10. CASE IpForward BY <1>10 DEF IpForward, Setting
<1>11. CASE Masquerade BY <1>11 DEF Masquerade
<1>12. CASE ForwardSrc BY <1>12 DEF ForwardSrc, Setting
<1>13. CASE ForwardEstablished BY <1>13 DEF ForwardEstablished
<1>14. CASE Clone BY <1>14 DEF Clone, HandOver
<1>15. CASE Settle BY <1>15 DEF Settle, SignalReaches
<1>16. CASE OpenNetns BY <1>16 DEF OpenNetns
<1>17. CASE MoveVeth BY <1>17 DEF MoveVeth, CloseNsFd
<1>18. CASE CgroupMkdir BY <1>18 DEF CgroupMkdir
<1>19. CASE CgroupWrite BY <1>19 DEF CgroupWrite, Written, CgroupFiles
<1>20. CASE ReadUnshared BY <1>20 DEF ReadUnshared
<1>21. CASE DenySetgroups BY <1>21 DEF DenySetgroups, WriteMap
<1>22. CASE WriteUidMap BY <1>22 DEF WriteUidMap, WriteMap
<1>23. CASE WriteGidMap BY <1>23 DEF WriteGidMap, WriteMap
<1>24. CASE AnswerOk BY <1>24 DEF AnswerOk, Send
<1>25. CASE AnswerFail BY <1>25 DEF AnswerFail, Send, Refusal
<1>26. CASE SendSigkill
  BY <1>26 DEF SendSigkill, InitExits, AfterKill, SignalReaches, SIGKILLed
<1>27. CASE Reap BY <1>27 DEF Reap
<1>28. CASE WaitContainer BY <1>28 DEF WaitContainer, ExitStatus
<1>29. CASE UndoNat BY <1>29 DEF UndoNat
<1>30. CASE UndoVeth BY <1>30 DEF UndoVeth, MustUnlink
<1>31. CASE CloseEnd0 BY <1>31 DEF CloseEnd0
<1>32. CASE CloseEnd1 BY <1>32 DEF CloseEnd1
<1>33. CASE CgroupsFree BY <1>33 DEF CgroupsFree, Populated
<1>34. CASE Return BY <1>34 DEF Return
<1> QED BY <1>1, <1>2, <1>3, <1>4, <1>5, <1>6, <1>7, <1>8, <1>9, <1>10, <1>11,
      <1>12, <1>13, <1>14, <1>15, <1>16, <1>17, <1>18, <1>19, <1>20, <1>21,
      <1>22, <1>23, <1>24, <1>25, <1>26, <1>27, <1>28, <1>29, <1>30, <1>31,
      <1>32, <1>33, <1>34 DEF MainNext

(* The interface of a container that has it under its name is not moved    *)
(* again, and deleted only when the container is gone.                     *)
LEMMA MainNet ==
  ASSUME IInv, AliveInv, NetInv, MainNext, UNCHANGED childVars
  PROVE  NetInv'
<1> USE DEF NetInv, AliveInv, IInv, LifeInv, AfterUp, AfterRead, BeforeClone,
            FromCloexec, InCleanup, MainAt, childVars
<1>1. /\ config' = config
      /\ init' = "alive" => init = "alive" \/ cpc = "hostname"
  BY MainFrame DEF ProcStep, Clone, SendSigkill, InitExits, Reap,
      WaitContainer, Return, procVars
<1>2. CASE ScrubLinks BY <1>1, <1>2 DEF ScrubLinks, OnlyNet, OnlyHost, procVars
<1>3. CASE CreateVeth BY <1>1, <1>3 DEF CreateVeth, OnlyNet, OnlyHost, procVars
<1>4. CASE MoveVeth BY <1>1, <1>4 DEF MoveVeth
<1>5. CASE UndoVeth BY <1>1, <1>5 DEF UndoVeth, OnlyNet, OnlyHost, procVars
<1>6. CASE veth' = veth BY <1>1, <1>6
<1> QED BY <1>2, <1>3, <1>4, <1>5, <1>6, MainFrame DEF HostStep, AddPeerAddr,
      PeerUp, IpForward, Masquerade, ForwardSrc, ForwardEstablished, Setting,
      CgroupMkdir, CgroupWrite, DenySetgroups, WriteUidMap, WriteGidMap,
      WriteMap, UndoNat, CgroupsFree, OnlyNet, OnlyHost, hostVars

-----------------------------------------------------------------------------
(* A step of the child, which is alive, so that main() is not in cleanup.  *)
LEMMA ChildHold ==
  ASSUME IInv, HoldInv, ChildStep, UNCHANGED mainVars
  PROVE  HoldInv'
<1> USE DEF HoldInv, AliveInv, LinkInv, RulesInv, LimitsInv, EndsInv, NetInv,
            LimitsTried, AfterUp, AfterRead, At, Must, Try, Succeed, Continue,
            Fail, InitExits, Private, InitKeeps, Works, Fault, FailsIf,
            mainVars, InCleanup
<1>1. CASE Sethostname BY <1>1 DEF Sethostname
<1>2. CASE MountSet BY <1>2 DEF MountSet
<1>3. CASE LoUp BY <1>3 DEF LoUp
<1>4. CASE Poll BY <1>4 DEF Poll, Tick
<1>5. CASE Rename BY <1>5 DEF Rename, Visible
<1>6. CASE AddAddr BY <1>6 DEF AddAddr
<1>7. CASE SetUp BY <1>7 DEF SetUp
<1>8. CASE AddRoute BY <1>8 DEF AddRoute
<1>9. CASE SetupDns BY <1>9 DEF SetupDns
<1>10. CASE EnablePing BY <1>10 DEF EnablePing
<1>11. CASE Unshare BY <1>11 DEF Unshare
<1>12. CASE TellUnshared BY <1>12 DEF TellUnshared
<1>13. CASE AwaitMapping BY <1>13 DEF AwaitMapping, Accepts
<1>14. CASE SwitchUser BY <1>14 DEF SwitchUser
<1>15. CASE SetCaps BY <1>15 DEF SetCaps
<1>16. CASE SetSeccomp BY <1>16 DEF SetSeccomp
<1>17. CASE CloseSocket BY <1>17 DEF CloseSocket
<1>18. CASE Execve BY <1>18 DEF Execve
<1>19. CASE UserExit BY <1>19 DEF UserExit
<1> QED BY <1>1, <1>2, <1>3, <1>4, <1>5, <1>6, <1>7, <1>8, <1>9, <1>10, <1>11,
      <1>12, <1>13, <1>14, <1>15, <1>16, <1>17, <1>18, <1>19 DEF ChildStep,
      ContainerSetup

(* Kills from outside, and the kernel's own step. *)
LEMMA OutsideHold ==
  ASSUME IInv, HoldInv, Outside
  PROVE  HoldInv'
<1>0. UNCHANGED <<mainVars, childVars>> BY DEF Outside, Reclaim, Kill, Crash
<1> USE <1>0 DEF HoldInv, AliveInv, LinkInv, RulesInv, LimitsInv, EndsInv,
      NetInv, LimitsTried, AfterUp, AfterRead, mainVars, childVars, procVars,
      sockVars, hostVars, PeerSettings, NatRules
<1>1. CASE Reclaim BY <1>1 DEF Reclaim, NetnsDestroyed, NetnsAlive
<1>2. CASE Kill BY <1>2 DEF Kill, InitKilled, InitExits
<1>3. CASE Crash BY <1>3 DEF Crash, LauncherKilled
<1> QED BY <1>1, <1>2, <1>3 DEF Outside

LEMMA HoldInductive == Spec => []HoldInv
<1>1. Init => HoldInv
  BY DEF Init, KernelInit, MainInit, ContainerInit, HoldInv, AliveInv,
      LinkInv, RulesInv, LimitsInv, EndsInv, NetInv, LimitsTried, InCleanup,
      BeforeVeth, WithRules, BeforeRules, Mapping, BeforeAnswer, AfterUnlink,
      BeforeWrite, BeforeClone, BeforeCloexec, FromCloexec, AfterRead, AfterUp
<1>2. IInv /\ ReturnInv /\ HoldInv /\ [Next]_vars => HoldInv'
  <2> SUFFICES ASSUME IInv, ReturnInv, HoldInv, [Next]_vars PROVE HoldInv'
    OBVIOUS
  <2>1. CASE Main
    BY <2>1, MainHold, MainNet DEF Main, ReturnInv, HoldInv
  <2>2. CASE Setup \/ Command
    BY <2>2, ChildHold DEF Setup, Command, ChildStep
  <2>3. CASE Reclaim \/ Kill \/ Crash BY <2>3, OutsideHold DEF Outside
  <2>4. CASE Over \/ UNCHANGED vars
    BY <2>4 DEF Over, vars, kernelVars, procVars, sockVars, hostVars,
        mainVars, childVars, HoldInv, AliveInv, LinkInv, RulesInv, LimitsInv,
        EndsInv, NetInv, LimitsTried
  <2> QED BY <2>1, <2>2, <2>3, <2>4 DEF Next
<1> QED BY <1>1, <1>2, Inductive, ReturnInductive, PTL DEF Spec

-----------------------------------------------------------------------------
(* A running command has its network, the attempt at its limits and its    *)
(* NAT rules: cgroups_init() comes before the answer, and every cleanup    *)
(* after the container's end (barco.c:386-512).                            *)
THEOREM ResourcesHeld == Spec => []HeldWhileRunning
<1>1. HoldInv => HeldWhileRunning
  <2> SUFFICES ASSUME HoldInv, Running PROVE HeldWhileRunning
    BY DEF HeldWhileRunning
  <2> USE DEF HoldInv, Running, At, AfterRead, AfterUp
  <2>1. LimitsTried BY DEF LimitsInv
  <2>2. config.net => veth = "named" /\ {"rename", "addr", "up"} \subseteq done
    BY DEF NetInv
  <2>3. natApplied => "masquerade" \in hostNet
    BY DEF RulesInv, AliveInv, AfterUnlink, InCleanup
  <2> QED BY <2>1, <2>2, <2>3 DEF HeldWhileRunning, LimitsTried
<1> QED BY <1>1, HoldInductive, PTL

(* A launcher that returns, from whichever of its gotos, has undone what   *)
(* it did, or failed in the very call that undoes it (barco.c:466-520).    *)
THEOREM CleanedUp == Spec => []CleanReturn
<1>1. ReturnInv /\ HoldInv => CleanReturn
  BY DEF ReturnInv, EndInv, HoldInv, LinkInv, RulesInv, LimitsInv, EndsInv,
      AfterUnlink, CleanReturn
<1> QED BY <1>1, ReturnInductive, HoldInductive, PTL

-----------------------------------------------------------------------------
(* Barco implements Lifecycle under the mapping of BarcoLifecycle: each    *)
(* call is a step of the promised life, or none.                           *)
LEMMA FirstPromise == Init => Life!Init
BY DEF Init, KernelInit, MainInit, ContainerInit, Life!Init, Life!Resources,
   phase, held, answer, NatRules

LEMMA MainUp == ASSUME MainNext PROVE launcher = "up"
BY DEF MainNext, MainAt, ParseArgs, FillConfig, Socketpair, SetCloexec,
   AllocStack, ScrubLinks, CreateVeth, AddPeerAddr, PeerUp, IpForward,
   Masquerade, ForwardSrc, ForwardEstablished, Setting, Clone, Settle,
   OpenNetns, MoveVeth, CgroupMkdir, CgroupWrite, ReadUnshared, DenySetgroups,
   WriteUidMap, WriteGidMap, WriteMap, AnswerOk, AnswerFail, SendSigkill, Reap,
   WaitContainer, UndoNat, UndoVeth, CloseEnd0, CloseEnd1, CgroupsFree, Return

(* The calls that make, kill and reap the container, and the return.       *)
LEMMA ProcPromise ==
  ASSUME IInv, ReturnInv, ProcStep, UNCHANGED childVars
  PROVE  [Life!Next]_(Life!vars)
<1> USE DEF IInv, LifeInv, MainAt, At, Running, phase, answer, procVars,
            hostVars, childVars, Life!vars
<1>1. CASE Clone
  <2>1. held' = held BY <1>1 DEF Clone, held
  <2>2. Life!Enter \/ UNCHANGED Life!vars
    BY <1>1, <2>1 DEF Clone, Life!Enter, BeforeClone, FromCloexec
  <2> QED BY <2>2 DEF Life!Next
<1>2. CASE SendSigkill
  <2>1. held' = held BY <1>2 DEF SendSigkill, held
  <2>2. Life!End(SIGKILLed) \/ UNCHANGED Life!vars
    BY <1>2, <2>1 DEF SendSigkill, Life!End, InitExits, SIGKILLed, WithChild
  <2> QED BY <2>2 DEF Life!Next, SIGKILLed
<1>3. CASE Reap
  <2>1. held' = held BY <1>3 DEF Reap, held
  <2> QED BY <1>3, <2>1 DEF Reap
<1>4. CASE WaitContainer
  <2>1. held' = held BY <1>4 DEF WaitContainer, held
  <2> QED BY <1>4, <2>1 DEF WaitContainer
<1>5. CASE Return
  <2>1. held' = held BY <1>5 DEF Return, held
  <2>2. Life!Return(exitcode)
    BY <1>5, <2>1 DEF Return, Life!Return, InCleanup, ReturnInv, CodeInv,
        mainVars
  <2>3. exitcode \in 0..255 BY DEF TypeInv, TypeOK, MainTypeOK, Byte
  <2> QED BY <2>2, <2>3 DEF Life!Next
<1> QED BY <1>1, <1>2, <1>3, <1>4, <1>5 DEF ProcStep

(* The calls that change the host acquire while no command runs, and       *)
(* release when the container is gone.                                     *)
HostEffect ==
  \/ UNCHANGED held
  \/ \E r \in Life!Resources :
       \/ held' = held \cup {r} /\ phase # "running"
       \/ held' = held \ {r} /\ phase \in {"idle", "ended"}

LEMMA HostPromise ==
  ASSUME IInv, LimitsInv, HostStep
  PROVE  HostEffect
<1> USE DEF HostEffect, MainAt, OnlyHost, OnlyNet, Life!Resources, IInv,
            LifeInv, phase, held, NatRules, PeerSettings, BeforeClone,
            BeforeCloexec, FromCloexec, InCleanup
<1>1. CASE ScrubLinks BY <1>1 DEF ScrubLinks
<1>2. CASE CreateVeth BY <1>2 DEF CreateVeth
<1>3. CASE AddPeerAddr BY <1>3 DEF AddPeerAddr, Setting
<1>4. CASE PeerUp BY <1>4 DEF PeerUp, Setting
<1>5. CASE IpForward BY <1>5 DEF IpForward, Setting
<1>6. CASE Masquerade BY <1>6 DEF Masquerade
<1>7. CASE ForwardSrc BY <1>7 DEF ForwardSrc, Setting
<1>8. CASE ForwardEstablished BY <1>8 DEF ForwardEstablished
<1>9. CASE MoveVeth BY <1>9 DEF MoveVeth
<1>10. CASE CgroupMkdir
  BY <1>10 DEF CgroupMkdir, LimitsInv, BeforeAnswer, BeforeWrite, Running, At,
      AfterRead
<1>11. CASE UNCHANGED <<veth, hostNet, cgdir>> BY <1>11
<1>12. CASE UndoNat BY <1>12 DEF UndoNat
<1>13. CASE UndoVeth BY <1>13 DEF UndoVeth
<1>14. CASE CgroupsFree BY <1>14 DEF CgroupsFree
<1> QED BY <1>1, <1>2, <1>3, <1>4, <1>5, <1>6, <1>7, <1>8, <1>9, <1>10, <1>11,
      <1>12, <1>13, <1>14 DEF HostStep, CgroupWrite, DenySetgroups,
      WriteUidMap, WriteGidMap, WriteMap

LEMMA MainPromise ==
  ASSUME IInv, ReturnInv, HoldInv, MainNext, UNCHANGED childVars
  PROVE  [Life!Next]_(Life!vars)
<1>1. CASE ProcStep BY <1>1, ProcPromise
<1>2. CASE UNCHANGED procVars
  <2>1. launcher = "up" /\ config' = config BY MainUp, MainFrame
  <2>2. UNCHANGED <<phase, launcher, status, answer>>
    BY <1>2, <2>1 DEF procVars, childVars, phase, answer, Running, At
  <2>3. HostEffect
    <3>1. CASE HostStep BY <3>1, HostPromise DEF HoldInv
    <3>2. CASE UNCHANGED hostVars BY <3>2 DEF hostVars, HostEffect, held
    <3> QED BY <3>1, <3>2, MainFrame
  <2> QED BY <2>1, <2>2, <2>3 DEF HostEffect, Life!Next, Life!Acquire,
        Life!Release, Life!vars
<1> QED BY <1>1, <1>2, MainFrame

(* The child sets itself up, starts its command, or ends; it ends with 0   *)
(* only where the command runs.                                            *)
LEMMA ChildPromise ==
  ASSUME IInv, ReturnInv, HoldInv, ChildStep, UNCHANGED mainVars
  PROVE  [Life!Next]_(Life!vars)
<1> DEFINE EndsWith(s) ==
      cpc' = "dead" /\ InitExits(s) /\ (cpc = "running" \/ s # 0)
<1>1. /\ init = "alive" /\ launcher' = launcher /\ launcher # "returned"
      /\ config' = config /\ cgdir' = cgdir /\ hostNet' = hostNet
      /\ veth' = veth \/ (veth = "ns" /\ veth' = "named")
  BY DEF ChildStep, ContainerSetup, Sethostname, MountSet, LoUp, Poll, Rename,
      Visible, AddAddr, SetUp, AddRoute, SetupDns, EnablePing, Unshare,
      TellUnshared, AwaitMapping, SwitchUser, SetCaps, SetSeccomp, CloseSocket,
      Execve, UserExit, At, Private, InitKeeps, ReturnInv, EndInv
<1>2. \/ At("exec") /\ cpc' = "running" /\ UNCHANGED <<init, status>>
      \/ \E s \in Byte : EndsWith(s)
      \/ cpc # "running" /\ cpc' # "running" /\ UNCHANGED <<init, status>>
  <2> USE Bytes, ContainerAssumption DEF At, Must, Try, Succeed, Continue, Fail
  <2>1. CASE UserExit BY <2>1 DEF UserExit
  <2>2. CASE Execve BY <2>2 DEF Execve
  <2>3. CASE CloseSocket BY <2>3 DEF CloseSocket
  <2> QED BY <2>1, <2>2, <2>3 DEF ChildStep, ContainerSetup, Sethostname,
        MountSet, LoUp, Poll, Rename, AddAddr, SetUp, AddRoute, SetupDns,
        EnablePing, Unshare, TellUnshared, AwaitMapping, SwitchUser, SetCaps,
        SetSeccomp
<1>3. held' = held BY <1>1 DEF held
<1>4. answer' = answer BY <1>1 DEF answer
<1> USE <1>1, <1>3, <1>4 DEF Life!vars, phase, Running, At
<1>5. CASE At("exec") /\ cpc' = "running" /\ UNCHANGED <<init, status>>
  <2>1. (IF config.net THEN {"link"} ELSE {}) \subseteq held
    BY <1>5 DEF HoldInv, NetInv, AfterUp, AfterRead, held
  <2>2. Life!Start BY <1>5, <2>1 DEF Life!Start
  <2> QED BY <2>2 DEF Life!Next
<1>6. CASE \E s \in Byte : EndsWith(s)
  <2>1. PICK s \in Byte : EndsWith(s) BY <1>6
  <2>2. Life!End(s) BY <2>1 DEF Life!End, InitExits
  <2> QED BY <2>2 DEF Life!Next, Byte
<1>7. CASE cpc # "running" /\ cpc' # "running" /\ UNCHANGED <<init, status>>
  BY <1>7
<1> QED BY <1>2, <1>5, <1>6, <1>7

LEMMA OutsidePromise ==
  ASSUME Outside
  PROVE  [Life!Next]_(Life!vars)
<1>0. UNCHANGED <<mainVars, childVars>> BY DEF Outside, Reclaim, Kill, Crash
<1> USE <1>0 DEF Life!vars, phase, answer, Running, At, mainVars, childVars,
                 hostVars, held
<1>1. CASE Reclaim
  <2>1. /\ init \notin {"unborn", "alive"}
        /\ UNCHANGED <<config, launcher, init, status>>
    BY <1>1 DEF Reclaim, NetnsDestroyed, NetnsAlive, procVars
  <2>2. held' = held \ {"link"}
    BY <1>1 DEF Reclaim, NetnsDestroyed, NatRules, PeerSettings
  <2>3. Life!Release("link") BY <2>1, <2>2 DEF Life!Release
  <2> QED BY <2>3 DEF Life!Next, Life!Resources
<1>2. CASE Kill
  <2>1. held' = held BY <1>2 DEF Kill, InitKilled
  <2>2. Life!End(SIGKILLed)
    BY <1>2, <2>1 DEF Kill, InitKilled, InitExits, Life!End, SIGKILLed
  <2> QED BY <2>2, Bytes DEF Life!Next, Byte
<1>3. CASE Crash
  <2>1. held' = held BY <1>3 DEF Crash, LauncherKilled
  <2>2. Life!Die BY <1>3, <2>1 DEF Crash, LauncherKilled, Life!Die
  <2> QED BY <2>2 DEF Life!Next
<1> QED BY <1>1, <1>2, <1>3 DEF Outside

LEMMA StepPromise ==
  ASSUME IInv, ReturnInv, HoldInv, [Next]_vars
  PROVE  [Life!Next]_(Life!vars)
<1>1. CASE Main BY <1>1, MainPromise DEF Main
<1>2. CASE Setup \/ Command
  BY <1>2, ChildPromise DEF Setup, Command, ChildStep
<1>3. CASE Reclaim \/ Kill \/ Crash BY <1>3, OutsidePromise DEF Outside
<1>4. CASE Over \/ UNCHANGED vars
  BY <1>4 DEF Over, vars, kernelVars, procVars, hostVars, mainVars, childVars,
      Life!vars, phase, held, answer, Running, At
<1> QED BY <1>1, <1>2, <1>3, <1>4 DEF Next

(* Whatever fails and whoever is killed, a run of barco (barco.c:153-520)  *)
(* is a life of a container as Lifecycle promises it.                      *)
THEOREM PromiseKept == Spec => KeepsPromise
BY FirstPromise, StepPromise, Inductive, ReturnInductive, HoldInductive, PTL
   DEF Spec, KeepsPromise, Life!Spec

-----------------------------------------------------------------------------
(* Who waits for whom. The launcher blocks in the read of                  *)
(* user_namespace_prepare_mappings() and in waitpid(), the child in the    *)
(* read of user_namespace_init().                                          *)
MainWaits ==
  launcher = "up" /\ \/ mpc = "map_read" /\ ~ReadableAt0
                     \/ mpc \in {"reap", "wait"} /\ init # "zombie"
ChildWaits == At("hs_read") /\ ~ReadableAt1

NoDeadlock == MainWaits => init = "alive" /\ ~ChildWaits

(* The child has sent its report when it waits, which is in the socket     *)
(* until the launcher takes it. A launcher that has taken it answers       *)
(* before it waits itself. Nobody but the child has end 1 open.            *)
UntilRead == {"settle", "open_ns", "move", "cg_mkdir", "cg_write", "map_read"}
AfterReport == {"hs_read"} \cup AfterRead

TurnInv ==
  /\ toMain = "ok" => init # "unborn"
  /\ toMain = "ok" /\ init = "alive" => cpc \in AfterReport
  /\ init = "alive" /\ cpc = "hs_read" =>
       /\ mpc \in UntilRead => toMain = "ok"
       /\ mpc = "wait" => toInit # "empty"
  /\ init = "alive" /\ mpc \in {"setgroups", "uid_map", "gid_map", "map_ok", "wait"} =>
       cpc \in AfterReport
  /\ mpc \in WithChild => main1 # "sock"
  /\ init # "alive" => initFd = {}

LEMMA MainTurn ==
  ASSUME TurnInv, LifeInv, SockTypeOK, MainNext, UNCHANGED childVars
  PROVE  TurnInv'
<1>0. toMain \in {"empty", "ok"}
  BY DEF SockTypeOK
<1> USE DEF TurnInv, LifeInv, UntilRead, AfterReport, WithChild, BeforeClone,
            BeforeCloexec, FromCloexec, AfterRead, MainAt, Goto, Bail,
            StopAndBail, OnlyMain, OnlySock, OnlyHost, OnlyNet, OnlyAnswer,
            procVars, sockVars, hostVars, childVars, mainVars
<1>1. CASE ParseArgs BY <1>1 DEF ParseArgs
<1>2. CASE FillConfig BY <1>2 DEF FillConfig
<1>3. CASE Socketpair BY <1>3 DEF Socketpair
<1>4. CASE SetCloexec BY <1>4 DEF SetCloexec
<1>5. CASE AllocStack BY <1>5 DEF AllocStack, MustMain
<1>6. CASE ScrubLinks BY <1>6 DEF ScrubLinks
<1>7. CASE CreateVeth BY <1>7 DEF CreateVeth
<1>8. CASE AddPeerAddr BY <1>8 DEF AddPeerAddr, Setting
<1>9. CASE PeerUp BY <1>9 DEF PeerUp, Setting
<1>10. CASE IpForward BY <1>10 DEF IpForward, Setting
<1>11. CASE Masquerade BY <1>11 DEF Masquerade
<1>12. CASE ForwardSrc BY <1>12 DEF ForwardSrc, Setting
<1>13. CASE ForwardEstablished BY <1>13 DEF ForwardEstablished
<1>14. CASE Clone BY <1>14 DEF Clone, HandOver
<1>15. CASE Settle BY <1>15 DEF Settle, SignalReaches
<1>16. CASE OpenNetns BY <1>16 DEF OpenNetns
<1>17. CASE MoveVeth BY <1>17 DEF MoveVeth, CloseNsFd
<1>18. CASE CgroupMkdir BY <1>18 DEF CgroupMkdir
<1>19. CASE CgroupWrite BY <1>19 DEF CgroupWrite
<1>20. CASE ReadUnshared BY <1>20, <1>0 DEF ReadUnshared
<1>21. CASE DenySetgroups BY <1>21 DEF DenySetgroups, WriteMap
<1>22. CASE WriteUidMap BY <1>22 DEF WriteUidMap, WriteMap
<1>23. CASE WriteGidMap BY <1>23 DEF WriteGidMap, WriteMap
<1>24. CASE AnswerOk BY <1>24 DEF AnswerOk, Send, End1Open
<1>25. CASE AnswerFail BY <1>25 DEF AnswerFail, Send, Refusal
<1>26. CASE SendSigkill BY <1>26 DEF SendSigkill, InitExits, AfterKill
<1>27. CASE Reap BY <1>27 DEF Reap
<1>28. CASE WaitContainer BY <1>28 DEF WaitContainer
<1>29. CASE UndoNat BY <1>29 DEF UndoNat
<1>30. CASE UndoVeth BY <1>30 DEF UndoVeth
<1>31. CASE CloseEnd0 BY <1>31 DEF CloseEnd0
<1>32. CASE CloseEnd1 BY <1>32 DEF CloseEnd1
<1>33. CASE CgroupsFree BY <1>33 DEF CgroupsFree
<1>34. CASE Return BY <1>34 DEF Return
<1> QED BY <1>1, <1>2, <1>3, <1>4, <1>5, <1>6, <1>7, <1>8, <1>9, <1>10,
      <1>11, <1>12, <1>13, <1>14, <1>15, <1>16, <1>17, <1>18, <1>19, <1>20,
      <1>21, <1>22, <1>23, <1>24, <1>25, <1>26, <1>27, <1>28, <1>29, <1>30,
      <1>31, <1>32, <1>33, <1>34 DEF MainNext

LEMMA ChildTurn ==
  ASSUME TurnInv, LifeInv, ChildStep, UNCHANGED mainVars
  PROVE  TurnInv'
<1> USE DEF TurnInv, UntilRead, AfterReport, AfterRead, WithChild, InitExits, At, Must,
            Try, Succeed, Continue, Fail, Private, InitKeeps, mainVars
<1>1. CASE Sethostname BY <1>1 DEF Sethostname
<1>2. CASE MountSet BY <1>2 DEF MountSet
<1>3. CASE LoUp BY <1>3 DEF LoUp
<1>4. CASE Poll BY <1>4 DEF Poll, Tick, Visible
<1>5. CASE Rename BY <1>5 DEF Rename, Visible
<1>6. CASE AddAddr BY <1>6 DEF AddAddr
<1>7. CASE SetUp BY <1>7 DEF SetUp
<1>8. CASE AddRoute BY <1>8 DEF AddRoute
<1>9. CASE SetupDns BY <1>9 DEF SetupDns
<1>10. CASE EnablePing BY <1>10 DEF EnablePing
<1>11. CASE Unshare BY <1>11 DEF Unshare
<1>12. CASE TellUnshared BY <1>12 DEF TellUnshared
<1>13. CASE AwaitMapping BY <1>13 DEF AwaitMapping, Accepts
<1>14. CASE SwitchUser BY <1>14 DEF SwitchUser
<1>15. CASE SetCaps BY <1>15 DEF SetCaps
<1>16. CASE SetSeccomp BY <1>16 DEF SetSeccomp
<1>17. CASE CloseSocket BY <1>17 DEF CloseSocket
<1>18. CASE Execve BY <1>18 DEF Execve
<1>19. CASE UserExit BY <1>19 DEF UserExit
<1> QED BY <1>1, <1>2, <1>3, <1>4, <1>5, <1>6, <1>7, <1>8, <1>9, <1>10,
      <1>11, <1>12, <1>13, <1>14, <1>15, <1>16, <1>17, <1>18, <1>19 DEF ChildStep,
      ContainerSetup

LEMMA TurnKept == IInv /\ TurnInv /\ [Next]_vars => TurnInv'
<1> SUFFICES ASSUME IInv, TurnInv, [Next]_vars PROVE TurnInv'
  OBVIOUS
<1>1. CASE Main
  BY <1>1, MainTurn DEF Main, IInv, TypeInv, TypeOK, KernelTypeOK
<1>2. CASE Setup \/ Command
  BY <1>2, ChildTurn DEF Setup, Command, ChildStep, IInv
<1>3. CASE Outside
  BY <1>3 DEF Outside, Reclaim, Kill, Crash, NetnsDestroyed, InitKilled,
      LauncherKilled, InitExits, procVars, sockVars, mainVars, childVars,
      TurnInv, AfterReport, AfterRead, UntilRead, WithChild
<1>4. CASE UNCHANGED vars
  BY <1>4 DEF vars, kernelVars, procVars, sockVars, hostVars, mainVars, childVars,
      TurnInv
<1> QED BY <1>1, <1>2, <1>3, <1>4 DEF Next, Over, Outside

(* At no point of the handshake do both processes wait for each other:     *)
(* when main() is blocked in a read or in waitpid(), whatever has failed,  *)
(* the container's process lives and can take a step of its own (or runs   *)
(* its command). For a launcher that was killed there is no such promise.  *)
THEOREM NobodyWaitsForNobody == Spec => []NoDeadlock
<1>1. Init => TurnInv
  BY DEF Init, KernelInit, MainInit, ContainerInit, TurnInv, UntilRead, WithChild
<1>2. IInv /\ TurnInv => NoDeadlock
  <2> SUFFICES ASSUME IInv, TurnInv, MainWaits PROVE init = "alive" /\ ~ChildWaits
    BY DEF NoDeadlock
  <2>1. CASE mpc = "map_read" /\ ~ReadableAt0
    BY <2>1 DEF ReadableAt0, End1Open, TurnInv, WithChild, UntilRead, ChildWaits, At
  <2>2. CASE mpc \in {"reap", "wait"} /\ init # "zombie"
    <3>1. mpc = "wait" /\ init = "alive"
      BY <2>2 DEF MainWaits, IInv, LifeInv, WithChild
    <3> QED BY <3>1 DEF TurnInv, ChildWaits, ReadableAt1, At
  <2> QED BY <2>1, <2>2 DEF MainWaits
<1> QED BY <1>1, <1>2, TurnKept, Inductive, PTL DEF Spec
=============================================================================
