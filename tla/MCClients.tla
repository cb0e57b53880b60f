----------------------------- MODULE MCClients -----------------------------
(***************************************************************************)
(* A session of the FSP, the SFTP or the HTTP client, each with its small  *)
(* server, for TLC.  request->protonum chooses once which of the protocols *)
(* the calls of the request go to.                                         *)
(***************************************************************************)
EXTENDS Fsp, Sftp, Http

CONSTANTS h1, h2

VARIABLE protonum

vars == <<protonum, fspVars, sftpVars, httpVars>>

ClientsInit == protonum \in {"fsp", "ssh2", "http"} /\ FspInit /\ SftpInit /\ HttpInit

FspStep(A) == protonum = "fsp" /\ A /\ UNCHANGED <<protonum, sftpVars, httpVars>>
SftpStep(A) == protonum = "ssh2" /\ A /\ UNCHANGED <<protonum, fspVars, httpVars>>
HttpStep(A) == protonum = "http" /\ A /\ UNCHANGED <<protonum, fspVars, sftpVars>>

ClientsNext == FspStep(FspNext) \/ SftpStep(SftpNext) \/ HttpStep(HttpNext)

\* The thread of the operation runs; see the three modules.
ClientsFairness ==
  WF_vars(FspStep(FspClient) \/ SftpStep(SftpTimely) \/ HttpStep(HttpClient))
ClientsSpec == ClientsInit /\ [][ClientsNext]_vars /\ ClientsFairness

\* The state of the three clients and of their connections is well formed (FSP_SESSION,
\* sshv2_params, rfc2068_params).
ClientsTypeOK == FspTypeOK /\ SftpTypeOK /\ HttpTypeOK

\* Every call of a client returns to its caller, whatever the network and the server do, outside
\* the loops that read an end of file again and the login, which wait without a timeout
\* (fsp_transaction(), sshv2_read_response(), rfc2068_read_response()).
ClientsWait == FspWaits \/ SftpWaits \/ HttpWaits
ClientsReturn == ClientsWait ~> ~ClientsWait
=============================================================================
