-------------------------- MODULE ConfigInterface --------------------------
(***************************************************************************)
(* The handlers of the config interface, ndmp/src/ndmp_config.c: what each *)
(* of them answers, for the facts of the host that it asks for.            *)
(*                                                                         *)
(* The handlers keep no state and take no lock.  Constant texts of replies *)
(* (vendor names, tape model) are left out.  A handler that reads a        *)
(* pointer nobody has set may end the process.                             *)
(***************************************************************************)
EXTENDS ScsiInfo

CONSTANTS Word,           \* the first number a u_long of the protocol cannot hold
          MaxDevices,     \* devices and properties of a device that
          MaxProperties,  \*   alloc_scsi_info makes room for
          ReplyDevices    \* devices that MAX_MESSAGE_SIZE bytes can describe

ASSUME ConfigAssumption ==
    Word \in Nat \ {0} /\ {MaxDevices, MaxProperties, ReplyDevices} \subseteq Nat

\* A host: does its name fit 31 characters, does statvfs("/") succeed and what
\* does it tell (in KiB), is there a /proc/scsi/scsi, and which devices.
HostFacts(sizes, lists) ==
    [nameFits : BOOLEAN, statvfs : BOOLEAN, size : sizes, free : sizes,
     procScsi : BOOLEAN, devices : lists]

ConfigOps == {"GET_HOST_INFO", "GET_CONNECTION_TYPE", "GET_AUTH_ATTR_NONE",
              "GET_AUTH_ATTR_OTHER", "GET_BUTYPE_INFO", "GET_FS_INFO",
              "GET_TAPE_INFO", "GET_SCSI_INFO", "GET_SERVER_INFO"}

\* A reply with an error has a header and nothing else.
NotSupported == [error |-> "NDMP_NOT_SUPPORTED_ERR"]
Success(content) == [error |-> "NDMP_NO_ERR", content |-> content]
\* A success with a content that nobody has set.
Garbage == [error |-> "NDMP_NO_ERR", garbage |-> TRUE]
\* The process dies in the handler.
Dies == [error |-> "died"]

\* A name that does not fit leaves reply.hostname unset, and xdr_sizeof takes
\* its length.
GetHostInfo(host) ==
    IF host.nameFits THEN {Success("host")} ELSE {NotSupported, Dies}

GetConnectionType == {Success({"local", "tcp"})}

\* The only authentication is none.
GetAuthAttr(type) == IF type = "none" THEN {Success("auth none")} ELSE {NotSupported}

\* The four attributes for each of dump, tar and cpio.
GetButypeInfo ==
    {Success({"dump", "tar", "cpio"} \X
             {"FILELIST", "DIRECT", "INCREMENTAL", "UTF8"})}

\* The high words are 0, and XDR sends 32 bits of the low ones.  When statvfs
\* has failed, xdr_sizeof is given an unset reply and free() an unset fs_info.
GetFsInfo(host) ==
    IF host.statvfs
    THEN {Success([total |-> host.size % Word, used |-> (host.size - host.free) % Word])}
    ELSE {NotSupported, Dies}

GetTapeInfo == {Success("tape")}

GetServerInfo == {Success("server")}

\* Seeded bug: the last device that fits is written beyond the arrays.
GetScsiInfoReply_OffByOne(host, fopen) ==
    LET devices == GetScsiInfo(ProcScsi(host.devices)) IN
    IF Len(devices) >= ReplyDevices THEN {Success(devices), Dies} ELSE {Success(devices)}

\* get_scsi_info passes the result of fopen() to fgets() before it tests it, and
\* never closes the stream.  More devices or properties than were allocated are
\* written beyond them, and more than a reply can hold, beyond the reply.
\* Without a device the number of devices is unset, as is the array that
\* xdr_sizeof follows.
GetScsiInfoReply(host, fopen) ==
    LET devices == GetScsiInfo(ProcScsi(host.devices)) IN
    IF ~fopen \/ ~host.procScsi THEN {Dies}
    ELSE IF devices = <<>> THEN {NotSupported, Garbage, Dies}
    ELSE IF \/ Len(devices) > MaxDevices \/ Len(devices) > ReplyDevices
            \/ \E i \in DOMAIN devices : Len(devices[i].caps) > MaxProperties
         THEN {Success(devices), Garbage, Dies}
    ELSE {Success(devices)}

\* ndmp_error_message answers a request of any other type.
ErrorMessage == {NotSupported}

\* The handlers that ndmp_dispatch can choose, and the replies they may give.
Answers(op, host, fopen) ==
    CASE op = "GET_HOST_INFO"       -> GetHostInfo(host)
      [] op = "GET_CONNECTION_TYPE" -> GetConnectionType
      [] op = "GET_AUTH_ATTR_NONE"  -> GetAuthAttr("none")
      [] op = "GET_AUTH_ATTR_OTHER" -> GetAuthAttr("other")
      [] op = "GET_BUTYPE_INFO"     -> GetButypeInfo
      [] op = "GET_FS_INFO"         -> GetFsInfo(host)
      [] op = "GET_TAPE_INFO"       -> GetTapeInfo
      [] op = "GET_SCSI_INFO"       -> GetScsiInfoReply(host, fopen)
      [] op = "GET_SERVER_INFO"     -> GetServerInfo
      [] OTHER                      -> ErrorMessage
=============================================================================
