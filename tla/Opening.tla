------------------------------- MODULE Opening -------------------------------
(***************************************************************************)
(* How a data source name becomes an open cache: the registry of drivers   *)
(* (store/internal/registry), fromURL, Open and initialize of the file     *)
(* system cache, and newAESGCMEncryptor.                                   *)
(*                                                                         *)
(* A DSN is a record of its scheme and query parameters.  A timeout is     *)
(* 0 when the parameter is missing or no duration; a key is NoKeyText when *)
(* missing, BadKeyText when it is not base64 of an AES key, and a positive *)
(* number otherwise.                                                       *)
(***************************************************************************)
EXTENDS Integers

CONSTANTS Drivers,         \* schemes of the drivers that are registered
          EnvKey,          \* what FSCACHE_ENCRYPT_KEY holds
          DefaultTimeout,  \* five minutes
          InitFails        \* whether initialize may fail or take too long

NoKeyText == 0
BadKeyText == -1

Dsn == [scheme : STRING, appname : BOOLEAN, encrypt : {"", "on", "aesgcm", "off"},
        key : Nat \cup {BadKeyText}, timeout : Int, updateMTime : {"", "on", "off"}]

Failed == [ok |-> FALSE]

AsksForEncryption(dsn) == dsn.encrypt \in {"on", "aesgcm"}

\* The key in the DSN goes before the one in the environment.
KeyText(dsn) == IF dsn.key # NoKeyText THEN dsn.key ELSE EnvKey

\* Mutation: without a usable key, encryption is left off.
OptionErrorLenient(dsn) == ~ dsn.appname

\* What keeps fromURL and the options from opening: no name, or no usable key.
OptionError(dsn) ==
    \/ ~ dsn.appname
    \/ AsksForEncryption(dsn) /\ KeyText(dsn) \in {NoKeyText, BadKeyText}

\* parseTimeout, WithTimeout and initialize: nothing but a positive timeout stays.
Timeout(dsn) == IF dsn.timeout > 0 THEN dsn.timeout ELSE DefaultTimeout

\* The cache that fromURL opens.
FsConn(dsn) ==
    [enc |-> IF AsksForEncryption(dsn) /\ KeyText(dsn) > 0 THEN KeyText(dsn) ELSE 0,
     sealed |-> AsksForEncryption(dsn),
     updateMTime |-> dsn.updateMTime = "on",
     timeout |-> Timeout(dsn)]

(***************************************************************************)
(* OpenConn of the registry: the possible results.  Open of the file       *)
(* system cache waits for initialize or for its own timeout; both failures *)
(* leave at most the directory of the cache behind.  The in-memory driver  *)
(* opens a new, empty cache each time.                                     *)
(***************************************************************************)
OpenConn(dsn) ==
    CASE dsn.scheme \notin Drivers -> {Failed}
      [] dsn.scheme = "memcache" /\ dsn.scheme \in Drivers -> {[ok |-> TRUE, driver |-> "memcache"]}
      [] dsn.scheme = "fscache" /\ dsn.scheme \in Drivers ->
           IF OptionError(dsn) THEN {Failed}
           ELSE {[ok |-> TRUE, driver |-> "fscache", conn |-> FsConn(dsn)]}
                \cup (IF InitFails THEN {Failed} ELSE {})
=============================================================================
