--------------------------- MODULE OpenSslContext ---------------------------
(***************************************************************************)
(* The versions an SSL context accepts.  TlsVersion and DtlsVersion are    *)
(* enumerations from 1 (MIN, 0 is UNKNOWN) to MAX; a context is the set of *)
(* versions disabled by its SSL_OP_NO_... options, none in a new one.      *)
(* Contexts that cannot be made (out of memory, no cipher, a certificate   *)
(* or key that is refused) are the error of the caller that uses one.      *)
(***************************************************************************)
EXTENDS Naturals

MIN == 1

disable(disabled, versions) == disabled \cup versions
enable(disabled, versions) == disabled \ versions

\* The loop over the lower versions starts at TlsVersion::MIN for DTLS also,
\* which has the same number.
set_tls_dtls_version(MAX, version_min, version_max) ==
  LET lower  == IF version_min # MIN THEN MIN..(version_min - 1) ELSE {}
      higher == IF version_max # MAX THEN (version_max + 1)..MAX ELSE {}
  IN IF version_min > version_max THEN [error |-> TRUE, disabled |-> {}]
     ELSE [error |-> FALSE,
           disabled |-> enable(disable(disable({}, lower), higher), version_min..version_max)]
=============================================================================
