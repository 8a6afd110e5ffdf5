------------------------------- MODULE Errors -------------------------------
(***************************************************************************)
(* RadosError and check_err (src/src/error.rs).  What librados returns is  *)
(* "OK" or the name of an errno; RadosError::Rados(errno) is written as    *)
(* the name of the errno.                                                  *)
(***************************************************************************)

Ok == "Ok"

CheckErr(ret) ==
  CASE ret = "OK" -> Ok
    [] ret = "ENOENT" -> "NotFound"
    [] ret = "EEXIST" -> "AlreadyExists"
    [] OTHER -> ret

=============================================================================
