---------------------------- MODULE MCAdmission ----------------------------
(* An instance of Admission, and of the DeviceStore below it, for TLC.      *)
EXTENDS Admission

CONSTANTS net1, net2, t1, s1, s2

TwoInstances == <<net1, net2>>

\* Others make of a device one that is authorized and whose key expires, or
\* one that is not authorized and whose key never does.
Others ==
  {[authorized |-> yes, keyExpiryDisabled |-> ~yes, expires |-> t1, shown |-> s1] :
     yes \in BOOLEAN}

\* Requests that admit a device and that remove it.
Requests == {[field |-> "authorized", value |-> TRUE], [field |-> "delete", value |-> None]}
=============================================================================
