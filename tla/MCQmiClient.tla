---------------------------- MODULE MCQmiClient -----------------------------
(***************************************************************************)
(* Small instances of QmiClient for TLC: a request of every message id and *)
(* of an unknown service, with the largest transaction id and with 0, one  *)
(* that bears the flags of an indication, and requests with TLVs whose     *)
(* lengths are at the limits of the length field, 24 with Base = 5.        *)
(***************************************************************************)
EXTENDS QmiClient

RequestOf(flags, txn, service, message, tlvs) ==
  [header |-> [version |-> 1, flags |-> flags, transactionId |-> txn,
               serviceId |-> service, messageId |-> message, payloadLength |-> 0],
   tlvs |-> tlvs]

TlvOf(type, size, byte) == [type |-> type, value |-> [i \in 1..size |-> byte]]

Plain ==
  {RequestOf(1, WordCount - 1, 1, message, <<>>) : message \in 1..4}
    \union {RequestOf(1, 0, 1, 2, <<>>), RequestOf(1, WordCount - 1, 2, 1, <<>>)}

Sized ==
  {RequestOf(1, 7, 1, 1, <<TlvOf(Base, size, byte)>>) :
     size \in {0, 20, 21, 25, 46}, byte \in {0, Base - 1}}

Pairs ==
  {RequestOf(1, 7, 1, 1, <<TlvOf(1, 8, Base - 1), TlvOf(Base, size, 0)>>) :
     size \in {0, 8, 9, 12}}

SmallRequests ==
  Plain \union Sized \union Pairs \union {RequestOf(4, 0, 1, 2, <<>>)}
=============================================================================
