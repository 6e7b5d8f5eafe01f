---------------------------- MODULE MCWifiKeystore ----------------------------
(***************************************************************************)
(* One credential in the wifi namespace, one grant, entries and blobs in   *)
(* each form a certificate can have.                                       *)
(***************************************************************************)
EXTENDS WifiKeystore, TLC

CONSTANTS x, g, k1, k2, k3

Key(prefix, name) == [prefix |-> prefix, name |-> name]
Cert(form, key) == [form |-> form, key |-> key]
Entry(cert, chain, key) ==
  [certificate |-> cert, certificateChain |-> chain, key |-> key]

MCGrantId == g :> 1

(* A key pair can be replaced by one of the same or another algorithm.     *)
MCAlgorithm == k1 :> "RSA" @@ k2 :> "EC" @@ k3 :> "RSA"

MCKeyStrings ==
  {Key("CACERT_", x), Key("USRCERT_", x), Key("USRPKEY_", x),
   Key("", g)}

MCEntries ==
  {Entry(<<Cert("der", k1)>>, <<Cert("der", k2), Cert("der", k3)>>, k1),
   Entry(<<Cert("pem", k3), Cert("pem", k2)>>, <<Cert("der", k2), Cert("other", None)>>, k3),
   Entry(None, <<Cert("der", k2), Cert("unencodable", k3)>>, k2),
   Entry(<<Cert("other", None)>>, None, None)}

MCBlobs == {<<>>, <<Cert("der", k3)>>, <<Cert("pem", k2)>>}
==============================================================================
