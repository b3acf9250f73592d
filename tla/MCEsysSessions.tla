-------------------------- MODULE MCEsysSessions --------------------------
(* Small instances of EsysSessions. *)
EXTENDS EsysSessions, TLC

CONSTANTS s1, s2, o1, a

Usage(objects, slots, param, result) ==
  [objects |-> objects, slots |-> slots, param |-> param, result |-> result]

MCUsages ==
  {Usage(<<>>, <<>>, "none", FALSE), Usage(<<>>, <<s1>>, "full", TRUE),
   Usage(<<o1>>, <<s1>>, "full", TRUE),
   Usage(<<o1>>, <<Password>>, "full", TRUE),
   Usage(<<o1>>, <<s1, s2>>, "full", TRUE),
   Usage(<<o1, o1>>, <<s1, s2>>, "empty", TRUE)}
Form(s, salted, bind, type) == [session |-> s, salted |-> salted, bind |-> bind, type |-> type]
MCStarts == {Form(s1, TRUE, None, "HMAC"), Form(s1, FALSE, None, "POLICY"),
             Form(s2, TRUE, o1, "HMAC")}
MCAttributeSets ==
  (s1 :> {{"continue"}}) @@ (s2 :> {{"continue", "decrypt"}, {"encrypt"}})
=============================================================================
