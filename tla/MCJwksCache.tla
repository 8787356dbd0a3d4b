---------------------------- MODULE MCJwksCache ------------------------------
(* JwksCache on small instances: an issuer that names its keys and replaces   *)
(* them one by one, and one with a single key that may or may not name it.    *)
EXTENDS JwksCache, TLC

CONSTANTS k1, k2,  (* key ids         *)
          a, b,    (* the keys        *)
          v1, v2   (* validations     *)

Set(x, y, z) == [k \in Kids |-> IF k = NoKid THEN x ELSE IF k = k1 THEN y ELSE z]

(* The old key, both, the new one; one key at a time, with a name or without. *)
NamedKeys  == {Set(NoKey, a, NoKey), Set(NoKey, a, b), Set(NoKey, NoKey, b)}
SingleKeys == {Set(a, NoKey, NoKey), Set(b, NoKey, NoKey), Set(NoKey, a, NoKey)}
AnyKeys    == NamedKeys \union SingleKeys

Signed(k, x) == [kid |-> k, key |-> x]
AnyTokens == {Signed(k1, a), Signed(NoKid, a), Signed(NoKid, b)}

Calls == Permutations(Validations)
=============================================================================
