------------------------------- MODULE MCStore -------------------------------
(***************************************************************************)
(* Two replicas whose ids alternate.  The attribute doc is defined at      *)
(* genesis, ext is not; docKey is a key of doc, extKey a key of ext.       *)
(***************************************************************************)
EXTENDS Store

CONSTANTS ra, rb, doc, ext, docKey, extKey

MCReplicas == {ra, rb}
MCAttrs == {doc, ext}
MCDataKeys == {docKey, extKey}
MCAttrOf == [key \in DataKeys |-> IF key = docKey THEN doc ELSE ext]
MCGenesis == [attr \in Attrs |-> IF attr = doc THEN 1 ELSE NoDef]
MCNodeOf == <<ra, rb, ra>>

Do(key, v, op) == [triple |-> <<key, v>>, op |-> op]

\* A fact asserted, with a redefinition of doc; the same fact retracted, with
\* doc as it was and ext defined in two ways; a fact of ext, with a fact both
\* retracted and asserted.
MCPayloads ==
    { <<Do(docKey, 1, Assert), Do(doc, 2, Assert)>>,
      <<Do(docKey, 1, Retract), Do(doc, 1, Assert),
        Do(ext, 1, Assert), Do(ext, 2, Assert)>>,
      <<Do(extKey, 1, Assert), Do(docKey, 2, Retract), Do(docKey, 2, Assert)>> }

\* The facts without the definitions; what the first replica wrote.
MCFilters ==
    { [keys |-> DataKeys, nodes |-> Replicas], [keys |-> Keys, nodes |-> {ra}] }
=============================================================================
