--------------------------- MODULE Scenes_proofs ----------------------------
(***************************************************************************)
(* The scenes of MCServices share no state: whatever one of them does, the *)
(* others see a step of their own specification or none.  What is proved   *)
(* of each component by itself therefore holds of all of them side by side. *)
(***************************************************************************)
EXTENDS MCServices, Conversation_proofs, Services_proofs

servicesVars ==
    <<scene, conversationVars, cacheVars, logVars, refreshVars, configVars, keyVars>>

LEMMA ScenesBegin ==
    ServicesInit => /\ ConversationInit /\ CacheInit /\ LogInit
                    /\ RefreshInit /\ ConfigInit /\ KeysInit
BY DEF ServicesInit

LEMMA ScenesStep ==
    [ServicesNext]_servicesVars =>
        /\ [ConversationNext]_conversationVars /\ [CacheNext]_cacheVars /\ [LogNext]_logVars
        /\ [RefreshNext]_refreshVars /\ [ConfigNext]_configVars /\ [KeysNext]_keyVars
BY DEF ServicesNext, Plays, servicesVars

\* Each component behaves in the composition as it does by itself.
THEOREM ScenesAreComponents ==
    ServicesSpec => /\ ConversationSpec /\ CacheSpec /\ LogSpec
                    /\ RefreshSpec /\ ConfigSpec /\ KeysSpec
BY ScenesBegin, ScenesStep, PTL
DEF ServicesSpec, servicesVars, ConversationSpec, CacheSpec, LogSpec, RefreshSpec, ConfigSpec,
    KeysSpec

\* No component ever leaves its types, in any order of their steps.
THEOREM ServicesTypeCorrect == ServicesSpec => []ServicesTypeOK
<1>1. ConversationTypeOK /\ CacheTypeOK /\ LogTypeOK /\ RefreshTypeOK /\ ConfigTypeOK /\ KeysTypeOK
        => ServicesTypeOK
  BY DEF ServicesTypeOK
<1> QED
  BY <1>1, ScenesAreComponents, ConversationTypeCorrect, CacheTypeCorrect, LogTypeCorrect,
     RefreshTypeCorrect, ConfigTyped, KeysTyped, PTL
=============================================================================
