----------------------------- MODULE MCServices -----------------------------
(***************************************************************************)
(* The components around the request loop, each with small sets of values. *)
(* They share no state, so each initial state picks the scene that plays:  *)
(* the others keep their initial states.                                   *)
(***************************************************************************)
EXTENDS Conversation, CacheSim, RequestLog, TokenRefresh, LiveConfig, AccessKeys

VARIABLE scene

Scenes == {"conversation", "cache", "log", "refresh", "config", "keys"}

\* Messages: plain, blank, with an image the service takes or not, with tool
\* calls and results, alone and in parallel.
Says(t)         == [type |-> "text", text |-> t]
Shows(taken)    == [type |-> "image", media |-> taken]
Uses(t)         == [type |-> "tool_use", id |-> t]
Returns(t, img) == [type |-> "tool_result", id |-> t, media |-> img]
Thinks          == [type |-> "thinking"]

UserSet ==
    {<<Says("w")>>, <<Says("_"), Shows(FALSE)>>, <<Returns("t1", TRUE)>>, <<Returns("t2", FALSE)>>,
     <<Returns("t1", FALSE), Returns("t2", FALSE)>>,
     <<Returns("t2", FALSE), Returns("t2", FALSE), Says("w")>>}

AssistantSet ==
    {<<Says("w")>>, <<Says("_"), Uses("t1")>>, <<Uses("t1"), Uses("t2")>>,
     <<Thinks, Uses("t2")>>}

ClearTools(keep, exclude) == [type |-> "tools", keep |-> keep, exclude |-> exclude, due |-> TRUE]

EditSet == {<<>>, <<ClearTools(0, {"bash"})>>,
            <<ClearTools(1, {}), [type |-> "thinking", keep |-> 0, exclude |-> {}, due |-> TRUE]>>}

ToolName   == [t \in {"t1", "t2"} |-> IF t = "t1" THEN "Read" ELSE "bash"]
LowerNames == [n \in {"Read", "read", "bash"} |-> IF n = "bash" THEN "bash" ELSE "read"]

PrintSet == {<<1>>, <<1, 2>>}

Wish(s, v) == [setting |-> s, value |-> v]
WishSet == {<<Wish("mode", 1), Wish("capRatio", Bad)>>,
            <<Wish("mode", 0), Wish("floorRatio", 1), Wish("simTtl", 1)>>,
            <<Wish("simTtl", 0)>>, <<Wish("floorRatio", 0)>>}

ServicesInit ==
    /\ scene \in Scenes
    /\ ConversationInit /\ CacheInit /\ LogInit /\ RefreshInit /\ ConfigInit /\ KeysInit
    /\ scene # "conversation" => ~session.system /\ ~session.named
    /\ scene # "log" => ~errorsOnly
    /\ file.values["mode"] = 0 /\ file.values["simTtl"] = 0
    /\ scene # "config" => file.state = "missing"
    /\ scene # "keys" => groups = {}

Plays(s, others) == scene = s /\ UNCHANGED <<scene, others>>

ServicesNext ==
    \/ /\ Plays("conversation", <<cacheVars, logVars, refreshVars, configVars, keyVars>>)
       /\ ConversationNext
    \/ /\ Plays("cache", <<conversationVars, logVars, refreshVars, configVars, keyVars>>)
       /\ CacheNext
    \/ /\ Plays("log", <<conversationVars, cacheVars, refreshVars, configVars, keyVars>>)
       /\ LogNext
    \/ /\ Plays("refresh", <<conversationVars, cacheVars, logVars, configVars, keyVars>>)
       /\ RefreshNext
    \/ /\ Plays("config", <<conversationVars, cacheVars, logVars, refreshVars, keyVars>>)
       /\ ConfigNext
    \/ /\ Plays("keys", <<conversationVars, cacheVars, logVars, refreshVars, configVars>>)
       /\ KeysNext

ServicesSpec ==
    ServicesInit /\ [][ServicesNext]_<<scene, conversationVars, cacheVars, logVars, refreshVars,
                                       configVars, keyVars>>

\* The types of all the scenes' variables.
ServicesTypeOK ==
    /\ ConversationTypeOK /\ CacheTypeOK /\ LogTypeOK
    /\ RefreshTypeOK /\ ConfigTypeOK /\ KeysTypeOK
=============================================================================
