---------------------------- MODULE MCLiveMessages ----------------------------
(* WsFanout, Messaging and RuntimeSettings for TLC.  They share no variable: a  *)
(* behaviour is one of them, chosen by side, and the others keep their initial  *)
(* state.                                                                       *)
EXTENDS WsFanout, Messaging, RuntimeSettings

VARIABLE side
liveVars == <<vars, chatVars, settingVars, side>>

MCInit ==
    /\ Init /\ ChatInit /\ SettingsInit
    /\ side \in {"fanout", "chat", "settings"}
    /\ side # "fanout" => redis = "up"
    /\ side # "settings" => uptime = 0

MCNext ==
    /\ UNCHANGED side
    /\ \/ side = "fanout" /\ Next /\ UNCHANGED <<chatVars, settingVars>>
       \/ side = "chat" /\ ChatNext /\ UNCHANGED <<vars, settingVars>>
       \/ side = "settings" /\ SettingsNext /\ UNCHANGED <<vars, chatVars>>

\* Fairness of WsFanout and SettingsFairness, each in its own side.
MCFairness ==
    /\ \A i \in Instances : /\ WF_vars(side = "fanout" /\ Loop(i))
                            /\ WF_vars(side = "fanout" /\ IntervalPasses(i))
    /\ \A s \in Sockets : /\ WF_vars(side = "fanout" /\ CloseOnExpiry(s))
                          /\ WF_vars(side = "fanout" /\ EndpointEnds(s))
    /\ \A m \in Messages : WF_vars(side = "fanout" /\ Publish(m))
    /\ WF_vars(side = "fanout" /\ \E t \in tasks : Delivered(t) \/ \E s \in Sockets : DeliverTo(t, s))
    /\ WF_settingVars(side = "settings" /\ SettingsTick)
    /\ \A p \in Processes :
          /\ WF_settingVars(side = "settings" /\ BeginLoad(p))
          /\ WF_settingVars(side = "settings" /\ (LoadRows(p) \/ LoadFails(p)))
          /\ SF_settingVars(side = "settings" /\ LoadRows(p))
          /\ WF_settingVars(side = "settings" /\ StoreRows(p))
          /\ WF_settingVars(side = "settings" /\ Invalidate(p))

MCSpec == MCInit /\ [][MCNext]_liveVars /\ MCFairness

\* The state of the three modules has its type.
MCTypeOK == TypeOK /\ ChatTypeOK /\ SettingsTypeOK

\* The processes of the settings come to agree with the table; the other sides have
\* none.
SettingsConverge == side = "settings" => CachesConverge
=============================================================================
