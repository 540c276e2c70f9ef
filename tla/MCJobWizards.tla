---------------------------- MODULE MCJobWizards ----------------------------
(* The two wizards on a small instance.                                    *)
EXTENDS JobWizards

CONSTANTS a1, n1, t1, w1

EastEight == -8
OnlyS3 == {{"s3"}}
PairsOfSources == {{"s3", "rds"}, {"glue", "jdbc_tencent"}}
OneHour == {[type |-> t, day |-> NoDay, hour |-> 0] : t \in {"on_demand_run", "weekly"}}
NineOClock == {[type |-> t, day |-> NoDay, hour |-> h] : t \in FrequencyTypes, h \in {0, 9}}

Schedule(type, of, n) == [type |-> type, day |-> [of |-> of, n |-> n], hour |-> 0]
OneDayEach == {Schedule("on_demand_run", "none", 0), Schedule("weekly", "week", 3)}
=============================================================================
