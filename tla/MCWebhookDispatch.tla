------------------------- MODULE MCWebhookDispatch -------------------------
(* Instances of WebhookDispatch for TLC.                                    *)
EXTENDS WebhookDispatch

CONSTANTS h1, h2, e1, e2, e3, s1

OneHook  == {h1}
TwoHooks == {h1, h2}
TwoEvents   == {e1, e2}
ThreeEvents == {e1, e2, e3}
SynthOne == {e2}
NoSynth  == {}
OneSource == {s1}
AllAboutOne == [e \in Events |-> s1]
=============================================================================
