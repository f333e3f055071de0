----------------------------- MODULE MCSandbox ------------------------------
\* A page of the site that works and has moved, one that is slow, one that leads to a host with an
\* address within, an image that is gone.
EXTENDS Sandbox

CONSTANTS good, moved, slow, astray, within, gone

MCSite == [u \in Url |-> CASE u = slow -> "slow" [] u = gone -> "gone" [] OTHER -> "well"]
MCFinal == [u \in Url |-> CASE u = good -> moved [] u = astray -> within [] OTHER -> u]

MCOutside == {<<93, 184, 215, 14>>, <<9734, 10368, 0, 0, 0, 0, 0, 1>>}
MCAddresses ==
    [u \in Url |-> IF u = within THEN MCOutside \cup {<<0, 0, 0, 0, 0, 65535, 2560, 1>>} ELSE MCOutside]
=============================================================================
