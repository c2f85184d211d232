------------------------------- MODULE MCIocp -------------------------------
EXTENDS IocpNetwork

CONSTANTS c1, a1, k1

Ovs == {<<c1, "connect">>, <<a1, 1>>, <<k1, "recv">>, <<k1, "send">>}
=============================================================================
