----------------------------- MODULE MCUartRxSync -----------------------------
EXTENDS UartRxSync

MCHeader == <<"A", "B", "C">>
=============================================================================
