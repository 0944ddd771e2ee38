---------------------------- MODULE MCModbusLink ----------------------------
(* Instance of ModbusLink for TLC: with two ids the third request reuses   *)
(* the first one, and there is time to be late over two reconnects.        *)
EXTENDS ModbusLink
=============================================================================
