------------------------------ MODULE MCAlarm -------------------------------
EXTENDS Alarm
CONSTANTS main, t1
=============================================================================
