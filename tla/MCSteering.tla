---- MODULE MCSteering ----
EXTENDS Steering
====
