------------------------------ MODULE MCEvents -------------------------------
EXTENDS EventDelivery

CONSTANTS a, b

Two == <<a, b>>
==============================================================================
