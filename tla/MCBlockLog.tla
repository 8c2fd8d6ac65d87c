------------------------------- MODULE MCBlockLog -------------------------------
EXTENDS BlockLog

CONSTANTS a, b

TwoBlocks == <<a, b>>
NoBlocks == <<>>
================================================================================
